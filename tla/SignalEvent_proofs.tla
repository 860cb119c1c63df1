------------------------ MODULE SignalEvent_proofs ------------------------
(* Theorems about the main loop's signals (SignalEvent), for every set of   *)
(* children and every pipe capacity, and about job_shutdown (JobShutdown),  *)
(* which runs when the loop has ended.                                      *)
EXTENDS SignalEvent, JobShutdown, TLAPS

\* The main loop is certain to look at pending_events again.
Awake == pipe > 0 \/ hpc = "notify" \/ pc \in {"drain", "block", "read"}

\* Signal s is on its way to the main loop.
InFlight(s) ==
    \/ s \in sigpending
    \/ hpc = "flag" /\ hsig = s
    \/ s \in pending_events /\ Awake

\* The main loop holds the event and has not acted on it yet.
ChildTaken(c) ==
    /\ CHILD \in events
    /\ pc \in {"clear", "unblock", "child"} \/ (pc = "reap" /\ c \in todo)

InterruptTaken ==
    /\ INT \in events
    /\ pc \in {"clear", "unblock", "child", "reap", "interrupt"}

NothingLost ==
    pc \in RunSteps =>
        /\ \A c \in changed : InFlight(CHILD) \/ ChildTaken(c)
        /\ intr => InFlight(INT) \/ InterruptTaken

\* signal_take_events runs without interruption.
TakeAtomic ==
    /\ pc \in {"read", "clear", "unblock"} => hpc = "idle"
    /\ pc = "clear" => events = pending_events

\* The handlers go before the pipe they write to.
ExitOrder ==
    /\ pc \in RunSteps \cup {"destroy", "signal_off"} => handled /\ open
    /\ pc \in {"event_off", "exit"} => ~handled
    /\ ~handled => hpc = "idle" /\ sigpending = {}
    /\ pc = "event_off" => open

IndInv == TypeOK /\ TakeAtomic /\ ExitOrder /\ NothingLost
---------------------------------------------------------------------------
\* Init establishes the inductive invariant.
LEMMA InitInv == Init => IndInv
  <1> SUFFICES ASSUME Init PROVE IndInv
    OBVIOUS
  <1>1. intr \in BOOLEAN /\ handled \in BOOLEAN /\ open \in BOOLEAN
        /\ stdin_ready \in BOOLEAN
    BY Zenon DEF Init
  <1>2. TypeOK
    BY <1>1, PipeCapAssumption, MaxRaiseAssumption
       DEF Init, TypeOK, Signals, RunSteps, ExitSteps
  <1>3. handled /\ open /\ ~intr
    BY Zenon DEF Init
  <1>4. TakeAtomic /\ ExitOrder /\ NothingLost
    BY <1>3 DEF Init, TakeAtomic, ExitOrder, NothingLost
  <1> QED
    BY <1>2, <1>4 DEF IndInv

\* Every step keeps the types.
LEMMA NextTypeOK == TypeOK /\ [Next]_vars => TypeOK'
  <1> SUFFICES ASSUME TypeOK, [Next]_vars PROVE TypeOK'
    OBVIOUS
  <1> USE PipeCapAssumption, ReadSizeAssumption, MaxRaiseAssumption
       DEF TypeOK, vars, env, hvars, Signals, RunSteps, ExitSteps, CHILD, INT
  <1>1. ASSUME NEW c \in Child, ChildChanges(c)
       PROVE  TypeOK'
    BY <1>1 DEF ChildChanges, Raise
  <1>2. CASE CtrlC
    BY <1>2 DEF CtrlC, Raise
  <1>3. ASSUME NEW s \in Signals, Deliver(s)
       PROVE  TypeOK'
    BY <1>3 DEF Deliver, Masked
  <1>4. CASE HandlerFlag
    BY <1>4 DEF HandlerFlag
  <1>5. CASE HandlerNotify
    BY <1>5 DEF HandlerNotify
  <1>6. CASE Select
    BY <1>6 DEF Select, At
  <1>7. CASE DrainRead
    BY <1>7 DEF DrainRead, At
  <1>8. CASE DrainEmpty
    BY <1>8 DEF DrainEmpty, At
  <1>9. CASE TakeBlock
    BY <1>9 DEF TakeBlock, At
  <1>10. CASE TakeRead
    BY <1>10 DEF TakeRead, At
  <1>11. CASE TakeClear
    BY <1>11 DEF TakeClear, At
  <1>12. CASE TakeUnblock
    BY <1>12 DEF TakeUnblock, At
  <1>13. CASE HandleChild
    BY <1>13 DEF HandleChild, ReapList, At
  <1>14. ASSUME NEW c \in Child, ReapOne(c)
       PROVE  TypeOK'
    BY <1>14 DEF ReapOne, At
  <1>15. CASE ReapDone
    BY <1>15 DEF ReapDone, At
  <1>16. CASE HandleInterrupt
    BY <1>16 DEF HandleInterrupt, At
  <1>17. CASE ReadInput
    BY <1>17 DEF ReadInput, At
  <1>18. ASSUME NEW c \in Child, DispatchWait(c)
       PROVE  TypeOK'
    BY <1>18 DEF DispatchWait, At
  <1>19. CASE DispatchReturn
    BY <1>19 DEF DispatchReturn, At
  <1>20. CASE ContextDestroy
    BY <1>20 DEF ContextDestroy, At
  <1>21. CASE SignalShutdown
    BY <1>21 DEF SignalShutdown, At
  <1>22. CASE EventShut
    <2>1. open' \in BOOLEAN
      BY <1>22, Zenon DEF EventShut
    <2> QED
      BY <1>22, <2>1 DEF EventShut, At
  <1>23. CASE UNCHANGED vars
    BY <1>23
  <1> QED
    BY <1>1, <1>2, <1>3, <1>4, <1>5, <1>6, <1>7, <1>8, <1>9, <1>10, <1>11,
           <1>12, <1>13, <1>14, <1>15, <1>16, <1>17, <1>18, <1>19, <1>20,
           <1>21, <1>22, <1>23
       DEF Next, Environment, Handler, Main, EventSteps, Cleanup, Terminated

\* The mask of signal_take_events and the order of shell_cleanup.
LEMMA NextOrder ==
    TypeOK /\ TakeAtomic /\ ExitOrder /\ [Next]_vars => (TakeAtomic /\ ExitOrder)'
  <1> SUFFICES ASSUME TypeOK, TakeAtomic, ExitOrder, [Next]_vars
               PROVE  (TakeAtomic /\ ExitOrder)'
    OBVIOUS
  <1> USE DEF TakeAtomic, ExitOrder, Masked, TypeOK, vars, env, hvars, Signals,
              RunSteps, ExitSteps, CHILD, INT
  <1>1. ASSUME NEW c \in Child, ChildChanges(c)
       PROVE  (TakeAtomic /\ ExitOrder)'
    BY <1>1 DEF ChildChanges, Raise
  <1>2. CASE CtrlC
    BY <1>2 DEF CtrlC, Raise
  <1>3. ASSUME NEW s \in Signals, Deliver(s)
       PROVE  (TakeAtomic /\ ExitOrder)'
    BY <1>3 DEF Deliver
  <1>4. CASE HandlerFlag
    BY <1>4 DEF HandlerFlag
  <1>5. CASE HandlerNotify
    BY <1>5 DEF HandlerNotify
  <1>6. CASE Select
    BY <1>6 DEF Select, At
  <1>7. CASE DrainRead
    BY <1>7 DEF DrainRead, At
  <1>8. CASE DrainEmpty
    BY <1>8 DEF DrainEmpty, At
  <1>9. CASE TakeBlock
    BY <1>9 DEF TakeBlock, At
  <1>10. CASE TakeRead
    BY <1>10 DEF TakeRead, At
  <1>11. CASE TakeClear
    BY <1>11 DEF TakeClear, At
  <1>12. CASE TakeUnblock
    BY <1>12 DEF TakeUnblock, At
  <1>13. CASE HandleChild
    BY <1>13 DEF HandleChild, ReapList, At
  <1>14. ASSUME NEW c \in Child, ReapOne(c)
       PROVE  (TakeAtomic /\ ExitOrder)'
    BY <1>14 DEF ReapOne, At
  <1>15. CASE ReapDone
    BY <1>15 DEF ReapDone, At
  <1>16. CASE HandleInterrupt
    BY <1>16 DEF HandleInterrupt, At
  <1>17. CASE ReadInput
    BY <1>17 DEF ReadInput, At
  <1>18. ASSUME NEW c \in Child, DispatchWait(c)
       PROVE  (TakeAtomic /\ ExitOrder)'
    BY <1>18 DEF DispatchWait, At
  <1>19. CASE DispatchReturn
    BY <1>19 DEF DispatchReturn, At
  <1>20. CASE ContextDestroy
    BY <1>20 DEF ContextDestroy, At
  <1>21. CASE SignalShutdown
    BY <1>21 DEF SignalShutdown, At
  <1>22. CASE EventShut
    BY <1>22 DEF EventShut, At
  <1>23. CASE UNCHANGED vars
    BY <1>23
  <1> QED
    BY <1>1, <1>2, <1>3, <1>4, <1>5, <1>6, <1>7, <1>8, <1>9, <1>10, <1>11,
           <1>12, <1>13, <1>14, <1>15, <1>16, <1>17, <1>18, <1>19, <1>20,
           <1>21, <1>22, <1>23
       DEF Next, Environment, Handler, Main, EventSteps, Cleanup, Terminated

\* No step loses an event.
LEMMA NextNothingLost == IndInv /\ [Next]_vars => NothingLost'
  <1> SUFFICES ASSUME IndInv, [Next]_vars PROVE NothingLost'
    OBVIOUS
  <1> USE PipeCapAssumption, ReadSizeAssumption
       DEF IndInv, TakeAtomic, ExitOrder, NothingLost, InFlight, Awake,
           ChildTaken, InterruptTaken, Masked, TypeOK, vars, env, hvars,
           Signals, RunSteps, ExitSteps, CHILD, INT
  <1>1. ASSUME NEW c \in Child, ChildChanges(c)
       PROVE  NothingLost'
    BY <1>1 DEF ChildChanges, Raise
  <1>2. CASE CtrlC
    BY <1>2 DEF CtrlC, Raise
  <1>3. ASSUME NEW s \in Signals, Deliver(s)
       PROVE  NothingLost'
    BY <1>3 DEF Deliver
  <1>4. CASE HandlerFlag
    BY <1>4 DEF HandlerFlag
  <1>5. CASE HandlerNotify
    BY <1>5 DEF HandlerNotify
  <1>6. CASE Select
    BY <1>6 DEF Select, At
  <1>7. CASE DrainRead
    BY <1>7 DEF DrainRead, At
  <1>8. CASE DrainEmpty
    BY <1>8 DEF DrainEmpty, At
  <1>9. CASE TakeBlock
    BY <1>9 DEF TakeBlock, At
  <1>10. CASE TakeRead
    BY <1>10 DEF TakeRead, At
  <1>11. CASE TakeClear
    BY <1>11 DEF TakeClear, At
  <1>12. CASE TakeUnblock
    BY <1>12 DEF TakeUnblock, At
  <1>13. CASE HandleChild
    BY <1>13 DEF HandleChild, ReapList, At
  <1>14. ASSUME NEW c \in Child, ReapOne(c)
       PROVE  NothingLost'
    BY <1>14 DEF ReapOne, At
  <1>15. CASE ReapDone
    BY <1>15 DEF ReapDone, At
  <1>16. CASE HandleInterrupt
    BY <1>16 DEF HandleInterrupt, At
  <1>17. CASE ReadInput
    BY <1>17 DEF ReadInput, At
  <1>18. ASSUME NEW c \in Child, DispatchWait(c)
       PROVE  NothingLost'
    BY <1>18 DEF DispatchWait, At
  <1>19. CASE DispatchReturn
    BY <1>19 DEF DispatchReturn, At
  <1>20. CASE ContextDestroy
    BY <1>20 DEF ContextDestroy, At
  <1>21. CASE SignalShutdown
    BY <1>21 DEF SignalShutdown, At
  <1>22. CASE EventShut
    BY <1>22 DEF EventShut, At
  <1>23. CASE UNCHANGED vars
    BY <1>23
  <1> QED
    BY <1>1, <1>2, <1>3, <1>4, <1>5, <1>6, <1>7, <1>8, <1>9, <1>10, <1>11,
           <1>12, <1>13, <1>14, <1>15, <1>16, <1>17, <1>18, <1>19, <1>20,
           <1>21, <1>22, <1>23
       DEF Next, Environment, Handler, Main, EventSteps, Cleanup, Terminated

---------------------------------------------------------------------------
\* IndInv holds in every reachable state.
THEOREM Inductive == Spec => []IndInv
  <1>1. IndInv /\ [Next]_vars => IndInv'
    BY NextTypeOK, NextOrder, NextNothingLost DEF IndInv
  <1> QED
    BY InitInv, <1>1, PTL DEF Spec

\* The variables of the signal path keep their types; in particular the event
\* pipe never holds more than PipeCap bytes (event_notify, event_drain).
THEOREM TypeCorrect == Spec => []TypeOK
  BY Inductive, PTL DEF IndInv

\* No lost wakeup: shell_run never blocks in select while a child change or a
\* Ctrl+C is unserved, for any number of children and any pipe capacity.
THEOREM NoLostWakeup == Spec => []NeverSleepsOnWork
  <1>1. IndInv => NeverSleepsOnWork
    BY DEF IndInv, NothingLost, NeverSleepsOnWork, InFlight, Awake, ChildTaken,
           InterruptTaken, TypeOK, RunSteps, CHILD, INT
  <1> QED
    BY Inductive, <1>1, PTL

\* shell_cleanup: no handler runs once event_shut has closed the pipe.
THEOREM PipeOutlivesHandlers == Spec => []HandlerHasPipe
  <1>1. IndInv => HandlerHasPipe
    BY DEF IndInv, TypeOK, ExitOrder, HandlerHasPipe, RunSteps, ExitSteps
  <1> QED
    BY Inductive, <1>1, PTL

---------------------------------------------------------------------------
(* The end of the main loop: job_shutdown (JobShutdown), for every table   *)
(* of jobs, every number of attempts, and processes that have left their   *)
(* groups.  Its inductive invariant:                                       *)

\* A process the table has as DONE has been collected.
CollectedOK == \A p \in Proc : pst[p] = "DONE" => kst[p] = "gone"

\* Nothing leaves the table before the end, and the last loop asks for every
\* process that has not been collected.
ShutdownControl ==
    /\ step # "end" => jobs = Jobs
    /\ step \in {"continue", "terminate", "try", "sleep"} => tries < Retries
    /\ step \in {"force", "end"} => \A p \in Proc : p \in awaited \/ pst[p] = "DONE"
    /\ step = "end" => awaited = {}

ShutdownInv == ShutdownTypeOK /\ CollectedOK /\ ShutdownControl /\ NoStrayDescendant

---------------------------------------------------------------------------
(* The types of job_shutdown.                                              *)

\* Statuses of the kernel are wait statuses.
LEMMA WaitStatuses ==
    \A c \in Nat : Exited(c) \in WaitStatus /\ Signaled(c) \in WaitStatus
  BY DEF Exited, Signaled, WaitStatus

\* job_update_status computes a status.
LEMMA UpdateType == ASSUME NEW st PROVE Update(st) \in [Jobs -> Statuses]
  BY DEF Update, JobStatus, Statuses

\* The effects of signals and of a termination keep the types of the kernel.
LEMMA KernelTypes ==
    ASSUME KernelTypeOK, NEW ps \in SUBSET Proc, NEW w \in WaitStatus,
           Terminate(ps, w) \/ Stop(ps) \/ Continue(ps)
    PROVE  KernelTypeOK'
<1> USE DEF KernelTypeOK, ProcStates
<1>1. sigchld' \in BOOLEAN
  BY Zenon DEF Terminate, Stop, Continue
<1>2. CASE Terminate(ps, w)
  BY <1>1, <1>2 DEF Terminate
<1>3. CASE Stop(ps)
  BY <1>1, <1>3 DEF Stop
<1>4. CASE Continue(ps)
  BY <1>1, <1>4 DEF Continue
<1> QED
  BY <1>2, <1>3, <1>4

---------------------------------------------------------------------------
\* A table that job control leaves satisfies the invariant.
LEMMA ShutdownInitial == ShutdownInit => ShutdownInv
<1> SUFFICES ASSUME ShutdownInit PROVE ShutdownInv
  OBVIOUS
<1>0. PICK f \in [Proc -> {x \in InitProcess : PossibleProcess(x)}] :
        /\ kst = [p \in Proc |-> f[p].k]
        /\ note = [p \in Proc |-> f[p].report]
        /\ \A p \in Proc : pst[p] \in Recorded(f[p].k, f[p].report, p \in Leavers)
  BY DEF ShutdownInit
<1>1. \A p \in Proc : /\ f[p].k \in {"running", "stopped", "zombie", "gone"}
                      /\ f[p].report \in {"none", "stopped", "continued"}
  BY DEF InitProcess
<1>2. kgrp \in [Proc -> Proc \cup {None}]
  <2>1. \A p \in Proc : (CHOOSE g \in Jobs : p \in Members[g]) \in Proc
    <3> TAKE p \in Proc
    <3>1. \E g \in Jobs : p \in Members[g]
      BY MembersAssumption
    <3>2. (CHOOSE g \in Jobs : p \in Members[g]) \in Jobs
      BY <3>1, Zenon
    <3> QED
      BY <3>2, JobsAssumption
  <2> QED
    BY <2>1 DEF ShutdownInit
<1>3. KernelTypeOK
  BY <1>0, <1>1, <1>2, WaitStatuses DEF ShutdownInit, KernelTypeOK, ProcStates
<1>4. ShutdownTypeOK
  BY <1>3, UpdateType, RetriesAssumption DEF ShutdownInit, ShutdownTypeOK
<1>5. CollectedOK
  BY <1>0, <1>1 DEF Recorded, CollectedOK
<1>6. ShutdownControl /\ NoStrayDescendant
  BY RetriesAssumption DEF ShutdownInit, ShutdownControl, NoStrayDescendant
<1> QED
  BY <1>4, <1>5, <1>6 DEF ShutdownInv

\* Every step of job_shutdown and of a process keeps the invariant.
LEMMA ShutdownInductive == ShutdownInv /\ [ShutdownNext]_shutdown_vars => ShutdownInv'
<1> SUFFICES ASSUME ShutdownInv, [ShutdownNext]_shutdown_vars
             PROVE  ShutdownInv'
  OBVIOUS
<1>0. CASE UNCHANGED shutdown_vars
  BY <1>0
  DEF shutdown_vars, kernel, table, ShutdownInv, ShutdownTypeOK, KernelTypeOK, CollectedOK, ShutdownControl,
              NoStrayDescendant
<1>1. ASSUME NEW p \in Proc, ProcessEnds(p)
      PROVE  ShutdownInv'
  <2>1. KernelTypeOK'
    BY <1>1, KernelTypes, WaitStatuses DEF ProcessEnds, ShutdownInv, ShutdownTypeOK, SIGTERM
  <2> QED
    BY <1>1, <2>1
    DEF ProcessEnds, Terminate, ShutdownInv, ShutdownTypeOK, KernelTypeOK, table, CollectedOK,
                      ShutdownControl, NoStrayDescendant
<1>2. ASSUME NEW p \in Proc, IgnoresTerm(p)
      PROVE  ShutdownInv'
  BY <1>2 DEF IgnoresTerm, kernel, ShutdownInv, ShutdownTypeOK, KernelTypeOK, table, CollectedOK,
              ShutdownControl, NoStrayDescendant
<1>3. ASSUME NEW p \in Proc, ProcessStops(p)
      PROVE  ShutdownInv'
  <2>1. KernelTypeOK'
    BY <1>3, KernelTypes, WaitStatuses DEF ProcessStops, ShutdownInv, ShutdownTypeOK
  <2> QED
    BY <1>3, <2>1
    DEF ProcessStops, Stop, ShutdownInv, ShutdownTypeOK, KernelTypeOK, table, CollectedOK,
                      ShutdownControl, NoStrayDescendant
<1>4. CASE ContinueStopped
  <2>1. KernelTypeOK'
    BY <1>4, KernelTypes, WaitStatuses
    DEF ContinueStopped, InGroup, Waitable, ShutdownInv, ShutdownTypeOK
  <2>2. ShutdownTypeOK'
    BY <1>4, <2>1, UpdateType DEF ContinueStopped, ShutdownInv, ShutdownTypeOK, Statuses
  <2>3. CollectedOK'
    BY <1>4 DEF ContinueStopped, Continue, ShutdownInv, ShutdownTypeOK, KernelTypeOK, CollectedOK
  <2>4. ShutdownControl' /\ NoStrayDescendant'
    BY <1>4 DEF ContinueStopped, ShutdownInv, ShutdownControl, NoStrayDescendant
  <2> QED
    BY <2>2, <2>3, <2>4 DEF ShutdownInv
<1>5. CASE TerminateGroups
  <2>1. ShutdownTypeOK'
    BY <1>5
    DEF TerminateGroups, Alive, kernel, table, ShutdownInv, ShutdownTypeOK, KernelTypeOK
  <2> QED
    BY <1>5, <2>1, RetriesAssumption
    DEF TerminateGroups, kernel, table, ShutdownInv, ShutdownTypeOK, CollectedOK, ShutdownControl, NoStrayDescendant
<1>6. CASE TryReapAll
  <2>1. ShutdownTypeOK'
    BY <1>6, UpdateType
    DEF TryReapAll, ShutdownInv, ShutdownTypeOK, KernelTypeOK, ProcStates, Statuses
  <2>2. CollectedOK'
    BY <1>6 DEF TryReapAll, Collected, ShutdownInv, ShutdownTypeOK, KernelTypeOK, CollectedOK
  <2>3. ShutdownControl' /\ NoStrayDescendant'
    BY <1>6 DEF TryReapAll, ShutdownInv, ShutdownControl, NoStrayDescendant
  <2> QED
    BY <2>1, <2>2, <2>3 DEF ShutdownInv
<1>7. CASE Sleep
  BY <1>7, RetriesAssumption
  DEF Sleep, kernel, table, ShutdownInv, ShutdownTypeOK, KernelTypeOK, CollectedOK, ShutdownControl, NoStrayDescendant
<1>8. CASE KillGroups
  <2>1. ShutdownTypeOK'
    BY <1>8, WaitStatuses
    DEF KillGroups, ForceList, Alive, table, SIGKILL, ShutdownInv, ShutdownTypeOK, KernelTypeOK, ProcStates
  <2>2. CollectedOK'
    BY <1>8 DEF KillGroups, Alive, table, ShutdownInv, ShutdownTypeOK, KernelTypeOK, CollectedOK
  <2>3. ShutdownControl'
    BY <1>8 DEF KillGroups, ForceList, table, ShutdownInv, ShutdownControl
  <2>4. NoStrayDescendant'
    BY <1>8
    DEF KillGroups, KillList, ShutdownInv, ShutdownTypeOK, ShutdownControl, NoStrayDescendant
  <2> QED
    BY <2>1, <2>2, <2>3, <2>4 DEF ShutdownInv
<1>9. ASSUME NEW p \in Proc, ForceReap(p)
      PROVE  ShutdownInv'
  <2>1. ShutdownTypeOK'
    BY <1>9, UpdateType
    DEF ForceReap, ShutdownInv, ShutdownTypeOK, KernelTypeOK, ProcStates, Statuses
  <2>2. CollectedOK'
    BY <1>9 DEF ForceReap, ShutdownInv, ShutdownTypeOK, KernelTypeOK, CollectedOK
  <2>3. ShutdownControl' /\ NoStrayDescendant'
    BY <1>9 DEF ForceReap, ShutdownInv, ShutdownTypeOK, ShutdownControl, NoStrayDescendant
  <2> QED
    BY <2>1, <2>2, <2>3 DEF ShutdownInv
<1>10. CASE Destroy
  BY <1>10
  DEF Destroy, kernel, ShutdownInv, ShutdownTypeOK, KernelTypeOK, CollectedOK, ShutdownControl,
      NoStrayDescendant
<1> QED
  BY <1>0, <1>1, <1>2, <1>3, <1>4, <1>5, <1>6, <1>7, <1>8, <1>9, <1>10
  DEF ShutdownNext, Shutdown, Blocked

---------------------------------------------------------------------------
(* The theorems.                                                           *)

\* The invariant holds in every behaviour of job_shutdown.
THEOREM ShutdownInvariance == ShutdownSpec => []ShutdownInv
  BY ShutdownInitial, ShutdownInductive, PTL DEF ShutdownSpec

\* The table, the processes and the steps of job_shutdown keep their types.
THEOREM ShutdownTypes == ShutdownSpec => []ShutdownTypeOK
<1>1. ShutdownInv => ShutdownTypeOK
  BY DEF ShutdownInv
<1> QED
  BY <1>1, ShutdownInvariance, PTL

\* No direct child survives job_shutdown, running, stopped or zombie: if it
\* returns, process_force_reap has named each of them.
THEOREM ChildrenCollected == ShutdownSpec => []NoChildLeft
<1>1. ShutdownInv => NoChildLeft
  BY DEF ShutdownInv, CollectedOK, ShutdownControl, NoChildLeft, Waitable
<1> QED
  BY <1>1, ShutdownInvariance, PTL

\* After the SIGKILL no descendant is left in the group of a job, of a finished
\* one either.
THEOREM DescendantsKilled == ShutdownSpec => []NoStrayDescendant
<1>1. ShutdownInv => NoStrayDescendant
  BY DEF ShutdownInv
<1> QED
  BY <1>1, ShutdownInvariance, PTL

---------------------------------------------------------------------------
(* The end of job_shutdown.  ShutdownReturns is a matter of fairness; what *)
(* follows is the part of it that is not.                                  *)

\* A child that has stayed in its job's group is dead once SIGKILL was sent.
StayedOK ==
    \A p \in Proc :
      /\ kst[p] # "unborn"
      /\ p \notin Leavers => kgrp[p] \in Jobs
      /\ step \in {"force", "end"} /\ p \notin Leavers => kst[p] \in {"zombie", "gone"}

\* The waitpid of process_force_reap finds its process dead.
NobodyToWaitFor ==
    step = "force" => \A p \in awaited : p \in Leavers \/ kst[p] \in {"zombie", "gone"}

\* How many steps job_shutdown has before its last loop, at most.
Ahead ==
    CASE step = "continue"  -> 2 * Retries + 5
      [] step = "terminate" -> 2 * Retries + 4
      [] step = "try"       -> 2 * (Retries - tries) + 3
      [] step = "sleep"     -> 2 * (Retries - tries) + 2
      [] step = "kill"      -> 2
      [] step = "force"     -> 1
      [] OTHER              -> 0

\* The shell gets nearer to the end with each of its steps, and no process
\* sets it back.
Nearer ==
    \/ Ahead' < Ahead
    \/ /\ step = "force" /\ step' = "force"
       /\ \E p \in awaited : awaited' = awaited \ {p}

Advance ==
    /\ Shutdown => Nearer
    /\ ~Shutdown => UNCHANGED <<step, tries, awaited>>

\* The groups and the dead stay what they are.
LEMMA StayedInitially == ShutdownInit => StayedOK
<1> SUFFICES ASSUME ShutdownInit PROVE StayedOK
  OBVIOUS
<1>1. PICK f \in [Proc -> {x \in InitProcess : PossibleProcess(x)}] :
        /\ kst = [p \in Proc |-> f[p].k]
        /\ kgrp = [p \in Proc |-> IF p \in Leavers THEN None
                                  ELSE CHOOSE g \in Jobs : p \in Members[g]]
        /\ step = "continue"
  BY DEF ShutdownInit
<1>2. ASSUME NEW p \in Proc PROVE kst[p] # "unborn"
  <2>1. f[p].k \in {"running", "stopped", "zombie", "gone"}
    BY DEF InitProcess
  <2> QED
    BY <1>1, <2>1
<1>3. ASSUME NEW p \in Proc, p \notin Leavers PROVE kgrp[p] \in Jobs
  <2>1. \E g \in Jobs : p \in Members[g]
    BY MembersAssumption
  <2>2. (CHOOSE g \in Jobs : p \in Members[g]) \in Jobs
    BY <2>1, Zenon
  <2> QED
    BY <1>1, <1>3, <2>2
<1> QED
  BY <1>1, <1>2, <1>3 DEF StayedOK

LEMMA StayedKept == ShutdownInv /\ StayedOK /\ [ShutdownNext]_shutdown_vars => StayedOK'
<1> SUFFICES ASSUME ShutdownInv, StayedOK, [ShutdownNext]_shutdown_vars
             PROVE  StayedOK'
  OBVIOUS
<1> USE DEF StayedOK
<1>0. ShutdownTypeOK /\ KernelTypeOK
  BY DEF ShutdownInv, ShutdownTypeOK
<1>1. CASE UNCHANGED shutdown_vars
  BY <1>1 DEF shutdown_vars, kernel, table
<1>2. ASSUME NEW p \in Proc, ProcessEnds(p)
      PROVE  StayedOK'
  BY <1>0, <1>2 DEF ProcessEnds, Terminate, KernelTypeOK
<1>3. ASSUME NEW p \in Proc, IgnoresTerm(p)
      PROVE  StayedOK'
  BY <1>3 DEF IgnoresTerm, kernel
<1>4. ASSUME NEW p \in Proc, ProcessStops(p)
      PROVE  StayedOK'
  BY <1>0, <1>4 DEF ProcessStops, Stop, KernelTypeOK
<1>5. CASE ContinueStopped
  BY <1>0, <1>5 DEF ContinueStopped, Continue, KernelTypeOK
<1>6. CASE TerminateGroups
  BY <1>6 DEF TerminateGroups, kernel
<1>7. CASE TryReapAll
  BY <1>0, <1>7 DEF TryReapAll, KernelTypeOK
<1>8. CASE Sleep
  BY <1>8 DEF Sleep, kernel
<1>9. CASE KillGroups
  <2> DEFINE ps == Alive \cap UNION {InGroup(g) : g \in KillList}
  <2>1. ASSUME NEW p \in Proc
        PROVE  /\ kst'[p] = IF p \in ps THEN "zombie" ELSE kst[p]
               /\ kgrp'[p] = kgrp[p] /\ kst[p] \in ProcStates
    BY <1>0, <1>9 DEF KillGroups, KernelTypeOK
  <2>2. ASSUME NEW p \in Proc, p \notin Leavers, kst[p] \in {"running", "stopped"}
        PROVE  p \in ps
    <3>1. kgrp[p] \in KillList
      BY <1>9, <2>2 DEF KillGroups, KillList, ShutdownInv, ShutdownControl
    <3>2. p \in InGroup(kgrp[p])
      BY <2>2 DEF InGroup, Waitable
    <3> QED
      BY <2>2, <3>1, <3>2 DEF Alive
  <2> HIDE DEF ps
  <2> QED
    BY <2>1, <2>2 DEF ProcStates
<1>10. ASSUME NEW p \in Proc, ForceReap(p)
       PROVE  StayedOK'
  BY <1>0, <1>10 DEF ForceReap, KernelTypeOK
<1>11. CASE Destroy
  BY <1>11 DEF Destroy, kernel
<1> QED
  BY <1>1, <1>2, <1>3, <1>4, <1>5, <1>6, <1>7, <1>8, <1>9, <1>10, <1>11
  DEF ShutdownNext, Shutdown, Blocked

LEMMA EachStepAdvances == ShutdownInv /\ [ShutdownNext]_shutdown_vars => Advance
<1>0. ShutdownInv => /\ Retries \in Nat \ {0} /\ tries \in 0..Retries
                     /\ step \in {"continue", "terminate", "try", "sleep"} => tries < Retries
  BY RetriesAssumption DEF ShutdownInv, ShutdownTypeOK, ShutdownControl
<1>1. ASSUME ShutdownInv, Shutdown PROVE Nearer
  <2>1. CASE ContinueStopped
    BY <1>0, <1>1, <2>1 DEF ContinueStopped, Nearer, Ahead
  <2>2. CASE TerminateGroups
    BY <1>0, <1>1, <2>2 DEF TerminateGroups, Nearer, Ahead
  <2>3. CASE TryReapAll
    BY <1>0, <1>1, <2>3 DEF TryReapAll, Nearer, Ahead
  <2>4. CASE Sleep
    BY <1>0, <1>1, <2>4 DEF Sleep, Nearer, Ahead
  <2>5. CASE KillGroups
    BY <1>0, <1>1, <2>5 DEF KillGroups, Nearer, Ahead
  <2>6. ASSUME NEW p \in Proc, ForceReap(p) PROVE Nearer
    BY <2>6 DEF ForceReap, Nearer
  <2>7. CASE Destroy
    BY <2>7 DEF Destroy, Nearer, Ahead
  <2> QED
    BY <1>1, <2>1, <2>2, <2>3, <2>4, <2>5, <2>6, <2>7 DEF Shutdown
<1>2. ASSUME [ShutdownNext]_shutdown_vars, ~Shutdown
      PROVE  UNCHANGED <<step, tries, awaited>>
  BY <1>2 DEF ShutdownNext, shutdown_vars, Blocked, ProcessEnds, IgnoresTerm, ProcessStops
<1> QED
  BY <1>1, <1>2 DEF Advance

\* process_force_reap can be blocked only by a child that has left its job's
\* group: for every other one SIGKILL has been sent to the right group, and the
\* waitpid without WNOHANG finds it dead.
THEOREM OnlyLeaversBlock == ShutdownSpec => []NobodyToWaitFor
<1>1. StayedOK /\ ShutdownInv => NobodyToWaitFor
  BY DEF StayedOK, NobodyToWaitFor, ShutdownInv, ShutdownTypeOK
<1>2. ShutdownSpec => []StayedOK
  BY StayedInitially, StayedKept, ShutdownInvariance, PTL DEF ShutdownSpec
<1> QED
  BY <1>1, <1>2, ShutdownInvariance, PTL

\* Every step of job_shutdown either lowers a bound on the steps before its last
\* loop or takes one process off the list of that loop, and no process that ends,
\* stops or ignores a signal raises either: the attempts are bounded by
\* JOB_SHUTDOWN_RETRY_COUNT, and nothing is waited for twice.
THEOREM ShutdownAdvances == ShutdownSpec => [][Advance]_shutdown_vars
<1>1. ShutdownInv /\ [ShutdownNext]_shutdown_vars => Advance
  BY EachStepAdvances
<1> QED
  BY <1>1, ShutdownInvariance, PTL DEF ShutdownSpec
=============================================================================
