------------------------ MODULE JobControl_proofs ------------------------
(* Theorems about JobControl, for every set of processes, every set of exit *)
(* codes, every job limit, with and without processes that leave their      *)
(* group and terminals that fail.                                           *)
EXTENDS JobControl, FiniteSetTheorems, TLAPS

---------------------------------------------------------------------------
(* Types, in the parts the steps change.                                   *)

TableTypeOK ==
    /\ jobs \subseteq Proc
    /\ nextid \in Nat \ {0}
    /\ jid \in [Proc -> Nat]
    /\ members \in [Proc -> SUBSET Proc]
    /\ last \in [Proc -> Proc \cup {None}]
    /\ jst \in [Proc -> Statuses]
    /\ pst \in [Proc -> Statuses]
    /\ wst \in [Proc -> WaitStatus \cup {NoStatus}]
    /\ saved \in [Proc -> Proc \cup {Shell, None}]

TtyTypeOK ==
    /\ owner \in Proc \cup {Shell}
    /\ modes \in Proc \cup {Shell}
    /\ tty_ok \in BOOLEAN

ShellTypeOK ==
    /\ pc \in Steps
    /\ caller \in {"none", "execute", "fg"}
    /\ cur \in Proc \cup {None}
    /\ todo \subseteq Proc
    /\ running \in BOOLEAN
    /\ max_job \in JobLimits
    /\ last_exit_status \in Nat

\* TypeOK is the conjunction of its parts.
LEMMA TypeParts ==
    TypeOK <=> KernelTypeOK /\ TableTypeOK /\ TtyTypeOK /\ ShellTypeOK
  BY DEF TypeOK, TableTypeOK, TtyTypeOK, ShellTypeOK

\* The jobs of the table: each has its leader and its last process, none of
\* its processes is unborn or in the group of another job, and no process is
\* in two jobs.
TableOK ==
    /\ \A g \in jobs : g \in members[g] /\ last[g] \in members[g]
    /\ \A g \in jobs : \A p \in members[g] :
         kst[p] # "unborn" /\ kgrp[p] \in {g, None}
    /\ \A g, h \in jobs : \A p \in members[g] : p \in members[h] => g = h

\* DONE is final: only a collected process has it, and a job whose status is
\* DONE has no other process.
DoneOK ==
    /\ \A g \in jobs : \A p \in members[g] : pst[p] = "DONE" => kst[p] = "gone"
    /\ \A g \in jobs : \A p \in members[g] : jst[g] = "DONE" => pst[p] = "DONE"

Owned == \A p \in Waitable : \E g \in jobs : p \in members[g]

\* What holds at each step of a command.
ControlOK ==
    /\ pc \notin {"loop", "reap"} => cur \in jobs
    /\ pc \in {"handoff", "modes", "continue"} => caller = "fg"
    /\ pc = "rollback" => caller = "execute"
    /\ pc = "fail" /\ caller = "execute" => members[cur] \cap Waitable = {}
    /\ pc \in {"save", "restore_pgrp", "restore_modes", "finish"}
         => jst[cur] # "RUNNING"
    /\ pc = "reap" => \A p \in todo : \E g \in jobs : p \in members[g]

\* Who has the terminal at each step.
TerminalOK ==
    /\ pc # "loop" => running
    /\ (pc \in {"loop", "reap", "handoff", "finish"} /\ running /\ tty_ok)
         => owner = Shell /\ modes = Shell
    /\ pc \in {"modes", "continue", "wait"} => owner = cur
    /\ pc = "restore_modes" /\ tty_ok => owner = Shell

\* What the kernel still holds for a process whose entry is wrong.
ReportOK ==
    /\ \A p \in Proc : wcode[p].kind \in {"exited", "signaled"}
    /\ \A p \in Proc : /\ note[p] = "stopped" => kst[p] = "stopped"
                       /\ note[p] = "continued" => kst[p] = "running"
    /\ \A g \in jobs : \A p \in members[g] : kgrp[p] = g =>
         /\ kst[p] = "running" /\ pst[p] # "RUNNING" => note[p] = "continued"
         /\ kst[p] = "stopped" /\ pst[p] # "STOPPED" => note[p] = "stopped"

\* A collected process is DONE with the status it ended with, except in a job
\* that is being rolled back.
CollectedOK ==
    \A g \in jobs : \A p \in members[g] :
        /\ kst[p] = "gone" =>
             pst[p] = "DONE" \/ (pc = "fail" /\ caller = "execute" /\ cur = g)
        /\ pst[p] = "DONE" => wst[p] = wcode[p]

IndInv ==
    /\ TypeOK /\ TableOK /\ DoneOK /\ Owned /\ ControlOK /\ TerminalOK
    /\ ReportOK /\ CollectedOK /\ StaleOnlyUntilReap
---------------------------------------------------------------------------
(* Types.                                                                  *)

\* Statuses of the kernel are wait statuses.
LEMMA WaitStatuses ==
    /\ \A c \in Nat : Exited(c) \in WaitStatus /\ Signaled(c) \in WaitStatus
    /\ Stopped \in WaitStatus /\ Continued \in WaitStatus
  BY DEF Exited, Signaled, Stopped, Continued, WaitStatus

\* Terminate, Stop, Continue, Collect, KillAndCollect and Fork keep the types.
LEMMA KernelTypes ==
    ASSUME KernelTypeOK, NEW ps \in SUBSET Proc, NEW w \in WaitStatus,
           NEW g \in Proc, NEW p \in Proc,
           \/ Terminate(ps, w) \/ Stop(ps) \/ Continue(ps) \/ Collect(p)
           \/ KillAndCollect(ps) \/ Fork(ps, g) \/ UNCHANGED kernel
    PROVE  KernelTypeOK'
  <1> USE DEF KernelTypeOK, ProcStates
  <1>1. CASE Terminate(ps, w)
    <2>1. sigchld' \in BOOLEAN
      BY <1>1, Zenon DEF Terminate
    <2> QED
      BY <1>1, <2>1 DEF Terminate
  <1>2. CASE Stop(ps)
    <2>1. sigchld' \in BOOLEAN
      BY <1>2, Zenon DEF Stop
    <2> QED
      BY <1>2, <2>1 DEF Stop
  <1>3. CASE Continue(ps)
    <2>1. sigchld' \in BOOLEAN
      BY <1>3, Zenon DEF Continue
    <2> QED
      BY <1>3, <2>1 DEF Continue
  <1>4. CASE Collect(p)
    BY <1>4 DEF Collect
  <1>5. CASE KillAndCollect(ps)
    <2>1. sigchld' \in BOOLEAN
      BY <1>5, Zenon DEF KillAndCollect
    <2> QED
      BY <1>5, <2>1 DEF KillAndCollect
  <1>6. CASE Fork(ps, g)
    BY <1>6 DEF Fork
  <1>7. CASE UNCHANGED kernel
    BY <1>7 DEF kernel
  <1> QED
    BY <1>1, <1>2, <1>3, <1>4, <1>5, <1>6, <1>7

\* A command that returns keeps the types of the shell's own variables.
LEMMA ReturnTypes ==
    ASSUME ShellTypeOK, NEW status \in Int, Return(status), running' \in BOOLEAN
    PROVE  ShellTypeOK'
  BY DEF ShellTypeOK, Return, Normalize, Steps

\* So does a step inside a command.
LEMMA GoToTypes ==
    ASSUME ShellTypeOK, NEW step \in Steps, GoTo(step)
    PROVE  ShellTypeOK'
  BY DEF ShellTypeOK, GoTo

\* The report of waitpid is a wait status, and stands for a process status.
LEMMA ReportTypes ==
    ASSUME KernelTypeOK, NEW p \in Proc
    PROVE  Report(p) \in WaitStatus /\ StatusOf(Report(p)) \in Statuses
  <1>1. Report(p) \in WaitStatus
    BY WaitStatuses DEF KernelTypeOK, Report
  <1>2. \A w \in WaitStatus : StatusOf(w) \in Statuses
    BY DEF WaitStatus, StatusOf, Statuses
  <1> QED
    BY <1>1, <1>2

\* process_apply_wait_status and job_update_status keep the types of the table,
LEMMA ApplyTypes ==
    ASSUME KernelTypeOK, TableTypeOK, NEW p \in Proc, NEW g \in Proc,
           Apply(p, g, Report(p))
    PROVE  TableTypeOK'
  <1>1. Report(p) \in WaitStatus /\ StatusOf(Report(p)) \in Statuses
    BY ReportTypes
  <1> QED
    BY <1>1 DEF TableTypeOK, Apply, JobStatus, Statuses

\* so does job_continue,
LEMMA ContinueTypes ==
    ASSUME TableTypeOK, NEW g \in Proc, JobContinue(g)
    PROVE  TableTypeOK'
  BY DEF TableTypeOK, JobContinue, JobStatus, Statuses

\* and so does the removal of jobs.
LEMMA DropTypes ==
    ASSUME TableTypeOK, NEW G \in SUBSET jobs, Drop(G)
    PROVE  TableTypeOK'
  BY DEF TableTypeOK, Drop, Statuses

\* job_exit_status is a number, -1 included.
LEMMA ExitStatusTypes ==
    ASSUME TableTypeOK, NEW g \in Proc, last[g] \in Proc
    PROVE  ExitStatus(g) \in Int
  <1>1. wst[last[g]] \in WaitStatus \cup {NoStatus}
    BY DEF TableTypeOK
  <1>2. ASSUME NEW w \in WaitStatus \cup {NoStatus}
        PROVE  w.val \in Nat
    BY DEF WaitStatus, NoStatus
  <1> QED
    BY <1>1, <1>2 DEF ExitStatus

\* JobOf names the job a process is in.
LEMMA JobOfIn ==
    ASSUME NEW p \in Proc, \E g \in jobs : p \in members[g]
    PROVE  JobOf(p) \in jobs /\ p \in members[JobOf(p)]
  BY DEF JobOf

\* Every step keeps the types.
LEMMA NextTypes ==
    ASSUME TypeOK, TableOK, ControlOK, [Next]_vars
    PROVE  TypeOK'
  <1> USE DEF OutsideUnchanged, table, tty, shell
  <1>0. KernelTypeOK /\ TableTypeOK /\ TtyTypeOK /\ ShellTypeOK
    BY TypeParts
  <1>a. SUFFICES KernelTypeOK' /\ TableTypeOK' /\ TtyTypeOK' /\ ShellTypeOK'
    BY DEF TypeOK, TableTypeOK, TtyTypeOK, ShellTypeOK
  <1>b. UNCHANGED table => TableTypeOK'
    BY <1>0 DEF TableTypeOK
  <1>c. UNCHANGED tty => TtyTypeOK'
    BY <1>0 DEF TtyTypeOK
  <1>d. UNCHANGED shell => ShellTypeOK'
    BY <1>0 DEF ShellTypeOK
  <1>e. UNCHANGED kernel => KernelTypeOK'
    BY <1>0 DEF kernel, KernelTypeOK
  <1>f. /\ \A p \in Proc : p \in Waitable => {p} \subseteq Proc
        /\ \A g : Runners(g) \subseteq Proc /\ InGroup(g) \subseteq Proc
    BY DEF Waitable, Runners, InGroup
  <1>g. SIGKILL \in Nat /\ SIGINT \in Nat
    BY DEF SIGKILL, SIGINT
  <1>h. pc \notin {"loop", "reap"} => cur \in jobs /\ cur \in Proc
    BY <1>0 DEF ControlOK, TableTypeOK
  <1>i. Shell \notin Proc /\ None \notin Proc
    BY ShellAssumption, NoneAssumption
  <1>1. CASE World
    <2>1. ASSUME NEW p \in Proc, ProcessExits(p) \/ ProcessKilled(p)
          PROVE  KernelTypeOK' /\ UNCHANGED <<table, tty, shell>>
      <3>1. PICK w \in WaitStatus : Terminate({p}, w)
        BY <2>1, <1>g, WaitStatuses, ExitCodesAssumption
           DEF ProcessExits, ProcessKilled
      <3> QED
        BY <1>0, <2>1, <3>1, KernelTypes DEF ProcessExits, ProcessKilled
    <2>2. ASSUME NEW p \in Proc, ProcessStops(p) \/ ProcessContinued(p)
          PROVE  KernelTypeOK' /\ UNCHANGED <<table, tty, shell>>
      BY <1>0, <2>2, WaitStatuses, KernelTypes
         DEF ProcessStops, ProcessContinued
    <2>3. ASSUME NEW p \in Proc, LeavesGroup(p)
          PROVE  KernelTypeOK' /\ UNCHANGED <<table, tty, shell>>
      BY <1>0, <2>3 DEF LeavesGroup, KernelTypeOK
    <2>4. CASE CtrlZ
      BY <1>b, <1>c, <1>d, <2>4, <1>0, <1>f, WaitStatuses, KernelTypes
         DEF CtrlZ, TtyTypeOK
    <2>5. CASE CtrlC
      BY <1>b, <1>c, <1>d, <2>5, <1>0, <1>f, <1>g, WaitStatuses, KernelTypes
         DEF CtrlC, TtyTypeOK
    <2>6. CASE ForegroundSetsModes
      <3>1. TtyTypeOK'
        BY <2>6, <1>0 DEF ForegroundSetsModes, TtyTypeOK
      <3> QED
        BY <1>b, <1>d, <1>e, <2>6, <3>1 DEF ForegroundSetsModes
    <2>7. CASE TtyLost
      <3>1. tty_ok' \in BOOLEAN
        BY <2>7, Zenon DEF TtyLost
      <3>2. TtyTypeOK'
        BY <2>7, <1>0, <3>1 DEF TtyLost, TtyTypeOK
      <3> QED
        BY <1>b, <1>d, <1>e, <2>7, <3>2 DEF TtyLost
    <2> QED
      BY <1>1, <1>b, <1>c, <1>d, <2>1, <2>2, <2>3, <2>4, <2>5, <2>6, <2>7
         DEF World
  <1>2. CASE StartReap
    <2>1. sigchld' \in BOOLEAN
      BY <1>2, Zenon DEF StartReap
    <2>2. KernelTypeOK' /\ ShellTypeOK'
      BY <1>2, <1>0, <2>1
         DEF StartReap, KernelTypeOK, ShellTypeOK, Steps, Unfinished, TableTypeOK
    <2> QED
      BY <1>2, <1>b, <1>c, <2>2 DEF StartReap
  <1>3. ASSUME NEW p \in Proc, ReapOne(p)
        PROVE  TypeOK'
    <2>1. JobOf(p) \in jobs /\ JobOf(p) \in Proc /\ p \in members[JobOf(p)]
      BY <1>0, <1>3, JobOfIn DEF ReapOne, ControlOK, TableTypeOK
    <2>2. ShellTypeOK' /\ TtyTypeOK'
      BY <1>3, <1>0, <1>c DEF ReapOne, ShellTypeOK
    <2>3. CASE HasReport(p, {"stopped", "continued"})
      <3>1. Apply(p, JobOf(p), Report(p)) /\ Collect(p)
        BY <1>3, <2>3 DEF ReapOne
      <3> QED
        BY <3>1, <1>0, <1>a, <2>1, <2>2, ApplyTypes, KernelTypes, WaitStatuses,
           TypeParts DEF TypeOK, TableTypeOK, TtyTypeOK, ShellTypeOK
    <2>4. CASE ~HasReport(p, {"stopped", "continued"}) /\ kst[p] = "gone"
      <3>1. /\ pst' = [pst EXCEPT ![p] = "DONE"]
            /\ jst' = [jst EXCEPT ![JobOf(p)] =
                                        JobStatus(members[JobOf(p)], pst')]
            /\ UNCHANGED <<kernel, jobs, nextid, jid, members, last, wst, saved>>
        BY <1>3, <2>4 DEF ReapOne
      <3>2. TableTypeOK'
        BY <3>1, <1>0, <2>1 DEF TableTypeOK, JobStatus, Statuses
      <3> QED
        BY <3>1, <3>2, <1>e, <2>2 DEF TypeOK, TableTypeOK, TtyTypeOK, ShellTypeOK
    <2>5. CASE ~HasReport(p, {"stopped", "continued"}) /\ kst[p] # "gone"
      <3>1. UNCHANGED <<kernel, table>>
        BY <1>3, <2>5 DEF ReapOne
      <3> QED
        BY <3>1, <1>b, <1>e, <2>2 DEF TypeOK, TableTypeOK, TtyTypeOK, ShellTypeOK
    <2> QED
      BY <2>3, <2>4, <2>5
  <1>4. CASE CleanupDone
    <2>1. TableTypeOK'
      BY <1>4, <1>0, DropTypes DEF CleanupDone
    <2>2. ShellTypeOK'
      BY <1>4, <1>0 DEF CleanupDone, ShellTypeOK, Steps
    <2> QED
      BY <1>4, <1>c, <1>e, <2>1, <2>2 DEF CleanupDone
  <1>5. CASE FgHandoff \/ FgModes \/ RestorePgrp \/ RestoreModes
    <2>1. UNCHANGED <<kernel, table>>
      BY <1>5 DEF FgHandoff, FgModes, RestorePgrp, RestoreModes
    <2>2. pc \in {"handoff", "modes", "restore_pgrp", "restore_modes"}
      BY <1>5 DEF FgHandoff, FgModes, RestorePgrp, RestoreModes
    <2>3. TtyTypeOK'
      <3>1. saved[cur] # None => saved[cur] \in Proc \cup {Shell}
        BY <1>h, <2>2, <1>0 DEF TableTypeOK
      <3>2. CASE FgHandoff
        BY <1>h, <1>0, <3>2 DEF FgHandoff, TtyTypeOK
      <3>3. CASE FgModes
        BY <1>0, <3>1, <3>3 DEF FgModes, TtyTypeOK
      <3>4. CASE RestorePgrp
        BY <1>0, <3>4 DEF RestorePgrp, TtyTypeOK
      <3>5. CASE RestoreModes
        BY <1>0, <3>5 DEF RestoreModes, TtyTypeOK
      <3> QED
        BY <1>5, <3>2, <3>3, <3>4, <3>5
    <2>4. (\E step \in Steps : GoTo(step)) \/ (Return(-1) /\ running' \in BOOLEAN)
      <3>1. CASE FgHandoff
        BY <1>0, <3>1 DEF FgHandoff, ShellTypeOK, Steps
      <3>2. CASE FgModes
        BY <3>2 DEF FgModes, Steps
      <3>3. CASE RestorePgrp
        <4>1. GoTo("restore_modes") \/ (running' = FALSE /\ Return(-1))
          BY <3>3 DEF RestorePgrp
        <4> QED
          BY <4>1 DEF Steps
      <3>4. CASE RestoreModes
        <4>1. GoTo("finish") \/ (running' = FALSE /\ Return(-1))
          BY <3>4 DEF RestoreModes
        <4> QED
          BY <4>1 DEF Steps
      <3> QED
        BY <1>5, <3>1, <3>2, <3>3, <3>4
    <2>5. ShellTypeOK'
      BY <1>0, <2>4, GoToTypes, ReturnTypes
    <2> QED
      BY <1>b, <1>e, <2>1, <2>3, <2>5
  <1>6. CASE FgContinue
    <2>1. cur \in Proc /\ cur \in jobs
      BY <1>6, <1>h DEF FgContinue
    <2>2. ShellTypeOK'
      BY <1>6, <1>0, GoToTypes DEF FgContinue, Steps
    <2>3. CASE UNCHANGED <<kernel, table>>
      BY <1>6, <2>2, <2>3, <1>b, <1>c, <1>e DEF FgContinue
    <2>4. CASE JobContinue(cur)
      <3>1. Continue(InGroup(cur))
        BY <2>4 DEF JobContinue
      <3>2. KernelTypeOK'
        BY <3>1, <1>0, <1>f, <2>1, WaitStatuses, KernelTypes
      <3> QED
        BY <1>6, <2>1, <2>2, <2>4, <3>2, <1>0, <1>c, ContinueTypes DEF FgContinue
    <2> QED
      BY <1>6, <2>3, <2>4 DEF FgContinue, JobContinueFails
  <1>7. ASSUME NEW p \in Proc, WaitReports(p)
        PROVE  TypeOK'
    <2>1. cur \in Proc /\ cur \in jobs
      BY <1>7, <1>h DEF WaitReports
    <2>2. TableTypeOK' /\ KernelTypeOK'
      BY <1>7, <2>1, <1>0, ApplyTypes, KernelTypes, WaitStatuses DEF WaitReports
    <2> QED
      BY <1>7, <2>2, <1>c, <1>d
         DEF WaitReports, TypeOK, TableTypeOK, TtyTypeOK, ShellTypeOK
  <1>8. CASE WaitFails \/ WaitEnds
    <2>1. \E step \in Steps : GoTo(step)
      BY <1>8 DEF WaitFails, WaitEnds, Steps
    <2> QED
      BY <1>8, <2>1, <1>0, <1>b, <1>c, <1>e, GoToTypes DEF WaitFails, WaitEnds
  <1>9. CASE Rollback
    <2>1. KernelTypeOK'
      <3>1. members[cur] \cap Waitable \subseteq Proc /\ cur \in Proc
        BY <1>9, <1>h DEF Rollback, Waitable
      <3> QED
        BY <1>9, <3>1, <1>0, KernelTypes, WaitStatuses DEF Rollback
    <2> QED
      BY <1>9, <2>1, <1>0, <1>b, <1>c, GoToTypes DEF Rollback, Steps
  <1>10. CASE SaveModes
    <2>1. TableTypeOK'
      BY <1>10, <1>0, <1>h DEF SaveModes, TableTypeOK, TtyTypeOK
    <2> QED
      BY <1>10, <2>1, <1>0, <1>c, <1>e, GoToTypes DEF SaveModes, Steps
  <1>11. CASE Finish
    <2>1. cur \in Proc /\ cur \in jobs /\ last[cur] \in Proc
      BY <1>11, <1>h, <1>0 DEF Finish, TableOK, TableTypeOK
    <2>2. ExitStatus(cur) \in Int
      BY <1>0, <2>1, ExitStatusTypes
    <2>3. TableTypeOK'
      BY <1>11, <1>0, <1>b, <2>1, DropTypes DEF Finish
    <2>4. \E status \in Int : Return(status)
      BY <1>11, <2>2 DEF Finish
    <2>5. running' \in BOOLEAN
      BY <1>11, <1>0 DEF Finish, ShellTypeOK
    <2> QED
      BY <1>11, <1>0, <1>c, <1>e, <2>3, <2>4, <2>5, ReturnTypes DEF Finish
  <1>12. CASE Fail
    <2>1. TableTypeOK'
      BY <1>12, <1>0, <1>b, <1>h, DropTypes DEF Fail
    <2>2. TtyTypeOK'
      BY <1>12, <1>0 DEF Fail, TtyTypeOK
    <2>3. running' \in BOOLEAN
      BY <1>12, <1>0 DEF Fail, ShellTypeOK
    <2> QED
      BY <1>12, <1>0, <1>e, <2>1, <2>2, <2>3, ReturnTypes DEF Fail
  <1>13. ASSUME NEW ps \in SUBSET Proc, NEW g \in ps, NEW l \in ps,
                NEW background \in BOOLEAN, Execute(ps, g, l, background)
         PROVE  TypeOK'
    <2>1. TableTypeOK'
      BY <1>13, <1>0 DEF Execute, TableTypeOK, Statuses
    <2>2. KernelTypeOK'
      BY <1>13, <1>0, KernelTypes, WaitStatuses DEF Execute
    <2>3. TtyTypeOK'
      BY <1>13, <1>0 DEF Execute, TtyTypeOK
    <2>4. ShellTypeOK'
      <3>1. running' \in BOOLEAN
        BY <1>13, <1>0 DEF Execute, ShellTypeOK
      <3>2. CASE background
        BY <1>13, <1>0, <3>1, <3>2, ReturnTypes DEF Execute
      <3>3. CASE ~background
        BY <1>13, <1>0, <3>1, <3>3 DEF Execute, ShellTypeOK, Steps
      <3> QED
        BY <3>2, <3>3
    <2> QED
      BY <2>1, <2>2, <2>3, <2>4 DEF TypeOK, TableTypeOK, TtyTypeOK, ShellTypeOK
  <1>14. CASE ExecuteFails
    <2>1. sigchld' \in BOOLEAN
      <3>1. sigchld \in BOOLEAN
        BY <1>0 DEF KernelTypeOK
      <3> QED
        BY <1>14, <3>1, Zenon DEF ExecuteFails
    <2>2. KernelTypeOK'
      BY <1>14, <1>0, <2>1 DEF ExecuteFails, KernelTypeOK
    <2>3. running' \in BOOLEAN
      BY <1>14, <1>0 DEF ExecuteFails, ShellTypeOK
    <2> QED
      BY <1>14, <1>0, <1>b, <1>c, <2>2, <2>3, ReturnTypes DEF ExecuteFails
  <1>15. CASE BuiltinFg
    <2>1. ShellTypeOK'
      <3>1. running' \in BOOLEAN
        BY <1>15, <1>0 DEF BuiltinFg, ShellTypeOK
      <3>2. CASE Return(-1)
        BY <1>0, <3>1, <3>2, ReturnTypes
      <3>3. ASSUME NEW g \in Active,
                   pc' = "handoff" /\ caller' = "fg" /\ cur' = g,
                   UNCHANGED <<todo, max_job, last_exit_status>>
            PROVE  ShellTypeOK'
        BY <1>0, <3>1, <3>3 DEF Active, ShellTypeOK, TableTypeOK, Steps
      <3> QED
        BY <1>15, <3>2, <3>3 DEF BuiltinFg
    <2> QED
      BY <1>15, <1>b, <1>c, <1>e, <2>1 DEF BuiltinFg
  <1>16. CASE BuiltinBg
    <2>1. ShellTypeOK'
      <3>1. running' \in BOOLEAN
        BY <1>16, <1>0 DEF BuiltinBg, ShellTypeOK
      <3>2. Return(0) \/ Return(-1)
        BY <1>16 DEF BuiltinBg
      <3> QED
        BY <1>0, <3>1, <3>2, ReturnTypes
    <2>2. CASE UNCHANGED <<kernel, table>>
      BY <1>16, <1>b, <1>c, <1>e, <2>1, <2>2 DEF BuiltinBg
    <2>3. ASSUME NEW g \in jobs, JobContinue(g)
          PROVE  TypeOK'
      <3>1. g \in Proc /\ Continue(InGroup(g))
        BY <1>0, <2>3 DEF JobContinue, TableTypeOK
      <3>2. KernelTypeOK' /\ TableTypeOK'
        BY <3>1, <1>0, <1>f, <2>3, KernelTypes, WaitStatuses, ContinueTypes
      <3> QED
        BY <1>16, <1>c, <2>1, <3>2
           DEF BuiltinBg, TypeOK, TableTypeOK, TtyTypeOK, ShellTypeOK
    <2> QED
      BY <1>16, <2>2, <2>3, TypeParts
         DEF BuiltinBg, JobContinueFails, TypeOK, TableTypeOK, TtyTypeOK,
             ShellTypeOK
  <1>17. CASE BuiltinReload
    <2>1. ShellTypeOK'
      BY <1>17, <1>0 DEF BuiltinReload, ShellTypeOK, Normalize
    <2> QED
      BY <1>17, <1>b, <1>c, <1>e, <2>1 DEF BuiltinReload
  <1>18. CASE BuiltinExit
    <2>1. running' \in BOOLEAN
      BY <1>18, Zenon DEF BuiltinExit
    <2>2. ShellTypeOK'
      BY <1>18, <1>0, <2>1 DEF BuiltinExit, ShellTypeOK
    <2> QED
      BY <1>18, <1>b, <1>c, <1>e, <2>2 DEF BuiltinExit
  <1>19. CASE UNCHANGED vars
    BY <1>19, <1>b, <1>c, <1>d, <1>e DEF vars
  <1>20. TypeOK' => KernelTypeOK' /\ TableTypeOK' /\ TtyTypeOK' /\ ShellTypeOK'
    BY DEF TypeOK, TableTypeOK, TtyTypeOK, ShellTypeOK
  <1> QED
    BY <1>1, <1>2, <1>3, <1>4, <1>5, <1>6, <1>7, <1>8, <1>9, <1>10, <1>11, <1>12,
       <1>13, <1>14, <1>15, <1>16, <1>17, <1>18, <1>19, <1>20
       DEF Next, Reap, Foreground, User, Launches, Terminated

---------------------------------------------------------------------------
(* The table.                                                              *)

\* No process is born, none comes back once collected, and none changes its
\* group except to leave it.
NobodyReturns ==
    /\ Waitable' \subseteq Waitable
    /\ \A p \in Proc : /\ kst[p] # "unborn" => kst'[p] # "unborn"
                       /\ kst[p] = "gone" => kst'[p] = "gone"
                       /\ kgrp'[p] \in {kgrp[p], None}

\* The kernel's effects on children bring nobody back.
LEMMA KernelMoves ==
    ASSUME KernelTypeOK, NEW ps \in SUBSET Waitable, NEW w, NEW p \in Proc,
           \/ Terminate(ps, w) \/ (Stop(ps) /\ ps \subseteq Alive)
           \/ Continue(ps) \/ Collect(p) \/ KillAndCollect(ps)
           \/ UNCHANGED <<kst, kgrp>>
    PROVE  NobodyReturns
  <1> USE DEF NobodyReturns, Waitable, Alive, KernelTypeOK
  <1>1. CASE Terminate(ps, w)
    BY <1>1 DEF Terminate
  <1>2. CASE Stop(ps) /\ ps \subseteq Alive
    BY <1>2 DEF Stop
  <1>3. CASE Continue(ps)
    BY <1>3 DEF Continue
  <1>4. CASE Collect(p)
    BY <1>4 DEF Collect
  <1>5. CASE KillAndCollect(ps)
    BY <1>5 DEF KillAndCollect
  <1>6. CASE UNCHANGED <<kst, kgrp>>
    BY <1>6
  <1> QED
    BY <1>1, <1>2, <1>3, <1>4, <1>5, <1>6

TableInv == TableOK /\ DoneOK /\ Owned

\* A step of the kernel alone keeps the table's invariants.
LEMMA KernelTable ==
    ASSUME TypeOK, TableInv, NobodyReturns,
           UNCHANGED <<jobs, members, last, jst, pst>>
    PROVE  TableInv'
  <1>1. TableOK'
    BY DEF TypeOK, TableInv, NobodyReturns, TableOK
  <1>2. DoneOK'
    BY DEF TypeOK, TableInv, NobodyReturns, DoneOK
  <1>3. Owned'
    BY DEF TypeOK, TableInv, NobodyReturns, Owned
  <1> QED
    BY <1>1, <1>2, <1>3 DEF TableInv

\* job_update_status says DONE only when every process is.
LEMMA JobStatusDone ==
    ASSUME NEW ps \in SUBSET Proc, NEW st \in [Proc -> Statuses],
           JobStatus(ps, st) = "DONE"
    PROVE  \A p \in ps : st[p] = "DONE"
  BY DEF JobStatus, Statuses

\* Storing the report of a process keeps them.
LEMMA ApplyTable ==
    ASSUME TypeOK, TypeOK', TableInv, NEW g \in jobs, NEW p \in members[g],
           HasReport(p, {"stopped", "continued"}),
           Apply(p, g, Report(p)), Collect(p)
    PROVE  TableInv'
  <1>0. g \in Proc /\ p \in Proc /\ members[g] \in SUBSET Proc
    BY DEF TypeOK
  <1>1. NobodyReturns
    BY <1>0, KernelMoves DEF TypeOK
  <1>2. TableOK'
    BY <1>1 DEF TypeOK, Apply, TableInv, TableOK, NobodyReturns
  <1>3. Owned'
    BY <1>1 DEF TypeOK, Apply, TableInv, Owned, NobodyReturns
  <1>4. DoneOK'
    <2>1. StatusOf(Report(p)) = "DONE" => kst[p] = "zombie"
      BY <1>0 DEF HasReport, Report, StatusOf, Stopped, Continued, TypeOK,
                  KernelTypeOK
    <2>2. StatusOf(Report(p)) = "DONE" => kst'[p] = "gone"
      BY <2>1, <1>0 DEF Collect, TypeOK, KernelTypeOK
    <2>3. ASSUME NEW h \in jobs', NEW q \in members'[h], pst'[q] = "DONE"
          PROVE  kst'[q] = "gone"
      <3>1. h \in jobs /\ q \in members[h] /\ q \in Proc
        BY <2>3 DEF Apply, TypeOK
      <3>2. CASE q = p
        BY <3>2, <2>2, <2>3, <1>0 DEF Apply, TypeOK
      <3>3. CASE q # p
        BY <3>1, <3>3, <1>1, <2>3 DEF Apply, TypeOK, TableInv, DoneOK, NobodyReturns
      <3> QED
        BY <3>2, <3>3
    <2>4. ASSUME NEW h \in jobs', NEW q \in members'[h], jst'[h] = "DONE"
          PROVE  pst'[q] = "DONE"
      <3>1. h \in jobs /\ q \in members[h] /\ h \in Proc
        BY <2>4 DEF Apply, TypeOK
      <3>2. CASE h = g
        <4>1. JobStatus(members[g], pst') = "DONE"
          BY <3>2, <2>4, <1>0 DEF Apply, TypeOK
        <4>2. pst' \in [Proc -> Statuses]
          BY DEF TypeOK
        <4> QED
          BY <4>1, <4>2, <3>1, <3>2, <1>0, JobStatusDone
      <3>3. CASE h # g
        <4>1. q # p
          BY <3>1, <3>3 DEF TableInv, TableOK
        <4> QED
          BY <4>1, <3>1, <3>3, <2>4 DEF Apply, TypeOK, TableInv, DoneOK
      <3> QED
        BY <3>2, <3>3
    <2> QED
      BY <2>3, <2>4 DEF DoneOK
  <1> QED
    BY <1>2, <1>3, <1>4 DEF TableInv

\* So does job_continue,
LEMMA ContinueTable ==
    ASSUME TypeOK, TypeOK', TableInv, NEW g \in jobs, JobContinue(g)
    PROVE  TableInv'
  <1>0. g \in Proc /\ members[g] \in SUBSET Proc /\ InGroup(g) \subseteq Waitable
    BY DEF TypeOK, InGroup
  <1>1. NobodyReturns
    BY <1>0, KernelMoves DEF JobContinue, TypeOK
  <1>2. TableOK' /\ Owned'
    BY <1>1 DEF TypeOK, JobContinue, TableInv, TableOK, Owned, NobodyReturns
  <1>3. ASSUME NEW h \in jobs', NEW q \in members'[h], pst'[q] = "DONE"
        PROVE  kst'[q] = "gone"
    BY <1>1, <1>3 DEF JobContinue, TypeOK, TableInv, DoneOK, NobodyReturns
  <1>4. ASSUME NEW h \in jobs', NEW q \in members'[h], jst'[h] = "DONE"
        PROVE  pst'[q] = "DONE"
    <2>1. h \in jobs /\ q \in members[h] /\ h \in Proc /\ q \in Proc
      BY <1>4 DEF JobContinue, TypeOK
    <2>2. CASE h = g
      <3>1. JobStatus(members[g], pst') = "DONE"
        BY <2>2, <1>4, <1>0 DEF JobContinue, TypeOK
      <3>2. pst' \in [Proc -> Statuses]
        BY DEF TypeOK
      <3> QED
        BY <3>1, <3>2, <2>1, <2>2, <1>0, JobStatusDone
    <2>3. CASE h # g
      <3>1. jst[h] = "DONE" /\ pst[q] = "DONE"
        BY <2>1, <2>3, <1>4 DEF JobContinue, TypeOK, TableInv, DoneOK
      <3> QED
        BY <3>1, <2>1 DEF JobContinue, TypeOK
    <2> QED
      BY <2>2, <2>3
  <1> QED
    BY <1>2, <1>3, <1>4 DEF TableInv, DoneOK

\* and the removal of jobs none of whose processes is left.
LEMMA DropTable ==
    ASSUME TypeOK, TableInv, NEW G \in SUBSET jobs, Drop(G), UNCHANGED kernel,
           \A g \in G : members[g] \cap Waitable = {}
    PROVE  TableInv'
  <1>1. \A g \in jobs' : /\ g \in jobs /\ g \notin G /\ members'[g] = members[g]
                         /\ last'[g] = last[g] /\ jst'[g] = jst[g]
    BY DEF Drop, TypeOK
  <1>2. \A g \in jobs' : \A p \in members[g] : pst'[p] = pst[p]
    <2> SUFFICES ASSUME NEW g \in jobs', NEW p \in members[g]
                 PROVE  pst'[p] = pst[p]
      OBVIOUS
    <2>1. p \in Proc /\ g \in jobs /\ g \notin G
      BY <1>1 DEF TypeOK
    <2>2. p \notin UNION {members[h] : h \in G}
      BY <2>1 DEF TableInv, TableOK
    <2> QED
      BY <2>1, <2>2 DEF Drop
  <1>3. TableOK'
    BY <1>1 DEF TableInv, TableOK, kernel
  <1>4. DoneOK'
    BY <1>1, <1>2 DEF TableInv, DoneOK, kernel
  <1>5. Owned'
    <2> SUFFICES ASSUME NEW p \in Waitable
                 PROVE  \E g \in jobs' : p \in members'[g]
      BY DEF Owned, Waitable, kernel
    <2>1. PICK g \in jobs : p \in members[g]
      BY DEF TableInv, Owned
    <2>2. g \notin G
      BY <2>1
    <2> QED
      BY <2>1, <2>2 DEF Drop, TypeOK
  <1> QED
    BY <1>3, <1>4, <1>5 DEF TableInv

\* A launch adds a job of processes that did not exist before.
LEMMA ExecuteTable ==
    ASSUME TypeOK, TableInv, NEW ps \in SUBSET {p \in Proc : kst[p] = "unborn"},
           NEW g \in ps, NEW l \in ps, NEW background \in BOOLEAN,
           Execute(ps, g, l, background)
    PROVE  TableInv'
  <1>0. \A h \in jobs : h # g /\ \A p \in members[h] : p \notin ps
    BY DEF TypeOK, TableInv, TableOK
  <1>1. /\ \A p \in ps : kst'[p] = "running" /\ pst'[p] = "RUNNING"
        /\ \A p \in Proc \ ps : kst'[p] = kst[p] /\ pst'[p] = pst[p]
        /\ \A p \in Proc : kgrp'[p] = IF p \in ps THEN g ELSE kgrp[p]
    BY DEF Execute, Fork
  <1>2. /\ jobs' = jobs \cup {g}
        /\ members'[g] = ps /\ last'[g] = l /\ jst'[g] = "RUNNING"
        /\ \A h \in jobs : /\ members'[h] = members[h] /\ last'[h] = last[h]
                           /\ jst'[h] = jst[h]
    BY <1>0 DEF Execute, TypeOK
  <1>3. \A h \in jobs : members[h] \subseteq Proc
    BY DEF TypeOK
  <1>4. TableOK'
    BY <1>0, <1>1, <1>2, <1>3 DEF TableInv, TableOK
  <1>5. DoneOK'
    BY <1>0, <1>1, <1>2, <1>3 DEF TableInv, DoneOK
  <1>6. Owned'
    BY <1>1, <1>2 DEF TableInv, Owned, Waitable
  <1> QED
    BY <1>4, <1>5, <1>6 DEF TableInv

\* A DONE job has no process left to wait for.
LEMMA DoneIsGone ==
    ASSUME TypeOK, TableInv, NEW g \in jobs, jst[g] = "DONE"
    PROVE  members[g] \cap Waitable = {}
  BY DEF TypeOK, TableInv, DoneOK, Waitable

\* Steps of the world leave the shell alone, and only move the kernel on.
LEMMA WorldMoves ==
    ASSUME TypeOK, World
    PROVE  NobodyReturns /\ UNCHANGED <<table, shell>>
  <1> USE DEF OutsideUnchanged
  <1>a. KernelTypeOK
    BY DEF TypeOK
  <1>0. /\ \A p \in Proc : kst[p] \in {"running", "stopped"} =>
                             {p} \subseteq Waitable /\ {p} \subseteq Alive
        /\ \A g : Runners(g) \subseteq Waitable /\ Runners(g) \subseteq Alive
    BY DEF Waitable, Runners, Alive
  <1>1. ASSUME NEW p \in Proc, ProcessExits(p) \/ ProcessKilled(p)
        PROVE  NobodyReturns
    <2>1. PICK w : Terminate({p}, w)
      BY <1>1 DEF ProcessExits, ProcessKilled
    <2>2. {p} \subseteq Waitable
      BY <1>0, <1>1 DEF ProcessExits, ProcessKilled, Alive
    <2> QED
      BY <1>a, <2>1, <2>2
         DEF Terminate, NobodyReturns, Waitable, KernelTypeOK
  <1>2. ASSUME NEW p \in Proc, ProcessStops(p) \/ ProcessContinued(p)
        PROVE  NobodyReturns
    <2>1. {p} \subseteq Waitable /\ {p} \subseteq Alive
      BY <1>0, <1>2 DEF ProcessStops, ProcessContinued
    <2>2. Stop({p}) \/ Continue({p})
      BY <1>2 DEF ProcessStops, ProcessContinued
    <2> QED
      BY <1>a, <2>1, <2>2, KernelMoves
  <1>3. ASSUME NEW p \in Proc, LeavesGroup(p)
        PROVE  NobodyReturns
    BY <1>a, <1>3 DEF LeavesGroup, NobodyReturns, Waitable, KernelTypeOK
  <1>4. CASE CtrlZ
    BY <1>0, <1>4, KernelMoves DEF CtrlZ, TypeOK
  <1>5. CASE CtrlC
    BY <1>0, <1>5, KernelMoves DEF CtrlC, TypeOK
  <1>6. CASE ForegroundSetsModes \/ TtyLost
    BY <1>6 DEF ForegroundSetsModes, TtyLost, NobodyReturns, Waitable, kernel
  <1>7. NobodyReturns
    BY <1>1, <1>2, <1>3, <1>4, <1>5, <1>6 DEF World
  <1>8. UNCHANGED <<table, shell>>
    BY DEF World, ProcessExits, ProcessKilled, ProcessStops, ProcessContinued,
           LeavesGroup, CtrlZ, CtrlC, ForegroundSetsModes, TtyLost
  <1> QED
    BY <1>7, <1>8

\* Every step keeps the table's and the control invariants.
LEMMA NextTable ==
    ASSUME TypeOK, TypeOK', TableInv, ControlOK, [Next]_vars
    PROVE  TableInv' /\ ControlOK'
  <1> USE DEF table, shell, tty
  <1>a. KernelTypeOK /\ jobs \subseteq Proc
    BY DEF TypeOK
  <1>b. UNCHANGED <<kst, kgrp>> => NobodyReturns
    BY DEF NobodyReturns, Waitable
  <1>c. pc' = "loop" => ControlOK'
    BY DEF ControlOK
  <1>d. \A status : Return(status) => pc' = "loop"
    BY DEF Return
  <1>e. \A g \in jobs : members[g] \in SUBSET Proc
    BY DEF TypeOK
  <1>f. pc \notin {"loop", "reap"} => cur \in jobs
    BY DEF ControlOK
  <1>g. (UNCHANGED <<kernel, table>>) => TableInv'
    BY <1>b, KernelTable DEF kernel
  <1>1. CASE World
    <2>1. NobodyReturns /\ UNCHANGED <<table, shell>>
      BY <1>1, WorldMoves
    <2>2. ControlOK'
      BY <2>1 DEF NobodyReturns, ControlOK
    <2> QED
      BY <2>1, <2>2, KernelTable
  <1>2. CASE StartReap
    <2>1. TableInv'
      BY <1>2, <1>b, KernelTable DEF StartReap
    <2>2. ControlOK'
      BY <1>2 DEF StartReap, ControlOK, Unfinished
    <2> QED
      BY <2>1, <2>2
  <1>3. ASSUME NEW p \in Proc, ReapOne(p)
        PROVE  TableInv' /\ ControlOK'
    <2>1. JobOf(p) \in jobs /\ p \in members[JobOf(p)]
      BY <1>3, JobOfIn DEF ReapOne, ControlOK
    <2>2. UNCHANGED <<jobs, members>> /\ pc = "reap" /\ pc' = "reap"
          /\ todo' = todo \ {p}
      BY <1>3 DEF ReapOne, Apply
    <2>3. ControlOK'
      BY <2>2 DEF ControlOK
    <2>4. CASE HasReport(p, {"stopped", "continued"})
      <3>1. Apply(p, JobOf(p), Report(p)) /\ Collect(p)
        BY <1>3, <2>4 DEF ReapOne
      <3> QED
        BY <2>1, <2>3, <2>4, <3>1, ApplyTable
    <2>5. CASE ~HasReport(p, {"stopped", "continued"}) /\ kst[p] = "gone"
      <3> DEFINE g == JobOf(p)
      <3>1. /\ pst' = [pst EXCEPT ![p] = "DONE"]
            /\ jst' = [jst EXCEPT ![g] = JobStatus(members[g], pst')]
            /\ UNCHANGED <<kernel, jobs, nextid, jid, members, last, wst, saved>>
        BY <1>3, <2>5 DEF ReapOne
      <3>2. TableOK' /\ Owned'
        BY <3>1 DEF TableInv, TableOK, Owned, Waitable, kernel
      <3>3. \A h \in jobs : \A q \in members[h] :
              pst'[q] = "DONE" => kst'[q] = "gone"
        BY <3>1, <2>5, <1>e DEF TableInv, DoneOK, kernel, TypeOK
      <3>4. ASSUME NEW h \in jobs, NEW q \in members[h], jst'[h] = "DONE"
            PROVE  pst'[q] = "DONE"
        <4> HIDE DEF g
        <4>1. CASE h = g
          <5>1. JobStatus(members[g], pst') = "DONE"
            BY <3>1, <3>4, <4>1, <1>a DEF TypeOK
          <5>2. pst' \in [Proc -> Statuses]
            BY DEF TypeOK
          <5> QED
            BY <5>1, <5>2, <4>1, <1>e, JobStatusDone
        <4>2. CASE h # g
          <5>1. jst[h] = "DONE"
            BY <3>1, <3>4, <4>2, <1>a DEF TypeOK
          <5> QED
            BY <5>1, <3>1, <1>e DEF TableInv, DoneOK, TypeOK
        <4> QED
          BY <4>1, <4>2
      <3> QED
        BY <3>1, <3>2, <3>3, <3>4, <2>3 DEF TableInv, DoneOK
    <2>6. CASE ~HasReport(p, {"stopped", "continued"}) /\ kst[p] # "gone"
      <3>1. UNCHANGED <<kernel, table>>
        BY <1>3, <2>6 DEF ReapOne
      <3> QED
        BY <3>1, <2>3, <1>g
    <2> QED
      BY <2>4, <2>5, <2>6
  <1>4. CASE CleanupDone
    <2>1. \A g \in jobs : jst[g] = "DONE" => members[g] \cap Waitable = {}
      BY DoneIsGone
    <2>2. TableInv'
      BY <1>4, <2>1, DropTable DEF CleanupDone
    <2> QED
      BY <1>4, <2>2, <1>c DEF CleanupDone
  <1>5. CASE FgHandoff \/ FgModes \/ RestorePgrp \/ RestoreModes
    <2>1. UNCHANGED <<kernel, table>>
      BY <1>5 DEF FgHandoff, FgModes, RestorePgrp, RestoreModes
    <2>2. ControlOK'
      <3>1. CASE pc' = "loop"
        BY <3>1, <1>c
      <3>2. CASE pc' # "loop"
        BY <1>5, <3>2, <2>1
           DEF FgHandoff, FgModes, RestorePgrp, RestoreModes, GoTo, Return,
               ControlOK, kernel, Waitable
      <3> QED
        BY <3>1, <3>2
    <2> QED
      BY <1>g, <2>1, <2>2
  <1>6. CASE FgContinue
    <2>1. TableInv'
      <3>1. CASE JobContinue(cur)
        BY <1>6, <3>1, <1>f, ContinueTable DEF FgContinue
      <3>2. CASE UNCHANGED <<kernel, table>>
        BY <3>2, <1>g
      <3> QED
        BY <1>6, <3>1, <3>2 DEF FgContinue, JobContinueFails
    <2>2. UNCHANGED <<jobs, caller, cur>> /\ pc = "continue" /\ pc' \in {"wait", "fail"}
      BY <1>6 DEF FgContinue, JobContinue, JobContinueFails, GoTo
    <2>3. ControlOK'
      BY <2>2 DEF ControlOK
    <2> QED
      BY <2>1, <2>3
  <1>7. ASSUME NEW p \in Proc, WaitReports(p)
        PROVE  TableInv' /\ ControlOK'
    <2>1. cur \in jobs /\ p \in Waitable /\ kgrp[p] = cur
      BY <1>7, <1>f DEF WaitReports, InGroup
    <2>2. p \in members[cur]
      BY <2>1, <1>a, NoneAssumption DEF TableInv, Owned, TableOK
    <2>3. TableInv'
      BY <1>7, <2>1, <2>2, ApplyTable DEF WaitReports, HasReport
    <2>4. ControlOK'
      BY <1>7 DEF WaitReports, Apply, ControlOK
    <2> QED
      BY <2>3, <2>4
  <1>8. CASE WaitFails \/ WaitEnds
    <2>1. UNCHANGED <<kernel, table>>
      BY <1>8 DEF WaitFails, WaitEnds
    <2>2. ControlOK'
      BY <1>8, <2>1 DEF WaitFails, WaitEnds, GoTo, ControlOK, TypeOK
    <2> QED
      BY <1>g, <2>1, <2>2
  <1>9. CASE Rollback
    <2>1. cur \in jobs /\ UNCHANGED table
      BY <1>9, <1>f DEF Rollback
    <2>2. NobodyReturns
      BY <1>9, <1>a
         DEF Rollback, KillAndCollect, NobodyReturns, Waitable, KernelTypeOK
    <2>3. members[cur] \cap Waitable' = {}
      BY <1>9, <2>2 DEF Rollback, KillAndCollect, Waitable, NobodyReturns
    <2>4. ControlOK'
      BY <1>9, <2>1, <2>3 DEF Rollback, GoTo, ControlOK
    <2> QED
      BY <2>1, <2>2, <2>4, KernelTable
  <1>10. CASE SaveModes
    <2>1. UNCHANGED <<kernel, jobs, members, last, jst, pst>>
      BY <1>10 DEF SaveModes
    <2>2. TableInv'
      BY <2>1, <1>b, KernelTable DEF kernel
    <2>3. ControlOK'
      BY <1>10, <2>1 DEF SaveModes, GoTo, ControlOK
    <2> QED
      BY <2>2, <2>3
  <1>11. CASE Finish
    <2>1. cur \in jobs /\ jst[cur] # "RUNNING" /\ jst[cur] \in Statuses
      BY <1>11, <1>a DEF Finish, ControlOK, TypeOK
    <2>2. CASE jst[cur] = "STOPPED"
      BY <1>11, <2>2, <1>c, <1>d, <1>g DEF Finish
    <2>3. CASE jst[cur] = "DONE"
      <3>1. Drop({cur}) /\ UNCHANGED kernel
        BY <1>11, <2>3 DEF Finish
      <3>2. members[cur] \cap Waitable = {}
        BY <2>1, <2>3, DoneIsGone
      <3>3. TableInv'
        BY <2>1, <3>1, <3>2, DropTable
      <3> QED
        BY <1>11, <2>3, <3>3, <1>c, <1>d DEF Finish
    <2> QED
      BY <2>1, <2>2, <2>3 DEF Statuses
  <1>12. CASE Fail
    <2>1. cur \in jobs /\ UNCHANGED kernel /\ pc' = "loop"
      BY <1>12, <1>f, <1>d DEF Fail
    <2>2. CASE caller = "execute"
      <3>1. Drop({cur}) /\ members[cur] \cap Waitable = {}
        BY <1>12, <2>2 DEF Fail, ControlOK
      <3>2. TableInv'
        BY <2>1, <3>1, DropTable
      <3> QED
        BY <2>1, <3>2, <1>c
    <2>3. CASE caller # "execute"
      BY <1>12, <2>1, <2>3, <1>c, <1>g DEF Fail
    <2> QED
      BY <2>2, <2>3
  <1>13. ASSUME NEW ps \in SUBSET {p \in Proc : kst[p] = "unborn"},
                NEW g \in ps, NEW l \in ps,
                NEW background \in BOOLEAN, Execute(ps, g, l, background)
         PROVE  TableInv' /\ ControlOK'
    <2>1. TableInv'
      BY <1>13, ExecuteTable
    <2>2. ControlOK'
      BY <1>13 DEF Execute, Return, ControlOK
    <2> QED
      BY <2>1, <2>2
  <1>14. CASE ExecuteFails
    <2>1. UNCHANGED <<kst, kgrp, table>>
      BY <1>14 DEF ExecuteFails
    <2> QED
      BY <1>14, <2>1, <1>b, <1>c, <1>d, KernelTable DEF ExecuteFails
  <1>15. CASE BuiltinFg
    <2>1. UNCHANGED <<kernel, table>>
      BY <1>15 DEF BuiltinFg
    <2>2. ControlOK'
      BY <1>15, <2>1 DEF BuiltinFg, Return, Active, ControlOK
    <2> QED
      BY <2>1, <2>2, <1>g
  <1>16. CASE BuiltinBg
    <2>1. pc' = "loop"
      BY <1>16, <1>d DEF BuiltinBg
    <2>2. (UNCHANGED <<kernel, table>>) \/ (\E g \in jobs : JobContinue(g))
      BY <1>16 DEF BuiltinBg, JobContinueFails
    <2> QED
      BY <2>1, <2>2, <1>c, <1>g, ContinueTable
  <1>17. CASE BuiltinReload \/ BuiltinExit
    <2>1. UNCHANGED <<kernel, table>> /\ pc' = "loop"
      BY <1>17 DEF BuiltinReload, BuiltinExit, Prompt
    <2> QED
      BY <2>1, <1>c, <1>g
  <1>18. CASE UNCHANGED vars
    BY <1>18, <1>g DEF vars, ControlOK, kernel, Waitable
  <1> QED
    BY <1>1, <1>2, <1>3, <1>4, <1>5, <1>6, <1>7, <1>8, <1>9, <1>10, <1>11, <1>12,
       <1>13, <1>14, <1>15, <1>16, <1>17, <1>18
       DEF Next, Reap, Foreground, User, Launches, Terminated

---------------------------------------------------------------------------
(* The terminal.                                                           *)

\* Every step keeps the terminal invariant.
LEMMA NextTerminal ==
    ASSUME TypeOK, ControlOK, TerminalOK, [Next]_vars
    PROVE  TerminalOK'
  <1> USE DEF table, shell, tty, OutsideUnchanged, Steps
  <1>1. CASE World
    <2>1. CASE ForegroundSetsModes
      BY <2>1 DEF ForegroundSetsModes, TerminalOK
    <2>2. CASE TtyLost
      BY <2>2 DEF TtyLost, TerminalOK
    <2>3. CASE UNCHANGED <<table, tty, shell>>
      BY <2>3 DEF TerminalOK
    <2> QED
      BY <1>1, <2>1, <2>2, <2>3
         DEF World, ProcessExits, ProcessKilled, ProcessStops, ProcessContinued,
             LeavesGroup, CtrlZ, CtrlC
  <1>2. CASE StartReap
    BY <1>2 DEF StartReap, Prompt, TerminalOK
  <1>3. ASSUME NEW p \in Proc, ReapOne(p)
        PROVE  TerminalOK'
    BY <1>3 DEF ReapOne, TerminalOK
  <1>4. CASE CleanupDone
    BY <1>4 DEF CleanupDone, TerminalOK
  <1>5. CASE FgHandoff
    BY <1>5 DEF FgHandoff, GoTo, Return, TerminalOK
  <1>6. CASE FgModes
    BY <1>6 DEF FgModes, GoTo, TerminalOK
  <1>7. CASE FgContinue
    BY <1>7 DEF FgContinue, GoTo, TerminalOK
  <1>8. ASSUME NEW p \in Proc, WaitReports(p)
        PROVE  TerminalOK'
    BY <1>8 DEF WaitReports, TerminalOK
  <1>9. CASE WaitFails \/ Rollback \/ WaitEnds \/ SaveModes
    BY <1>9 DEF WaitFails, Rollback, WaitEnds, SaveModes, GoTo, TerminalOK
  <1>10. CASE RestorePgrp
    <2>1. CASE tty_ok
      BY <1>10, <2>1 DEF RestorePgrp, GoTo, TerminalOK
    <2>2. CASE ~tty_ok
      BY <1>10, <2>2 DEF RestorePgrp, Return, TerminalOK
    <2> QED
      BY <2>1, <2>2
  <1>11. CASE RestoreModes
    <2>1. CASE tty_ok
      BY <1>11, <2>1 DEF RestoreModes, GoTo, TerminalOK
    <2>2. CASE ~tty_ok
      BY <1>11, <2>2 DEF RestoreModes, Return, TerminalOK
    <2> QED
      BY <2>1, <2>2
  <1>12. CASE Finish
    BY <1>12 DEF Finish, Return, TerminalOK
  <1>13. CASE Fail
    BY <1>13 DEF Fail, Return, TerminalOK
  <1>14. ASSUME NEW ps, NEW g, NEW l, NEW background \in BOOLEAN,
                Execute(ps, g, l, background)
         PROVE  TerminalOK'
    <2>1. CASE background
      BY <1>14, <2>1 DEF Execute, Prompt, Return, TerminalOK
    <2>2. CASE ~background
      BY <1>14, <2>2 DEF Execute, Prompt, TerminalOK
    <2> QED
      BY <2>1, <2>2
  <1>15. CASE ExecuteFails \/ BuiltinFg \/ BuiltinReload
    <2>1. /\ pc = "loop" /\ pc' \in {"loop", "handoff"} /\ running
          /\ UNCHANGED <<tty, running>>
      BY <1>15 DEF ExecuteFails, BuiltinFg, BuiltinReload, Prompt, Return
    <2> QED
      BY <2>1 DEF TerminalOK
  <1>16. CASE BuiltinBg
    BY <1>16 DEF BuiltinBg, Prompt, Return, TerminalOK
  <1>17. CASE BuiltinExit
    <2>1. ~running' /\ pc' = "loop"
      BY <1>17 DEF BuiltinExit, Prompt
    <2> QED
      BY <2>1 DEF TerminalOK
  <1>18. CASE UNCHANGED vars
    BY <1>18 DEF vars, TerminalOK
  <1> QED
    BY <1>1, <1>2, <1>3, <1>4, <1>5, <1>6, <1>7, <1>8, <1>9, <1>10, <1>11, <1>12,
       <1>13, <1>14, <1>15, <1>16, <1>17, <1>18
       DEF Next, Reap, Foreground, User, Launches, Terminated

---------------------------------------------------------------------------
(* Reports: what the table and the kernel say of a process.                *)

ReportInv == ReportOK /\ CollectedOK /\ StaleOnlyUntilReap

\* A step that touches neither processes nor table keeps the invariants.
LEMMA StillReport ==
    ASSUME ReportInv, pc \notin {"reap", "fail"}, sigchld => sigchld',
           UNCHANGED <<kst, kgrp, note, wcode, jobs, members, pst, wst>>
    PROVE  ReportInv'
  <1>1. ReportOK'
    BY DEF ReportInv, ReportOK
  <1>2. CollectedOK'
    BY DEF ReportInv, CollectedOK
  <1>3. StaleOnlyUntilReap'
    BY DEF ReportInv, StaleOnlyUntilReap, Agrees
  <1> QED
    BY <1>1, <1>2, <1>3 DEF ReportInv

\* The kernel moves on by itself and tells the shell.
LEMMA KernelReport ==
    ASSUME TypeOK, TableInv, ReportInv, sigchld', ReportOK',
           UNCHANGED <<jobs, members, pst, wst, pc, caller, cur>>,
           \A p \in Proc : kst[p] = "gone" => wcode'[p] = wcode[p],
           \A p \in Proc : kst'[p] = "gone" => kst[p] = "gone"
    PROVE  ReportInv'
  <1>1. CollectedOK'
    BY DEF ReportInv, CollectedOK, TableInv, DoneOK, TypeOK
  <1>2. StaleOnlyUntilReap'
    BY DEF StaleOnlyUntilReap
  <1> QED
    BY <1>1, <1>2 DEF ReportInv

\* The world's steps.
LEMMA WorldReport ==
    ASSUME TypeOK, TableInv, ReportInv, World
    PROVE  ReportInv'
  <1> USE DEF table, shell, tty, OutsideUnchanged
  <1>a. /\ kst \in [Proc -> ProcStates] /\ kgrp \in [Proc -> Proc \cup {None}]
        /\ note \in [Proc -> {"none", "stopped", "continued"}]
        /\ wcode \in [Proc -> WaitStatus]
        /\ \A g \in jobs : g \in Proc /\ members[g] \subseteq Proc
    BY DEF TypeOK, KernelTypeOK
  <1>1. ASSUME NEW ps \in SUBSET Proc, NEW w \in WaitStatus, Terminate(ps, w),
               w.kind \in {"exited", "signaled"}, ps \subseteq Alive,
               UNCHANGED <<table, shell>>
        PROVE  ReportInv'
    <2>1. ReportOK'
      BY <1>1, <1>a DEF Terminate, ReportInv, ReportOK
    <2> QED
      BY <1>1, <1>a, <2>1, KernelReport DEF Terminate, Alive
  <1>2. ASSUME NEW ps \in SUBSET Proc, Stop(ps), \A p \in ps : kst[p] = "running",
               UNCHANGED <<table, shell>>
        PROVE  ReportInv'
    <2>1. ReportOK'
      BY <1>2, <1>a DEF Stop, ReportInv, ReportOK
    <2> QED
      BY <1>2, <1>a, <2>1, KernelReport DEF Stop
  <1>3. ASSUME NEW p \in Proc, kst[p] = "stopped", Continue({p}),
               UNCHANGED <<table, shell>>
        PROVE  ReportInv'
    <2>1. ReportOK'
      BY <1>3, <1>a DEF Continue, ReportInv, ReportOK
    <2>2. sigchld'
      BY <1>3 DEF Continue
    <2> QED
      BY <1>3, <1>a, <2>1, <2>2, KernelReport DEF Continue
  <1>4. ASSUME NEW p \in Proc, LeavesGroup(p)
        PROVE  ReportInv'
    <2>1. \A q \in Proc : \A g \in jobs : kgrp'[q] = g => kgrp[q] = g
      BY <1>4, <1>a, NoneAssumption DEF LeavesGroup
    <2>2. ReportOK'
      BY <1>4, <1>a, <2>1 DEF LeavesGroup, ReportInv, ReportOK
    <2>3. CollectedOK'
      BY <1>4 DEF LeavesGroup, ReportInv, CollectedOK
    <2>4. StaleOnlyUntilReap'
      BY <1>4, <1>a, <2>1 DEF LeavesGroup, ReportInv, StaleOnlyUntilReap, Agrees
    <2> QED
      BY <2>2, <2>3, <2>4 DEF ReportInv
  <1>5. CASE UNCHANGED <<kernel, table, shell>>
    BY <1>5 DEF kernel, ReportInv, ReportOK, CollectedOK, StaleOnlyUntilReap, Agrees
  <1>6. /\ \A c \in Nat : /\ Exited(c).kind = "exited"
                          /\ Signaled(c).kind = "signaled"
        /\ SIGKILL \in Nat /\ SIGINT \in Nat
    BY DEF Exited, Signaled, SIGKILL, SIGINT
  <1>7. ASSUME NEW p \in Proc, ProcessExits(p) \/ ProcessKilled(p)
        PROVE  ReportInv'
    <2>1. {p} \subseteq Alive /\ UNCHANGED <<table, shell>>
      BY <1>7 DEF ProcessExits, ProcessKilled, Alive
    <2>2. PICK w \in WaitStatus : /\ w.kind \in {"exited", "signaled"}
                                  /\ Terminate({p}, w)
      BY <1>6, <1>7, ExitCodesAssumption, WaitStatuses
         DEF ProcessExits, ProcessKilled
    <2> QED
      BY <1>1, <2>1, <2>2
  <1>8. ASSUME NEW p \in Proc, ProcessStops(p) \/ ProcessContinued(p)
        PROVE  ReportInv'
    BY <1>2, <1>3, <1>8 DEF ProcessStops, ProcessContinued
  <1>9. CASE CtrlZ
    <2>1. Stop(Runners(owner)) /\ UNCHANGED <<table, shell>>
      BY <1>9 DEF CtrlZ
    <2> QED
      BY <1>2, <2>1 DEF Runners
  <1>10. CASE CtrlC
    <2>1. Terminate(Runners(owner), Signaled(SIGINT)) /\ UNCHANGED <<table, shell>>
      BY <1>10 DEF CtrlC
    <2>2. Runners(owner) \in SUBSET Proc /\ Runners(owner) \subseteq Alive
      BY DEF Runners, Alive
    <2> QED
      BY <1>1, <1>6, <2>1, <2>2, WaitStatuses
  <1>11. CASE ForegroundSetsModes \/ TtyLost
    BY <1>5, <1>11 DEF ForegroundSetsModes, TtyLost
  <1> QED
    BY <1>4, <1>7, <1>8, <1>9, <1>10, <1>11 DEF World

\* Storing the report of a process makes its entry right.
LEMMA ApplyReport ==
    ASSUME TypeOK, TableInv, ReportInv, NEW g \in jobs, NEW p \in members[g],
           HasReport(p, {"stopped", "continued"}),
           Apply(p, g, Report(p)), Collect(p), pc # "fail",
           UNCHANGED <<pc, caller, cur>>, todo \ {p} \subseteq todo'
    PROVE  ReportInv'
  <1>a. /\ kst \in [Proc -> ProcStates] /\ kgrp \in [Proc -> Proc \cup {None}]
        /\ note \in [Proc -> {"none", "stopped", "continued"}]
        /\ wcode \in [Proc -> WaitStatus]
        /\ pst \in [Proc -> Statuses]
        /\ wst \in [Proc -> WaitStatus \cup {NoStatus}]
        /\ p \in Proc
        /\ \A h \in jobs : h \in Proc /\ members[h] \subseteq Proc
    BY DEF TypeOK, KernelTypeOK
  <1>b. /\ wcode[p].kind \in {"exited", "signaled"}
        /\ note[p] = "stopped" => kst[p] = "stopped"
        /\ note[p] = "continued" => kst[p] = "running"
    BY <1>a DEF ReportInv, ReportOK
  <1>c. /\ \A q \in Proc : kst'[q] = IF q = p /\ kst[p] = "zombie" THEN "gone"
                                     ELSE kst[q]
        /\ \A q \in Proc : note'[q] = IF q = p THEN "none" ELSE note[q]
        /\ \A q \in Proc : pst'[q] = IF q = p THEN StatusOf(Report(p)) ELSE pst[q]
        /\ \A q \in Proc : wst'[q] = IF q = p THEN Report(p) ELSE wst[q]
        /\ UNCHANGED <<kgrp, wcode, sigchld, jobs, members>>
    BY <1>a DEF Collect, Apply
  <1>1. \/ /\ kst[p] = "zombie" /\ Report(p) = wcode[p]
           /\ StatusOf(Report(p)) = "DONE"
        \/ kst[p] = "stopped" /\ StatusOf(Report(p)) = "STOPPED"
        \/ kst[p] = "running" /\ StatusOf(Report(p)) = "RUNNING"
    <2>1. CASE kst[p] = "zombie"
      BY <2>1, <1>b DEF Report, StatusOf
    <2>2. CASE kst[p] # "zombie"
      <3>1. note[p] \in {"stopped", "continued"}
        BY <2>2 DEF HasReport
      <3> QED
        BY <2>2, <3>1, <1>b DEF Report, StatusOf, Stopped, Continued
    <2> QED
      BY <2>1, <2>2
  <1>2. ReportOK'
    BY <1>a, <1>b, <1>c, <1>1 DEF ReportInv, ReportOK
  <1>3. CollectedOK'
    BY <1>a, <1>c, <1>1 DEF ReportInv, CollectedOK
  <1>4. StaleOnlyUntilReap'
    BY <1>a, <1>c, <1>1 DEF ReportInv, StaleOnlyUntilReap, Agrees
  <1> QED
    BY <1>2, <1>3, <1>4 DEF ReportInv

\* job_continue guesses RUNNING; where it is wrong, a SIGCHLD is on its way.
LEMMA ContinueReport ==
    ASSUME TypeOK, TableInv, ReportInv, NEW g \in jobs, JobContinue(g),
           pc \notin {"reap", "fail"}
    PROVE  ReportInv'
  <1>a. /\ kst \in [Proc -> ProcStates] /\ kgrp \in [Proc -> Proc \cup {None}]
        /\ note \in [Proc -> {"none", "stopped", "continued"}]
        /\ pst \in [Proc -> Statuses]
        /\ \A h \in jobs : h \in Proc /\ members[h] \subseteq Proc
    BY DEF TypeOK, KernelTypeOK
  <1> DEFINE woken == {p \in InGroup(g) : kst[p] = "stopped"}
  <1>b. /\ \A q \in Proc : kst'[q] = IF q \in woken THEN "running" ELSE kst[q]
        /\ \A q \in Proc : note'[q] = IF q \in woken THEN "continued" ELSE note[q]
        /\ \A q \in Proc : pst'[q] = IF q \in members[g] /\ pst[q] = "STOPPED"
                                     THEN "RUNNING" ELSE pst[q]
        /\ UNCHANGED <<kgrp, wcode, jobs, members, wst>>
    BY <1>a DEF JobContinue, Continue
  <1>c. sigchld' = (sigchld \/ woken # {})
    BY DEF JobContinue, Continue
  <1>d. \A q \in Proc : q \in woken <=> kgrp[q] = g /\ kst[q] = "stopped"
    BY DEF InGroup, Waitable
  <1>e. \A h \in jobs : \A q \in members[h] : q \in members[g] => h = g
    BY DEF TableInv, TableOK
  <1> HIDE DEF woken
  <1>1. ReportOK'
    BY <1>a, <1>b, <1>d, <1>e DEF ReportInv, ReportOK
  <1>2. CollectedOK'
    BY <1>a, <1>b, <1>d DEF ReportInv, CollectedOK
  <1>3. StaleOnlyUntilReap'
    <2> SUFFICES ASSUME NEW h \in jobs, NEW q \in members[h], kgrp[q] = h
                 PROVE  Agrees(q)' \/ sigchld'
      BY <1>b DEF StaleOnlyUntilReap
    <2>0. q \in Proc
      BY <1>a
    <2>1. CASE q \in woken
      BY <2>1, <1>c
    <2>2. CASE q \notin woken /\ ~Agrees(q)
      BY <2>2, <1>c DEF ReportInv, StaleOnlyUntilReap
    <2>3. CASE q \notin woken /\ Agrees(q)
      <3>1. kst'[q] = kst[q]
        BY <2>0, <2>3, <1>b
      <3>2. q \in members[g] => kst[q] # "stopped"
        BY <2>0, <2>3, <1>d, <1>e
      <3>3. pst'[q] = pst[q]
        BY <2>0, <2>3, <3>2, <1>b DEF Agrees
      <3> QED
        BY <2>3, <3>1, <3>3 DEF Agrees
    <2> QED
      BY <2>1, <2>2, <2>3
  <1> QED
    BY <1>1, <1>2, <1>3 DEF ReportInv

\* Removing jobs leaves the entries of the others as they are.
LEMMA DropReport ==
    ASSUME TypeOK, TableInv, ReportInv, NEW G \in SUBSET jobs, Drop(G),
           UNCHANGED kernel, pc = "reap" => todo = {},
           pc = "fail" /\ caller = "execute" => cur \in G
    PROVE  ReportInv'
  <1>1. \A g \in jobs' : g \in jobs /\ g \notin G /\ members'[g] = members[g]
    BY DEF Drop, TypeOK
  <1>2. \A g \in jobs' : \A p \in members[g] : pst'[p] = pst[p] /\ wst'[p] = wst[p]
    <2> SUFFICES ASSUME NEW g \in jobs', NEW p \in members[g]
                 PROVE  pst'[p] = pst[p] /\ wst'[p] = wst[p]
      OBVIOUS
    <2>1. p \in Proc /\ g \in jobs /\ g \notin G
      BY <1>1 DEF TypeOK
    <2>2. p \notin UNION {members[h] : h \in G}
      BY <2>1 DEF TableInv, TableOK
    <2> QED
      BY <2>1, <2>2 DEF Drop
  <1>3. ReportOK'
    BY <1>1, <1>2 DEF ReportInv, ReportOK, kernel
  <1>4. CollectedOK'
    BY <1>1, <1>2 DEF ReportInv, CollectedOK, kernel
  <1>5. StaleOnlyUntilReap'
    BY <1>1, <1>2 DEF ReportInv, StaleOnlyUntilReap, Agrees, kernel
  <1> QED
    BY <1>3, <1>4, <1>5 DEF ReportInv

\* A launch adds processes that run and are RUNNING.
LEMMA ExecuteReport ==
    ASSUME TypeOK, TableInv, ReportInv,
           NEW ps \in SUBSET {p \in Proc : kst[p] = "unborn"},
           NEW g \in ps, NEW l \in ps, NEW background \in BOOLEAN,
           Execute(ps, g, l, background)
    PROVE  ReportInv'
  <1>0. \A h \in jobs : h # g /\ \A p \in members[h] : p \notin ps /\ p \in Proc
    BY DEF TypeOK, TableInv, TableOK
  <1>1. /\ \A p \in ps : kst'[p] = "running" /\ pst'[p] = "RUNNING"
        /\ \A p \in Proc \ ps : /\ kst'[p] = kst[p] /\ pst'[p] = pst[p]
                                /\ wst'[p] = wst[p] /\ kgrp'[p] = kgrp[p]
        /\ UNCHANGED <<note, wcode, sigchld>> /\ pc = "loop"
    BY DEF Execute, Fork, Prompt
  <1>2. /\ jobs' = jobs \cup {g} /\ members'[g] = ps
        /\ \A h \in jobs : members'[h] = members[h]
    BY <1>0 DEF Execute, TypeOK
  <1>3. ReportOK'
    BY <1>0, <1>1, <1>2 DEF ReportInv, ReportOK
  <1>4. CollectedOK'
    BY <1>0, <1>1, <1>2 DEF ReportInv, CollectedOK
  <1>5. StaleOnlyUntilReap'
    BY <1>0, <1>1, <1>2 DEF ReportInv, StaleOnlyUntilReap, Agrees
  <1> QED
    BY <1>3, <1>4, <1>5 DEF ReportInv

\* One waitpid of job_reap settles the entry it asks for.
LEMMA ReapReport ==
    ASSUME TypeOK, TableInv, ControlOK, ReportInv, NEW p \in Proc, ReapOne(p)
    PROVE  ReportInv'
  <1>1. JobOf(p) \in jobs /\ p \in members[JobOf(p)]
    BY JobOfIn DEF ReapOne, ControlOK
  <1>2. pc = "reap" /\ todo' = todo \ {p} /\ UNCHANGED <<pc, caller, cur>>
    BY DEF ReapOne
  <1>3. CASE HasReport(p, {"stopped", "continued"})
    <2>1. Apply(p, JobOf(p), Report(p)) /\ Collect(p)
      BY <1>3 DEF ReapOne
    <2> QED
      BY <1>1, <1>2, <1>3, <2>1, ApplyReport
  <1>4. CASE ~HasReport(p, {"stopped", "continued"})
    <2>1. UNCHANGED <<kernel, jobs, members, pst, wst>>
      <3>1. CASE kst[p] = "gone"
        <4>1. pst[p] = "DONE"
          BY <3>1, <1>1, <1>2 DEF ReportInv, CollectedOK
        <4>2. pst' = [pst EXCEPT ![p] = "DONE"] /\ UNCHANGED <<kernel, jobs, members, wst>>
          BY <1>4, <3>1 DEF ReapOne
        <4> QED
          BY <4>1, <4>2 DEF TypeOK
      <3>2. CASE kst[p] # "gone"
        BY <1>4, <3>2 DEF ReapOne, table
      <3> QED
        BY <3>1, <3>2
    <2>2. ASSUME NEW g \in jobs, p \in members[g], kgrp[p] = g
          PROVE  Agrees(p)
      <3>1. /\ note[p] \in {"none", "stopped", "continued"} /\ pst[p] \in Statuses
            /\ kst[p] \in ProcStates /\ kst[p] # "unborn"
        BY <2>2 DEF TypeOK, KernelTypeOK, TableInv, TableOK
      <3>2. note[p] = "none" /\ kst[p] # "zombie"
        BY <1>4, <3>1 DEF HasReport
      <3>3. kst[p] = "gone" => pst[p] = "DONE"
        BY <2>2, <1>2 DEF ReportInv, CollectedOK
      <3>4. /\ kst[p] = "running" => pst[p] = "RUNNING"
            /\ kst[p] = "stopped" => pst[p] = "STOPPED"
        BY <2>2, <3>2 DEF ReportInv, ReportOK
      <3> QED
        BY <3>1, <3>2, <3>3, <3>4 DEF Agrees, ProcStates
    <2>3. ReportOK' /\ CollectedOK'
      BY <1>2, <2>1 DEF ReportInv, ReportOK, CollectedOK, kernel
    <2>4. StaleOnlyUntilReap'
      BY <1>2, <2>1, <2>2 DEF ReportInv, StaleOnlyUntilReap, Agrees, kernel
    <2> QED
      BY <2>3, <2>4 DEF ReportInv
  <1> QED
    BY <1>3, <1>4

\* A rollback collects every process of its job, and of no other.
LEMMA RollbackReport ==
    ASSUME TypeOK, TableInv, ControlOK, ReportInv, Rollback
    PROVE  ReportInv'
  <1>a. /\ kst \in [Proc -> ProcStates]
        /\ note \in [Proc -> {"none", "stopped", "continued"}]
        /\ \A h \in jobs : members[h] \subseteq Proc
    BY DEF TypeOK, KernelTypeOK
  <1> DEFINE ps == members[cur] \cap Waitable
  <1>b. /\ \A q \in Proc : kst'[q] = IF q \in ps THEN "gone" ELSE kst[q]
        /\ \A q \in Proc : note'[q] = IF q \in ps THEN "none" ELSE note[q]
        /\ sigchld'
        /\ UNCHANGED <<kgrp, wcode, jobs, members, pst, wst, cur>>
        /\ pc' = "fail" /\ caller' = "execute"
    BY DEF Rollback, KillAndCollect, GoTo, table, ControlOK
  <1>c. pc = "rollback" /\ cur \in jobs
    BY DEF Rollback, ControlOK
  <1>d. \A h \in jobs : \A q \in members[h] : q \in ps => h = cur
    BY <1>c DEF TableInv, TableOK
  <1> HIDE DEF ps
  <1>1. ReportOK'
    BY <1>a, <1>b DEF ReportInv, ReportOK
  <1>2. CollectedOK'
    BY <1>a, <1>b, <1>c, <1>d DEF ReportInv, CollectedOK
  <1>3. StaleOnlyUntilReap'
    BY <1>b DEF StaleOnlyUntilReap
  <1> QED
    BY <1>1, <1>2, <1>3 DEF ReportInv

\* Every step keeps them.
LEMMA NextReport ==
    ASSUME TypeOK, TableInv, ControlOK, ReportInv, [Next]_vars
    PROVE  ReportInv'
  <1> USE DEF table, shell, tty
  <1>a. pc \notin {"loop", "reap"} => cur \in jobs
    BY DEF ControlOK
  <1>b. (pc \notin {"reap", "fail"} /\ UNCHANGED <<kernel, table>>) => ReportInv'
    BY StillReport DEF kernel
  <1>1. CASE World
    BY <1>1, WorldReport
  <1>2. CASE StartReap
    <2>1. UNCHANGED <<kst, kgrp, note, wcode, jobs, members, pst, wst>>
      BY <1>2 DEF StartReap
    <2>2. pc = "loop" /\ pc' = "reap" /\ todo' = Unfinished
      BY <1>2 DEF StartReap, Prompt
    <2>3. ReportOK' /\ CollectedOK'
      BY <2>1, <2>2 DEF ReportInv, ReportOK, CollectedOK
    <2>4. ASSUME NEW g \in jobs, NEW p \in members[g], ~Agrees(p)
          PROVE  p \in Unfinished
      BY <2>4 DEF Agrees, Unfinished, TableInv, DoneOK
    <2>5. StaleOnlyUntilReap'
      BY <2>1, <2>2, <2>4 DEF StaleOnlyUntilReap, Agrees
    <2> QED
      BY <2>3, <2>5 DEF ReportInv
  <1>3. CASE CleanupDone
    BY <1>3, DropReport DEF CleanupDone
  <1>4. CASE FgHandoff \/ FgModes \/ RestorePgrp \/ RestoreModes \/ WaitFails
             \/ WaitEnds
    <2>1. pc \notin {"reap", "fail"} /\ UNCHANGED <<kernel, table>>
      BY <1>4 DEF FgHandoff, FgModes, RestorePgrp, RestoreModes, WaitFails, WaitEnds
    <2> QED
      BY <2>1, <1>b
  <1>5. CASE FgContinue
    <2>1. CASE JobContinue(cur)
      BY <1>5, <2>1, <1>a, ContinueReport DEF FgContinue
    <2>2. CASE UNCHANGED <<kernel, table>>
      BY <1>5, <2>2, <1>b DEF FgContinue
    <2> QED
      BY <1>5, <2>1, <2>2 DEF FgContinue, JobContinueFails
  <1>6. ASSUME NEW p \in Proc, WaitReports(p)
        PROVE  ReportInv'
    <2>1. cur \in jobs /\ p \in Waitable /\ kgrp[p] = cur /\ jobs \subseteq Proc
      BY <1>6, <1>a DEF WaitReports, InGroup, TypeOK
    <2>2. p \in members[cur]
      BY <2>1, NoneAssumption DEF TableInv, Owned, TableOK
    <2> QED
      BY <1>6, <2>1, <2>2, ApplyReport DEF WaitReports, HasReport
  <1>7. CASE SaveModes
    BY <1>7, StillReport DEF SaveModes, kernel
  <1>8. CASE Finish
    <2>1. CASE Drop({cur})
      BY <1>8, <2>1, <1>a, DropReport DEF Finish
    <2>2. CASE UNCHANGED table
      BY <1>8, <2>2, <1>b DEF Finish
    <2> QED
      BY <1>8, <2>1, <2>2 DEF Finish
  <1>9. CASE Fail
    <2>1. CASE caller = "execute"
      BY <1>9, <2>1, <1>a, DropReport DEF Fail
    <2>2. CASE caller # "execute"
      <3>1. UNCHANGED <<kernel, table>> /\ pc = "fail"
        BY <1>9, <2>2 DEF Fail
      <3> QED
        BY <2>2, <3>1
           DEF kernel, ReportInv, ReportOK, CollectedOK, StaleOnlyUntilReap, Agrees
    <2> QED
      BY <2>1, <2>2
  <1>10. CASE ExecuteFails
    BY <1>10, StillReport DEF ExecuteFails, Prompt
  <1>11. CASE BuiltinFg \/ BuiltinReload \/ BuiltinExit
    <2>1. pc \notin {"reap", "fail"} /\ UNCHANGED <<kernel, table>>
      BY <1>11 DEF BuiltinFg, BuiltinReload, BuiltinExit, Prompt
    <2> QED
      BY <2>1, <1>b
  <1>12. CASE BuiltinBg
    <2>1. (UNCHANGED <<kernel, table>>) \/ (\E g \in jobs : JobContinue(g))
      BY <1>12 DEF BuiltinBg, JobContinueFails
    <2>2. pc = "loop"
      BY <1>12 DEF BuiltinBg, Prompt
    <2> QED
      BY <2>1, <2>2, <1>b, ContinueReport
  <1>13. CASE UNCHANGED vars
    BY <1>13 DEF vars, kernel, ReportInv, ReportOK, CollectedOK,
                 StaleOnlyUntilReap, Agrees
  <1> QED
    BY <1>1, <1>2, <1>3, <1>4, <1>5, <1>6, <1>7, <1>8, <1>9, <1>10, <1>11, <1>12,
       <1>13, ReapReport, RollbackReport, ExecuteReport
       DEF Next, Reap, Foreground, User, Launches, Terminated

---------------------------------------------------------------------------
(* The theorems.                                                           *)

\* A fresh shell satisfies the invariant.
LEMMA InitInv ==
    ASSUME Init
    PROVE  IndInv
  <1> USE DEF Init, KernelInit
  <1>1. TypeOK
    <2>1. sigchld \in BOOLEAN /\ tty_ok \in BOOLEAN /\ running \in BOOLEAN
      BY Zenon
    <2>2. wcode \in [Proc -> WaitStatus]
      BY WaitStatuses
    <2> QED
      BY <2>1, <2>2
         DEF TypeOK, KernelTypeOK, ProcStates, Statuses, Steps
  <1>2. TableOK /\ DoneOK /\ Owned /\ CollectedOK /\ StaleOnlyUntilReap
    BY DEF TableOK, DoneOK, Owned, Waitable, CollectedOK, StaleOnlyUntilReap
  <1>3. ControlOK /\ TerminalOK
    BY DEF ControlOK, TerminalOK
  <1>4. ReportOK
    BY DEF ReportOK, Exited
  <1> QED
    BY <1>1, <1>2, <1>3, <1>4 DEF IndInv

\* IndInv holds in every reachable state: the steps keep the types, the table,
\* the control points, the terminal and the reports together.
THEOREM Inductive == Spec => []IndInv
  <1>1. Init => IndInv
    BY InitInv
  <1>2. IndInv /\ [Next]_vars => IndInv'
    <2> SUFFICES ASSUME IndInv, [Next]_vars
                 PROVE  IndInv'
      OBVIOUS
    <2>0. /\ TypeOK /\ TableOK /\ TableInv /\ ControlOK /\ TerminalOK
          /\ ReportInv
      BY DEF IndInv, TableInv, ReportInv
    <2>1. TypeOK'
      BY <2>0, NextTypes
    <2>2. TableInv' /\ ControlOK'
      BY <2>0, <2>1, NextTable
    <2>3. TerminalOK'
      BY <2>0, NextTerminal
    <2>4. ReportInv'
      BY <2>0, NextReport
    <2> QED
      BY <2>1, <2>2, <2>3, <2>4 DEF IndInv, TableInv, ReportInv
  <1> QED
    BY <1>1, <1>2, PTL DEF Spec

\* Every variable of the job control keeps its type; in particular statuses
\* shown to the user are never negative (shell_normalize_status).
THEOREM TypeCorrect == Spec => []TypeOK
  <1>1. IndInv => TypeOK
    BY DEF IndInv
  <1> QED
    BY <1>1, Inductive, PTL

\* Whatever runs, is stopped or waits to be collected is an unfinished process
\* of a job in the table (job_reap, job_cleanup_done, rollback_*).
THEOREM ChildrenInTable == Spec => []NoChildForgotten
  <1>1. IndInv => NoChildForgotten
    BY DEF IndInv, Owned, DoneOK, Waitable, NoChildForgotten
  <1> QED
    BY <1>1, Inductive, PTL

\* A wrong entry of the table is corrected by a job_reap that is under way or
\* announced by a SIGCHLD, whoever consumed the wait status.
THEOREM TableCatchesUp == Spec => []StaleOnlyUntilReap
  <1>1. IndInv => StaleOnlyUntilReap
    BY DEF IndInv
  <1> QED
    BY <1>1, Inductive, PTL

\* At the prompt the shell owns the terminal and its modes (terminal_restore
\* on every path back to shell_run).
THEOREM PromptTerminal == Spec => []PromptOwnsTerminal
  <1>1. IndInv => PromptOwnsTerminal
    BY DEF IndInv, TerminalOK, PromptOwnsTerminal, Prompt
  <1> QED
    BY <1>1, Inductive, PTL

\* The job the shell waits for owns the terminal (execute_*, builtin_fg).
THEOREM ForegroundTerminal == Spec => []ForegroundOwnsTerminal
  <1>1. IndInv => ForegroundOwnsTerminal
    BY DEF IndInv, TerminalOK, ForegroundOwnsTerminal
  <1> QED
    BY <1>1, Inductive, PTL

\* What a foreground job gives as its status when it is removed is what its
\* last process ended with (job_exit_status, finish_foreground_job).
THEOREM LastProcessDecides == Spec => StatusOfLastProcess
  <1> DEFINE w == wcode[last[cur]]
             Decided == (pc = "finish" /\ jst[cur] = "DONE" /\ cur \notin jobs') =>
                 last_exit_status' = IF w.kind = "exited" THEN w.val
                                     ELSE 128 + w.val
  <1>1. IndInv /\ [Next]_vars => [Decided]_vars
    <2> SUFFICES ASSUME IndInv, [Next]_vars, pc = "finish", jst[cur] = "DONE",
                        cur \notin jobs'
                 PROVE  last_exit_status' = IF w.kind = "exited" THEN w.val
                                            ELSE 128 + w.val
      BY DEF vars
    <2>1. cur \in jobs /\ last[cur] \in members[cur] /\ members[cur] \subseteq Proc
      BY DEF IndInv, ControlOK, TableOK, TypeOK
    <2>2. Finish
      <3>1. ~World /\ ~UNCHANGED vars
        BY <2>1, WorldMoves DEF IndInv, table, vars
      <3>2. ~Reap /\ ~User /\ ~Terminated
        BY DEF Reap, StartReap, ReapOne, CleanupDone, User, Launches, Execute,
               ExecuteFails, BuiltinFg, BuiltinBg, BuiltinReload, BuiltinExit,
               Prompt, Terminated
      <3>3. Foreground
        BY <3>1, <3>2 DEF Next
      <3> QED
        BY <3>3 DEF Foreground, FgHandoff, FgModes, FgContinue, WaitReports,
                    WaitFails, Rollback, WaitEnds, SaveModes, RestorePgrp,
                    RestoreModes, Fail
    <2>3. wst[last[cur]] = w /\ w.kind \in {"exited", "signaled"} /\ w.val \in Nat
      <3>1. wst[last[cur]] = w
        BY <2>1 DEF IndInv, DoneOK, CollectedOK
      <3>2. w \in WaitStatus /\ w.kind \in {"exited", "signaled"}
        BY <2>1 DEF IndInv, ReportOK, TypeOK, KernelTypeOK
      <3> QED
        BY <3>1, <3>2 DEF WaitStatus
    <2>4. last_exit_status' = Normalize(ExitStatus(cur))
      BY <2>2 DEF Finish, Return
    <2> QED
      BY <2>3, <2>4 DEF Normalize, ExitStatus
  <1> QED
    BY <1>1, Inductive, PTL DEF Spec, StatusOfLastProcess

---------------------------------------------------------------------------
(* The job limit, and what job_shutdown is handed.                         *)

\* A step that adds no job: a job that stays keeps its processes; its status
\* is left alone or computed anew, and one that is DONE stays DONE.
NoNewJob ==
    /\ jobs' \subseteq jobs
    /\ \A g \in jobs' :
         /\ members'[g] = members[g]
         /\ \/ jst'[g] = jst[g] /\ \A p \in members[g] : pst'[p] = pst[p]
            \/ /\ jst'[g] = JobStatus(members[g], pst')
               /\ jst[g] = "DONE" => jst'[g] = "DONE"

\* Storing the report of an unfinished process touches its own job only,
LEMMA ApplyNoNewJob ==
    ASSUME TypeOK, TableInv, ReportOK, NEW g \in jobs, NEW p \in members[g],
           HasReport(p, {"stopped", "continued"}), Apply(p, g, Report(p))
    PROVE  NoNewJob
  <1>0. p \in Proc /\ g \in Proc
    BY DEF TypeOK
  <1>1. jst[g] # "DONE"
    BY <1>0 DEF HasReport, ReportOK, TableInv, DoneOK
  <1>2. UNCHANGED <<jobs, members>> /\ jst'[g] = JobStatus(members[g], pst')
    BY <1>0 DEF Apply, TypeOK
  <1>3. ASSUME NEW h \in jobs, h # g
        PROVE  jst'[h] = jst[h] /\ \A q \in members[h] : pst'[q] = pst[q]
    <2>1. p \notin members[h]
      BY <1>3 DEF TableInv, TableOK
    <2> QED
      BY <2>1, <1>3 DEF Apply, TypeOK
  <1> QED
    BY <1>1, <1>2, <1>3 DEF NoNewJob

\* as does the continuation of a stopped job;
LEMMA ContinueNoNewJob ==
    ASSUME TypeOK, TableInv, NEW g \in jobs, JobContinue(g)
    PROVE  NoNewJob
  <1>1. UNCHANGED <<jobs, members>> /\ jst'[g] = JobStatus(members[g], pst')
    BY DEF JobContinue, TypeOK
  <1>2. ASSUME NEW h \in jobs, h # g
        PROVE  jst'[h] = jst[h] /\ \A q \in members[h] : pst'[q] = pst[q]
    <2>1. \A q \in members[h] : q \in Proc /\ q \notin members[g]
      BY <1>2 DEF TypeOK, TableInv, TableOK
    <2> QED
      BY <2>1, <1>2 DEF JobContinue, TypeOK
  <1> QED
    BY <1>1, <1>2 DEF NoNewJob, JobContinue

\* the removal of jobs leaves the entries of the others alone;
LEMMA DropNoNewJob ==
    ASSUME TypeOK, TableInv, NEW G \in SUBSET jobs, Drop(G)
    PROVE  NoNewJob
  <1> SUFFICES ASSUME NEW h \in jobs'
               PROVE  /\ members'[h] = members[h] /\ jst'[h] = jst[h]
                      /\ \A p \in members[h] : pst'[p] = pst[p]
    BY DEF NoNewJob, Drop
  <1>1. h \in jobs /\ h \notin G /\ h \in Proc
    BY DEF Drop, TypeOK
  <1>2. \A p \in members[h] : p \in Proc /\ p \notin UNION {members[g] : g \in G}
    BY <1>1 DEF TypeOK, TableInv, TableOK
  <1> QED
    BY <1>1, <1>2 DEF Drop

\* and an ECHILD of job_reap can only finish a job.
LEMMA EchildNoNewJob ==
    ASSUME TypeOK, TypeOK', TableInv, NEW g \in jobs, NEW p \in members[g],
           pst' = [pst EXCEPT ![p] = "DONE"],
           jst' = [jst EXCEPT ![g] = JobStatus(members[g], pst')],
           UNCHANGED <<jobs, members>>
    PROVE  NoNewJob
  <1>0. p \in Proc /\ g \in Proc
    BY DEF TypeOK
  <1>1. jst'[g] = JobStatus(members[g], pst')
    BY <1>0 DEF TypeOK
  <1>2. ASSUME jst[g] = "DONE"
        PROVE  jst'[g] = "DONE"
    <2>1. \A q \in members[g] : pst'[q] = "DONE"
      BY <1>2, <1>0 DEF TypeOK, TableInv, DoneOK
    <2> QED
      BY <1>1, <2>1 DEF JobStatus
  <1>3. ASSUME NEW h \in jobs, h # g
        PROVE  jst'[h] = jst[h] /\ \A q \in members[h] : pst'[q] = pst[q]
    <2>1. p \notin members[h]
      BY <1>3 DEF TableInv, TableOK
    <2> QED
      BY <2>1, <1>3 DEF TypeOK
  <1> QED
    BY <1>1, <1>2, <1>3 DEF NoNewJob

\* Only a launch adds a job.
LEMMA OnlyLaunchAdds ==
    ASSUME IndInv, TypeOK', [Next]_vars
    PROVE  NoNewJob \/ Launches
  <1> USE DEF table, shell, tty
  <1>0. TypeOK /\ TableInv /\ ReportOK /\ ControlOK
    BY DEF IndInv, TableInv
  <1>a. pc \notin {"loop", "reap"} => cur \in jobs
    BY <1>0 DEF ControlOK
  <1>b. UNCHANGED table => NoNewJob
    BY DEF NoNewJob
  <1>1. CASE World
    BY <1>1, <1>0, <1>b, WorldMoves
  <1>2. CASE StartReap
    BY <1>2, <1>b DEF StartReap
  <1>3. ASSUME NEW p \in Proc, ReapOne(p)
        PROVE  NoNewJob
    <2>1. JobOf(p) \in jobs /\ p \in members[JobOf(p)]
      BY <1>0, <1>3, JobOfIn DEF ReapOne, ControlOK
    <2>2. CASE /\ HasReport(p, {"stopped", "continued"})
               /\ Apply(p, JobOf(p), Report(p))
      BY <2>1, <2>2, <1>0, ApplyNoNewJob
    <2>3. CASE /\ pst' = [pst EXCEPT ![p] = "DONE"]
               /\ jst' = [jst EXCEPT ![JobOf(p)] =
                                       JobStatus(members[JobOf(p)], pst')]
               /\ UNCHANGED <<jobs, members>>
      BY <2>1, <2>3, <1>0, EchildNoNewJob
    <2>4. CASE UNCHANGED table
      BY <2>4, <1>b
    <2> QED
      BY <1>3, <2>2, <2>3, <2>4 DEF ReapOne
  <1>4. CASE CleanupDone
    BY <1>4, <1>0, DropNoNewJob DEF CleanupDone
  <1>5. CASE FgHandoff \/ FgModes \/ RestorePgrp \/ RestoreModes \/ WaitFails
             \/ WaitEnds \/ Rollback \/ SaveModes
    BY <1>5, <1>b DEF FgHandoff, FgModes, RestorePgrp, RestoreModes, WaitFails,
                      WaitEnds, Rollback, SaveModes, NoNewJob
  <1>6. CASE FgContinue
    BY <1>6, <1>0, <1>a, <1>b, ContinueNoNewJob DEF FgContinue, JobContinueFails
  <1>7. ASSUME NEW p \in Proc, WaitReports(p)
        PROVE  NoNewJob
    <2>1. cur \in jobs /\ p \in Waitable /\ kgrp[p] = cur /\ cur \in Proc
      BY <1>7, <1>a, <1>0 DEF WaitReports, InGroup, TypeOK
    <2>2. p \in members[cur]
      BY <2>1, <1>0, NoneAssumption DEF TableInv, Owned, TableOK
    <2>3. HasReport(p, {"stopped", "continued"})
      BY <1>7 DEF WaitReports, HasReport
    <2> QED
      BY <1>7, <1>0, <2>1, <2>2, <2>3, ApplyNoNewJob DEF WaitReports
  <1>8. CASE Finish \/ Fail
    BY <1>8, <1>0, <1>a, <1>b, DropNoNewJob DEF Finish, Fail
  <1>9. CASE ExecuteFails \/ BuiltinFg \/ BuiltinReload \/ BuiltinExit
    BY <1>9, <1>b DEF ExecuteFails, BuiltinFg, BuiltinReload, BuiltinExit
  <1>10. CASE BuiltinBg
    <2>1. (UNCHANGED table) \/ (\E g \in jobs : JobContinue(g))
      BY <1>10 DEF BuiltinBg, JobContinueFails
    <2> QED
      BY <2>1, <1>0, <1>b, ContinueNoNewJob
  <1>11. CASE UNCHANGED vars
    BY <1>11, <1>b DEF vars
  <1> QED
    BY <1>1, <1>2, <1>3, <1>4, <1>5, <1>6, <1>7, <1>8, <1>9, <1>10, <1>11
    DEF Next, Reap, Foreground, User, Terminated

\* A launch adds one job, which is running, and touches no other.
LEMMA LaunchAdds ==
    ASSUME IndInv, Launches
    PROVE  \E g \in Proc :
             /\ jobs' = jobs \cup {g} /\ jst'[g] = JobStatus(members'[g], pst')
             /\ \A h \in jobs :
                  /\ h # g /\ members'[h] = members[h] /\ jst'[h] = jst[h]
                  /\ \A p \in members[h] : pst'[p] = pst[p]
  <1>0. PICK ps \in SUBSET {p \in Proc : kst[p] = "unborn"} :
          \E g, l \in ps, background \in BOOLEAN : Execute(ps, g, l, background)
    BY DEF Launches
  <1>1. PICK g \in ps, l \in ps, background \in BOOLEAN :
          Execute(ps, g, l, background)
    BY <1>0
  <1>2. \A h \in jobs : h # g /\ \A p \in members[h] : p \in Proc /\ p \notin ps
    BY DEF IndInv, TypeOK, TableOK
  <1>3. jobs' = jobs \cup {g} /\ jst'[g] = JobStatus(members'[g], pst')
    BY <1>1 DEF Execute, JobStatus, IndInv, TypeOK
  <1>4. ASSUME NEW h \in jobs
        PROVE  /\ h # g /\ members'[h] = members[h] /\ jst'[h] = jst[h]
               /\ \A p \in members[h] : pst'[p] = pst[p]
    BY <1>1, <1>2 DEF Execute, IndInv, TypeOK
  <1> QED
    BY <1>3, <1>4

\* The statuses of the jobs are what job_update_status makes of their processes.
StatusOK == \A g \in jobs : jst[g] = JobStatus(members[g], pst)

\* Equal entries give an equal status.
LEMMA SameStatus ==
    ASSUME NEW ps, NEW s, NEW t, \A p \in ps : s[p] = t[p]
    PROVE  JobStatus(ps, s) = JobStatus(ps, t)
  BY DEF JobStatus

\* The table is finite, and its statuses are up to date, in every state.
THEOREM StatusesUpToDate == Spec => [](IsFiniteSet(jobs) /\ StatusOK)
  <1>1. Init => IsFiniteSet(jobs) /\ StatusOK
    BY FS_EmptySet DEF Init, StatusOK
  <1>2. /\ IndInv /\ IndInv' /\ [Next]_vars /\ IsFiniteSet(jobs) /\ StatusOK
        => IsFiniteSet(jobs)' /\ StatusOK'
    <2> SUFFICES ASSUME IndInv, IndInv', [Next]_vars, IsFiniteSet(jobs), StatusOK
                 PROVE  IsFiniteSet(jobs') /\ StatusOK'
      OBVIOUS
    <2>1. CASE NoNewJob
      <3>1. IsFiniteSet(jobs')
        BY <2>1, FS_Subset DEF NoNewJob
      <3>2. ASSUME NEW g \in jobs'
            PROVE  jst'[g] = JobStatus(members'[g], pst')
        BY <2>1, SameStatus DEF NoNewJob, StatusOK
      <3> QED
        BY <3>1, <3>2 DEF StatusOK
    <2>2. CASE Launches
      <3>1. PICK g \in Proc :
              /\ jobs' = jobs \cup {g} /\ jst'[g] = JobStatus(members'[g], pst')
              /\ \A h \in jobs :
                   /\ h # g /\ members'[h] = members[h] /\ jst'[h] = jst[h]
                   /\ \A p \in members[h] : pst'[p] = pst[p]
        BY <2>2, LaunchAdds
      <3>2. IsFiniteSet(jobs')
        BY <3>1, FS_AddElement
      <3>3. ASSUME NEW h \in jobs'
            PROVE  jst'[h] = JobStatus(members'[h], pst')
        BY <3>1, SameStatus DEF StatusOK
      <3> QED
        BY <3>2, <3>3 DEF StatusOK
    <2> QED
      BY <2>1, <2>2, OnlyLaunchAdds DEF IndInv
  <1> QED
    BY <1>1, <1>2, Inductive, PTL DEF Spec

\* check_job_limit: no step takes the number of active jobs above max_job.  Only
\* a launch adds an active job, and it asked for the number before; no step of
\* job_reap, fg or bg brings a finished job back.
THEOREM JobLimit == Spec => LimitRespected
  <1> DEFINE Step == Cardinality(Active') > Cardinality(Active)
                       => Cardinality(Active') <= max_job
  <1>1. IndInv /\ IndInv' /\ [Next]_vars /\ IsFiniteSet(jobs) => Step
    <2> SUFFICES ASSUME IndInv, IndInv', [Next]_vars, IsFiniteSet(jobs)
                 PROVE  Step
      OBVIOUS
    <2>0. IsFiniteSet(Active) /\ Cardinality(Active) \in Nat
      BY FS_Subset, FS_CardinalityType DEF Active
    <2>1. CASE NoNewJob
      <3>1. Active' \subseteq Active
        BY <2>1 DEF NoNewJob, Active, IndInv, TypeOK, Statuses
      <3>2. Cardinality(Active') <= Cardinality(Active) /\ Cardinality(Active') \in Nat
        BY <2>0, <3>1, FS_Subset, FS_CardinalityType
      <3> QED
        BY <2>0, <3>2
    <2>2. CASE Launches
      <3>1. PICK g \in Proc :
              /\ jobs' = jobs \cup {g} /\ jst'[g] = JobStatus(members'[g], pst')
              /\ \A h \in jobs :
                   /\ h # g /\ members'[h] = members[h] /\ jst'[h] = jst[h]
                   /\ \A p \in members[h] : pst'[p] = pst[p]
        BY <2>2, LaunchAdds
      <3>2. Active' \subseteq Active \cup {g}
        BY <3>1 DEF Active
      <3>3. /\ IsFiniteSet(Active \cup {g})
            /\ Cardinality(Active \cup {g}) \in Nat
            /\ Cardinality(Active \cup {g}) <= Cardinality(Active) + 1
        <4>1. Cardinality(Active \cup {g}) =
                IF g \in Active THEN Cardinality(Active) ELSE Cardinality(Active) + 1
          BY <2>0, FS_AddElement
        <4> QED
          BY <2>0, <4>1, FS_AddElement
      <3>4. /\ Cardinality(Active') <= Cardinality(Active \cup {g})
            /\ Cardinality(Active') \in Nat
        BY <3>2, <3>3, FS_Subset, FS_CardinalityType
      <3>5. Cardinality(Active) < max_job /\ max_job \in Nat
        BY <2>2, JobLimitsAssumption
        DEF Launches, Execute, BelowLimit, IndInv, TypeOK
      <3> QED
        BY <2>0, <3>3, <3>4, <3>5
    <2> QED
      BY <2>1, <2>2, OnlyLaunchAdds DEF IndInv
  <1> QED
    BY <1>1, Inductive, StatusesUpToDate, PTL DEF Spec, LimitRespected

\* What JobShutdown starts from: the jobs have their statuses, their processes
\* are in no other job and are not unborn, each entry is one that a process in
\* that state may have, and no child is outside the table.
ShutdownTable ==
    /\ StatusOK /\ NoChildForgotten
    /\ \A g, h \in jobs : g # h => members[g] \cap members[h] = {}
    /\ \A p \in Proc : /\ note[p] = "stopped" => kst[p] = "stopped"
                       /\ note[p] = "continued" => kst[p] = "running"
    /\ \A g \in jobs : \A p \in members[g] :
         /\ kst[p] # "unborn"
         /\ pst[p] \in Recorded(kst[p], note[p], kgrp[p] # g)

\* When shell_run ends, job_shutdown is handed such a table.
THEOREM ReadyForShutdown == Spec => [](pc = "loop" => ShutdownTable)
  <1>1. IndInv /\ StatusOK => (pc = "loop" => ShutdownTable)
    <2> SUFFICES ASSUME IndInv, StatusOK, pc = "loop"
                 PROVE  ShutdownTable
      OBVIOUS
    <2>1. NoChildForgotten
      BY DEF IndInv, Owned, DoneOK, Waitable, NoChildForgotten
    <2>2. \A g, h \in jobs : g # h => members[g] \cap members[h] = {}
      BY DEF IndInv, TableOK
    <2>3. ASSUME NEW g \in jobs, NEW p \in members[g]
          PROVE  /\ kst[p] # "unborn"
                 /\ pst[p] \in Recorded(kst[p], note[p], kgrp[p] # g)
      <3>1. p \in Proc /\ kst[p] \in ProcStates \ {"unborn"} /\ pst[p] \in Statuses
        BY DEF IndInv, TypeOK, KernelTypeOK, TableOK
      <3>2. pst[p] = "DONE" <=> kst[p] = "gone"
        BY DEF IndInv, DoneOK, CollectedOK
      <3>3. kgrp[p] = g =>
              /\ kst[p] = "running" /\ pst[p] # "RUNNING" => note[p] = "continued"
              /\ kst[p] = "stopped" /\ pst[p] # "STOPPED" => note[p] = "stopped"
        BY DEF IndInv, ReportOK
      <3> QED
        BY <3>1, <3>2, <3>3 DEF Recorded, ProcStates, Statuses
    <2> QED
      BY <2>1, <2>2, <2>3 DEF ShutdownTable, IndInv, ReportOK
  <1> QED
    BY <1>1, Inductive, StatusesUpToDate, PTL
=============================================================================
