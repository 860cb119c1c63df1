---------------------------- MODULE JobShutdown ----------------------------
(***************************************************************************)
(* job_shutdown of src/job.c, which shell_context_destroy runs when the    *)
(* shell ends: SIGCONT to stopped jobs, SIGTERM to every group, a bounded  *)
(* number of attempts to collect, SIGKILL, and a blocking waitpid for each *)
(* process that is left.                                                   *)
(*                                                                         *)
(* It starts from any table the invariants of JobControl allow: entries    *)
(* may be stale when the kernel holds a report nobody has collected.       *)
(***************************************************************************)
EXTENDS ProcessKernel

CONSTANTS
    Jobs,           \* pgids of the jobs in the table
    Members,        \* the processes of each job
    Leavers,        \* processes that have left their job's process group
    Retries         \* JOB_SHUTDOWN_RETRY_COUNT (50)

ASSUME JobsAssumption == Jobs \subseteq Proc /\ Members \in [Jobs -> SUBSET Proc]
ASSUME MembersAssumption ==
    /\ Proc = UNION {Members[g] : g \in Jobs}
    /\ \A g, h \in Jobs : g # h => Members[g] \cap Members[h] = {}
ASSUME RetriesAssumption == Retries \in Nat \ {0}

VARIABLES
    jobs, jst, pst, \* the table: JobManager, Job.status, Process.status
    term,           \* processes with a SIGTERM they have not reacted to
    stray,          \* jobs with a descendant of a process alive in the group
    step, tries, awaited

table == <<jobs, jst, pst>>
shutdown_vars  == <<kernel, table, term, stray, step, tries, awaited>>

Statuses == {"RUNNING", "STOPPED", "DONE"}
SIGTERM  == 15

JobStatus(g, st) ==
    IF \E p \in Members[g] : st[p] = "RUNNING" THEN "RUNNING"
    ELSE IF \E p \in Members[g] : st[p] = "STOPPED" THEN "STOPPED"
    ELSE "DONE"

Update(st) == [g \in Jobs |-> JobStatus(g, st)]

ShutdownTypeOK ==
    /\ KernelTypeOK
    /\ jobs \subseteq Jobs
    /\ jst \in [Jobs -> Statuses] /\ pst \in [Proc -> Statuses]
    /\ term \subseteq Proc /\ stray \subseteq Jobs
    /\ step \in {"continue", "terminate", "try", "sleep", "kill", "force", "end"}
    /\ tries \in 0..Retries
    /\ awaited \subseteq Proc

InitProcess == [k : {"running", "stopped", "zombie", "gone"},
                report : {"none", "stopped", "continued"}]

PossibleProcess(x) ==
    /\ x.report = "stopped" => x.k = "stopped"
    /\ x.report = "continued" => x.k = "running"

ShutdownInit ==
    \E f \in [Proc -> {x \in InitProcess : PossibleProcess(x)}] :
      /\ kst = [p \in Proc |-> f[p].k]
      /\ note = [p \in Proc |-> f[p].report]
      /\ pst \in [Proc -> Statuses]
      /\ \A p \in Proc : pst[p] \in Recorded(f[p].k, f[p].report, p \in Leavers)
      /\ kgrp = [p \in Proc |-> IF p \in Leavers THEN None
                                ELSE CHOOSE g \in Jobs : p \in Members[g]]
      /\ wcode = [p \in Proc |-> Exited(0)]
      /\ sigchld = TRUE
      /\ jobs = Jobs
      /\ jst = Update(pst)
      /\ term = {} /\ stray \in SUBSET Jobs
      /\ step = "continue" /\ tries = 0 /\ awaited = {}

---------------------------------------------------------------------------
(* The processes.  A stopped process reacts to SIGTERM once continued; a   *)
(* process may catch or ignore it, and may end or stop by itself.          *)

ProcessEnds(p) ==
    /\ kst[p] = "running"
    /\ Terminate({p}, IF p \in term THEN Signaled(SIGTERM) ELSE Exited(0))
    /\ term' = term \ {p}
    /\ UNCHANGED <<table, stray, step, tries, awaited>>

IgnoresTerm(p) ==
    /\ kst[p] = "running" /\ p \in term
    /\ term' = term \ {p}
    /\ UNCHANGED <<kernel, table, stray, step, tries, awaited>>

ProcessStops(p) ==
    /\ kst[p] = "running"
    /\ Stop({p})
    /\ UNCHANGED <<table, term, stray, step, tries, awaited>>

---------------------------------------------------------------------------
(* job_shutdown.                                                           *)

\* continue_stopped_job for every STOPPED job.
ContinueStopped ==
    /\ step = "continue"
    /\ LET stopped == {g \in jobs : jst[g] = "STOPPED"}
           ps      == UNION {Members[g] : g \in stopped}
       IN  /\ Continue(UNION {InGroup(g) : g \in stopped})
           /\ pst' = [p \in Proc |-> IF p \in ps /\ pst[p] = "STOPPED"
                                     THEN "RUNNING" ELSE pst[p]]
           /\ jst' = Update(pst')
    /\ step' = "terminate"
    /\ UNCHANGED <<jobs, term, stray, tries, awaited>>

\* SIGTERM to the group of every job that is not DONE.
TerminateGroups ==
    /\ step = "terminate"
    /\ LET groups == {g \in jobs : jst[g] # "DONE"}
       IN  /\ term' = Alive \cap UNION {InGroup(g) : g \in groups}
           /\ stray' \in {stray, stray \ groups}
    /\ step' = "try"
    /\ UNCHANGED <<kernel, table, tries, awaited>>

Collected == {p \in Proc : pst[p] # "DONE" /\ kst[p] = "zombie"}

\* jobmanager_try_reap_all: waitpid(WNOHANG) for every unfinished process.
TryReapAll ==
    /\ step = "try"
    /\ kst' = [p \in Proc |-> IF p \in Collected THEN "gone" ELSE kst[p]]
    /\ pst' = [p \in Proc |-> IF p \in Collected \/ kst[p] = "gone"
                              THEN "DONE" ELSE pst[p]]
    /\ jst' = Update(pst')
    /\ step' = IF \A p \in Proc : pst'[p] = "DONE" THEN "kill" ELSE "sleep"
    /\ UNCHANGED <<kgrp, note, wcode, sigchld, jobs, term, stray, tries, awaited>>

\* shutdown_sleep, and the loop's bound.
Sleep ==
    /\ step = "sleep"
    /\ tries' = tries + 1
    /\ step' = IF tries + 1 < Retries THEN "try" ELSE "kill"
    /\ UNCHANGED <<kernel, table, term, stray, awaited>>

\* Seeded bugs: groups of DONE jobs are not killed; only running jobs are.
KillList_running == {g \in jobs : jst[g] = "RUNNING"}

KillList_unfinished == {g \in jobs : jst[g] # "DONE"}

\* SIGKILL goes to the group of every job, finished or not.
KillList == jobs

\* Seeded bug: processes the table has as STOPPED are not waited for.
ForceList_running == {p \in Proc : pst[p] = "RUNNING"}

\* The processes the last loop waits for.
ForceList == {p \in Proc : pst[p] # "DONE"}

KillGroups ==
    /\ step = "kill"
    /\ LET ps == Alive \cap UNION {InGroup(g) : g \in KillList}
       IN  /\ kst' = [p \in Proc |-> IF p \in ps THEN "zombie" ELSE kst[p]]
           /\ wcode' = [p \in Proc |-> IF p \in ps THEN Signaled(SIGKILL)
                                                   ELSE wcode[p]]
           /\ note' = [p \in Proc |-> IF p \in ps THEN "none" ELSE note[p]]
           /\ term' = term \ ps
    /\ stray' = stray \ KillList
    /\ awaited' = ForceList
    /\ step' = "force"
    /\ UNCHANGED <<kgrp, sigchld, table, tries>>

\* process_force_reap: waitpid blocks until p has terminated.
ForceReap(p) ==
    /\ step = "force" /\ p \in awaited
    /\ kst[p] \in {"zombie", "gone"}
    /\ kst' = [kst EXCEPT ![p] = "gone"]
    /\ awaited' = awaited \ {p}
    /\ pst' = [pst EXCEPT ![p] = "DONE"]
    /\ jst' = Update(pst')
    /\ UNCHANGED <<kgrp, note, wcode, sigchld, jobs, term, stray, step, tries>>

\* job_destroy
Destroy ==
    /\ step = "force" /\ awaited = {}
    /\ jobs' = {}
    /\ step' = "end"
    /\ UNCHANGED <<kernel, jst, pst, term, stray, tries, awaited>>

---------------------------------------------------------------------------
Shutdown ==
    \/ ContinueStopped \/ TerminateGroups \/ TryReapAll \/ Sleep \/ KillGroups
    \/ (\E p \in Proc : ForceReap(p)) \/ Destroy

\* Waiting in waitpid for a process that does not end is not a deadlock of
\* the model: the shell is blocked, the process lives on.
Blocked == step \in {"force", "end"} /\ UNCHANGED shutdown_vars

ShutdownNext ==
    \/ Shutdown
    \/ \E p \in Proc : ProcessEnds(p) \/ IgnoresTerm(p) \/ ProcessStops(p)
    \/ Blocked

ShutdownSpec == ShutdownInit /\ [][ShutdownNext]_shutdown_vars

\* Only the shell is obliged to go on; no process has to end by itself.
FairShutdownSpec == ShutdownSpec /\ WF_shutdown_vars(Shutdown)

---------------------------------------------------------------------------
(* Properties.                                                             *)

\* When job_shutdown returns, no direct child is left, running or zombie.
NoChildLeft == step = "end" => Waitable = {}

\* docs/architecture.md: descendants that stayed in a job's group are ended
\* too, even when the job's own processes had finished.
NoStrayDescendant == step \in {"force", "end"} => stray = {}

\* docs/module.md: TERM, a bounded wait, KILL, and the direct children are
\* collected: job_shutdown returns.
ShutdownReturns == <>(step = "end")
=============================================================================
