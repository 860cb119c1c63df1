----------------------------- MODULE JobControl -----------------------------
(***************************************************************************)
(* Job control of the shell: the job table of src/job.c, the foreground    *)
(* wait and its end (src/executor.c), the builtins fg, bg and reload       *)
(* (src/builtin.c) and the hand-over of the terminal (src/terminal.c), for *)
(* an interactive shell.  Processes stop, continue and die at any moment.  *)
(*                                                                         *)
(* A job is known by its pgid.  The code keeps jobs in a list that job_add *)
(* prepends to, with ids from nextid++: the list order is the descending   *)
(* order of jid, and "first in the list" is "greatest jid".                *)
(*                                                                         *)
(* Signals reach the main loop as SignalEvent describes; here sigchld says *)
(* that a SIGCHLD is on its way or waiting.  The steps of a launch are in  *)
(* module Launch; here a launch has its outcome at once.                   *)
(***************************************************************************)
EXTENDS ProcessKernel

CONSTANTS
    Shell,          \* the shell's own process group
    Leavers,        \* processes that may leave their process group
    TtyMayFail,     \* the terminal may be lost
    ExitCodes,      \* codes a process may exit with
    MaxPipeline,    \* bound: processes of one job
    JobLimits       \* values max_job may take

ASSUME ShellAssumption     == Shell \notin Proc \cup {None}
ASSUME TtyMayFailAssumption == TtyMayFail \in BOOLEAN
ASSUME ExitCodesAssumption == ExitCodes \subseteq Nat
ASSUME JobLimitsAssumption == JobLimits \subseteq Nat \ {0} /\ JobLimits # {}

VARIABLES
    jobs,               \* the pgids in the table
    nextid, jid,        \* JobManager.nextid, Job.id
    members, last,      \* Job.processes: as a set, and the last of the list
    jst,                \* Job.status
    pst, wst,           \* Process.status and wait_status (with its validity)
    saved,              \* Job.terminal_modes, None when not valid
    owner, modes,       \* the terminal's foreground group and its modes
    tty_ok,             \* FALSE once terminal calls fail (EIO)
    pc, caller, cur,    \* the shell's step, the function it is in, its job
    todo,               \* processes job_reap has still to ask for
    running,            \* ctx->running
    max_job,            \* ctx->config.max_job
    last_exit_status

table == <<jobs, nextid, jid, members, last, jst, pst, wst, saved>>
tty   == <<owner, modes, tty_ok>>
shell == <<pc, caller, cur, todo, running, max_job, last_exit_status>>
vars  == <<kernel, table, tty, shell>>

NoStatus == [kind |-> "none", val |-> 0]
Statuses == {"RUNNING", "STOPPED", "DONE"}
Steps == {"loop", "reap", "handoff", "modes", "continue", "wait", "rollback",
          "save", "restore_pgrp", "restore_modes", "finish", "fail"}

TypeOK ==
    /\ KernelTypeOK
    /\ jobs \subseteq Proc
    /\ nextid \in Nat \ {0}
    /\ jid \in [Proc -> Nat]
    /\ members \in [Proc -> SUBSET Proc]
    /\ last \in [Proc -> Proc \cup {None}]
    /\ jst \in [Proc -> Statuses]
    /\ pst \in [Proc -> Statuses]
    /\ wst \in [Proc -> WaitStatus \cup {NoStatus}]
    /\ saved \in [Proc -> Proc \cup {Shell, None}]
    /\ owner \in Proc \cup {Shell}
    /\ modes \in Proc \cup {Shell}
    /\ tty_ok \in BOOLEAN
    /\ pc \in Steps
    /\ caller \in {"none", "execute", "fg"}
    /\ cur \in Proc \cup {None}
    /\ todo \subseteq Proc
    /\ running \in BOOLEAN
    /\ max_job \in JobLimits
    /\ last_exit_status \in Nat

Init ==
    /\ KernelInit
    /\ jobs = {} /\ nextid = 1
    /\ jid = [p \in Proc |-> 0]
    /\ members = [p \in Proc |-> {}]
    /\ last = [p \in Proc |-> None]
    /\ jst = [p \in Proc |-> "RUNNING"]
    /\ pst = [p \in Proc |-> "RUNNING"]
    /\ wst = [p \in Proc |-> NoStatus]
    /\ saved = [p \in Proc |-> None]
    /\ owner = Shell /\ modes = Shell /\ tty_ok = TRUE
    /\ pc = "loop" /\ caller = "none" /\ cur = None /\ todo = {}
    /\ running = TRUE
    /\ max_job \in JobLimits
    /\ last_exit_status = 0

---------------------------------------------------------------------------
(* What the world does to the shell's children and its terminal.           *)

OutsideUnchanged == UNCHANGED <<table, tty, shell>>

ProcessExits(p) ==
    /\ kst[p] = "running"
    /\ \E c \in ExitCodes : Terminate({p}, Exited(c))
    /\ OutsideUnchanged

ProcessKilled(p) ==
    /\ p \in Alive
    /\ Terminate({p}, Signaled(SIGKILL))
    /\ OutsideUnchanged

\* SIGSTOP from outside, or SIGTTIN for a background process that reads.
ProcessStops(p) ==
    /\ kst[p] = "running"
    /\ Stop({p})
    /\ OutsideUnchanged

ProcessContinued(p) ==
    /\ kst[p] = "stopped"
    /\ Continue({p})
    /\ OutsideUnchanged

\* setsid or setpgid in the program itself.
LeavesGroup(p) ==
    /\ p \in Leavers /\ kst[p] = "running" /\ kgrp[p] # None
    /\ kgrp' = [kgrp EXCEPT ![p] = None]
    /\ UNCHANGED <<kst, note, wcode, sigchld>>
    /\ OutsideUnchanged

Runners(g) == {p \in Proc : kst[p] = "running" /\ kgrp[p] = g}

CtrlZ ==
    /\ owner # Shell /\ Runners(owner) # {}
    /\ Stop(Runners(owner))
    /\ OutsideUnchanged

CtrlC ==
    /\ owner # Shell /\ Runners(owner) # {}
    /\ Terminate(Runners(owner), Signaled(SIGINT))
    /\ OutsideUnchanged

\* The foreground group (a grandchild in it too) may set the terminal modes.
ForegroundSetsModes ==
    /\ owner # Shell /\ tty_ok
    /\ modes' = owner
    /\ UNCHANGED <<kernel, table, owner, tty_ok, shell>>

TtyLost ==
    /\ TtyMayFail /\ tty_ok
    /\ tty_ok' = FALSE
    /\ UNCHANGED <<kernel, table, owner, modes, shell>>

World ==
    \/ \E p \in Proc :
         \/ ProcessExits(p) \/ ProcessKilled(p)
         \/ ProcessStops(p) \/ ProcessContinued(p)
         \/ LeavesGroup(p)
    \/ CtrlZ \/ CtrlC \/ ForegroundSetsModes \/ TtyLost

---------------------------------------------------------------------------
(* Operations of job.c on the table.                                       *)

\* job_update_status
JobStatus(ps, st) ==
    IF \E p \in ps : st[p] = "RUNNING" THEN "RUNNING"
    ELSE IF \E p \in ps : st[p] = "STOPPED" THEN "STOPPED"
    ELSE "DONE"

\* Seeded bug: a stop is taken for a termination.
StatusOf_stop_is_done(w) ==
    IF w.kind = "continued" THEN "RUNNING" ELSE "DONE"

\* process_apply_wait_status: the Process.status a wait status stands for.
StatusOf(w) ==
    CASE w.kind \in {"exited", "signaled"} -> "DONE"
      [] w.kind = "stopped"                -> "STOPPED"
      [] w.kind = "continued"              -> "RUNNING"

\* Store a wait status for p of job g, then job_update_status.
Apply(p, g, w) ==
    /\ pst' = [pst EXCEPT ![p] = StatusOf(w)]
    /\ wst' = [wst EXCEPT ![p] = w]
    /\ jst' = [jst EXCEPT ![g] = JobStatus(members[g], pst')]
    /\ UNCHANGED <<jobs, nextid, jid, members, last, saved>>

Active == {g \in jobs : jst[g] \in {"RUNNING", "STOPPED"}}

\* g is the first job of the list that is in G.
IsNewest(g, G) == g \in G /\ \A h \in G : jid[h] <= jid[g]

\* Seeded bug: the status of the first process.
ExitStatus_first(g) ==
    LET w == wst[g]
    IN  CASE w.kind = "exited"   -> w.val
          [] w.kind = "signaled" -> 128 + w.val
          [] OTHER               -> -1

\* job_exit_status: of the last process, -1 without a terminated status.
ExitStatus(g) ==
    LET w == wst[last[g]]
    IN  CASE w.kind = "exited"   -> w.val
          [] w.kind = "signaled" -> 128 + w.val
          [] OTHER               -> -1

\* shell_normalize_status
Normalize(status) == IF status < 0 THEN 1 ELSE status

\* job_continue: SIGCONT to the group, then STOPPED processes are RUNNING.  A
\* grandchild may keep the group alive when no child is left in it.
JobContinue(g) ==
    /\ jst[g] = "STOPPED"
    /\ Continue(InGroup(g))
    /\ pst' = [p \in Proc |-> IF p \in members[g] /\ pst[p] = "STOPPED"
                              THEN "RUNNING" ELSE pst[p]]
    /\ jst' = [jst EXCEPT ![g] = JobStatus(members[g], pst')]
    /\ UNCHANGED <<jobs, nextid, jid, members, last, wst, saved>>

\* kill(-pgid, SIGCONT) finds no process in the group (ESRCH).
JobContinueFails(g) == InGroup(g) = {} /\ UNCHANGED <<kernel, table>>

\* job_remove, job_cleanup_done: unlink and free the jobs G.
Drop(G) ==
    LET Freed(f, S, default) ==
            [p \in Proc |-> IF p \in S THEN default ELSE f[p]]
        ps == UNION {members[g] : g \in G}
    IN  /\ jobs' = jobs \ G
        /\ jid' = Freed(jid, G, 0)
        /\ members' = Freed(members, G, {})
        /\ last' = Freed(last, G, None)
        /\ jst' = Freed(jst, G, "RUNNING")
        /\ saved' = Freed(saved, G, None)
        /\ pst' = Freed(pst, ps, "RUNNING")
        /\ wst' = Freed(wst, ps, NoStatus)
        /\ UNCHANGED nextid

---------------------------------------------------------------------------
(* shell_run: SIGCHLD, then job_reap and job_cleanup_done.                 *)

Prompt == pc = "loop" /\ running

\* Seeded bug: job_reap asks for RUNNING processes only.
Unfinished_running ==
    {p \in UNION {members[g] : g \in jobs} : pst[p] = "RUNNING"}

Unfinished == {p \in UNION {members[g] : g \in jobs} : pst[p] # "DONE"}

StartReap ==
    /\ Prompt /\ sigchld
    /\ sigchld' = FALSE
    /\ todo' = Unfinished
    /\ pc' = "reap"
    /\ UNCHANGED <<kst, kgrp, note, wcode, table, tty, caller, cur, running,
                   max_job, last_exit_status>>

JobOf(p) == CHOOSE g \in jobs : p \in members[g]

\* One waitpid of job_reap: a change, nothing, or ECHILD (counted as DONE).
ReapOne(p) ==
    /\ pc = "reap" /\ p \in todo
    /\ todo' = todo \ {p}
    /\ LET change == HasReport(p, {"stopped", "continued"})
       IN  \/ change /\ Apply(p, JobOf(p), Report(p)) /\ Collect(p)
           \/ /\ ~change /\ kst[p] = "gone"
              /\ pst' = [pst EXCEPT ![p] = "DONE"]
              /\ jst' = [jst EXCEPT ![JobOf(p)] =
                                        JobStatus(members[JobOf(p)], pst')]
              /\ UNCHANGED <<kernel, jobs, nextid, jid, members, last, wst, saved>>
           \/ ~change /\ kst[p] # "gone" /\ UNCHANGED <<kernel, table>>
    /\ UNCHANGED <<tty, pc, caller, cur, running, max_job, last_exit_status>>

CleanupDone ==
    /\ pc = "reap" /\ todo = {}
    /\ Drop({g \in jobs : jst[g] = "DONE"})
    /\ pc' = "loop"
    /\ UNCHANGED <<kernel, tty, caller, cur, todo, running, max_job,
                   last_exit_status>>

---------------------------------------------------------------------------
(* Commands.  A command returns to the main loop with a status.            *)

Return(status) ==
    /\ pc' = "loop" /\ caller' = "none" /\ cur' = None
    /\ last_exit_status' = Normalize(status)
    /\ UNCHANGED <<todo, max_job>>

\* Seeded bug: off by one.
BelowLimit_or_at == Cardinality(Active) <= max_job

\* check_job_limit
BelowLimit == Cardinality(Active) < max_job

(* execute_command with processes ps, the leader's pid being the pgid.     *)
Execute(ps, g, l, background) ==
    /\ Prompt /\ BelowLimit
    /\ background \/ tty_ok
    /\ Fork(ps, g)
    /\ jobs' = jobs \cup {g}
    /\ nextid' = nextid + 1
    /\ jid' = [jid EXCEPT ![g] = nextid]
    /\ members' = [members EXCEPT ![g] = ps]
    /\ last' = [last EXCEPT ![g] = l]
    /\ jst' = [jst EXCEPT ![g] = "RUNNING"]
    /\ saved' = [saved EXCEPT ![g] = None]
    /\ pst' = [p \in Proc |-> IF p \in ps THEN "RUNNING" ELSE pst[p]]
    /\ wst' = [p \in Proc |-> IF p \in ps THEN NoStatus ELSE wst[p]]
    /\ UNCHANGED <<modes, tty_ok, running>>
    /\ IF background
         THEN Return(0) /\ UNCHANGED owner
         ELSE /\ owner' = g
              /\ pc' = "wait" /\ caller' = "execute" /\ cur' = g
              /\ UNCHANGED <<todo, max_job, last_exit_status>>

\* The leader is the first process of the pipeline, l the last one.
Launches ==
    \E ps \in SUBSET {p \in Proc : kst[p] = "unborn"} :
      /\ Cardinality(ps) \in 1..MaxPipeline
      /\ \E g, l \in ps, background \in BOOLEAN :
           /\ g = l <=> Cardinality(ps) = 1
           /\ Execute(ps, g, l, background)

\* The limit is reached, or the launch failed and was rolled back (module
\* Launch): then the killed children leave a SIGCHLD.
ExecuteFails ==
    /\ Prompt
    /\ sigchld' \in (IF BelowLimit THEN {sigchld, TRUE} ELSE {sigchld})
    /\ Return(-1)
    /\ UNCHANGED <<kst, kgrp, note, wcode, table, tty, running>>

BuiltinBg ==
    /\ Prompt
    /\ LET stopped == {g \in jobs : jst[g] = "STOPPED"}
       IN  \/ \E g \in stopped :
                /\ IsNewest(g, stopped)
                /\ \/ JobContinue(g) /\ Return(0)
                   \/ JobContinueFails(g) /\ Return(-1)
           \/ stopped = {} /\ Return(-1) /\ UNCHANGED <<kernel, table>>
    /\ UNCHANGED <<tty, running>>

\* config_load fills a copy and assigns it only when every line was accepted.
BuiltinReload ==
    /\ Prompt
    /\ \/ max_job' \in JobLimits /\ last_exit_status' = 0
       \/ last_exit_status' = Normalize(-1) /\ UNCHANGED max_job
    /\ UNCHANGED <<kernel, table, tty, pc, caller, cur, todo, running>>

\* builtin_exit, or the end of the input: job_shutdown follows.
BuiltinExit ==
    /\ Prompt
    /\ running' = FALSE
    /\ UNCHANGED <<kernel, table, tty, pc, caller, cur, todo, max_job,
                   last_exit_status>>

---------------------------------------------------------------------------
(* builtin_fg up to its wait.                                              *)

GoTo(step) ==
    /\ pc' = step
    /\ UNCHANGED <<caller, cur, todo, running, max_job, last_exit_status>>

BuiltinFg ==
    /\ Prompt
    /\ \/ Active = {} /\ Return(-1)
       \/ \E g \in Active :
            /\ IsNewest(g, Active)
            /\ pc' = "handoff" /\ caller' = "fg" /\ cur' = g
            /\ UNCHANGED <<todo, max_job, last_exit_status>>
    /\ UNCHANGED <<kernel, table, tty, running>>

\* Seeded bug: only a stopped job is given the terminal.
FgHandoff_stopped ==
    /\ pc = "handoff"
    /\ IF jst[cur] = "STOPPED" THEN owner' = cur ELSE UNCHANGED owner
    /\ GoTo("modes")
    /\ UNCHANGED <<kernel, table, modes, tty_ok>>

\* tcsetpgrp needs a process in the group: a child, or a grandchild.
FgHandoff ==
    /\ pc = "handoff"
    /\ \/ tty_ok /\ owner' = cur /\ GoTo("modes")
       \/ /\ ~tty_ok \/ InGroup(cur) = {}
          /\ Return(-1)
          /\ UNCHANGED <<owner, running>>
    /\ UNCHANGED <<kernel, table, modes, tty_ok>>

FgModes ==
    /\ pc = "modes"
    /\ CASE saved[cur] = None -> UNCHANGED modes /\ GoTo("continue")
         [] saved[cur] # None /\ tty_ok ->
              modes' = saved[cur] /\ GoTo("continue")
         [] OTHER -> UNCHANGED modes /\ GoTo("fail")
    /\ UNCHANGED <<kernel, table, owner, tty_ok>>

FgContinue ==
    /\ pc = "continue"
    /\ \/ jst[cur] # "STOPPED" /\ UNCHANGED <<kernel, table>> /\ GoTo("wait")
       \/ JobContinue(cur) /\ GoTo("wait")
       \/ jst[cur] = "STOPPED" /\ JobContinueFails(cur) /\ GoTo("fail")
    /\ UNCHANGED tty

---------------------------------------------------------------------------
(* job_wait_foreground, and how execute_* and fg end.                      *)

\* waitpid(-pgid, WUNTRACED) reports p; continues are not asked for.
WaitReports(p) ==
    /\ pc = "wait" /\ jst[cur] = "RUNNING"
    /\ p \in InGroup(cur) /\ HasReport(p, {"stopped"})
    /\ Apply(p, cur, Report(p))
    /\ Collect(p)
    /\ UNCHANGED <<tty, shell>>

\* ECHILD: no child is left in the group.
WaitFails ==
    /\ pc = "wait" /\ jst[cur] = "RUNNING"
    /\ InGroup(cur) = {}
    /\ GoTo(IF caller = "execute" THEN "rollback" ELSE "fail")
    /\ UNCHANGED <<kernel, table, tty>>

\* rollback_single, rollback_pipeline: kill and collect every process.
Rollback ==
    /\ pc = "rollback"
    /\ KillAndCollect(members[cur] \cap Waitable)
    /\ GoTo("fail")
    /\ UNCHANGED <<table, tty>>

WaitEnds ==
    /\ pc = "wait" /\ jst[cur] # "RUNNING"
    /\ GoTo("save")
    /\ UNCHANGED <<kernel, table, tty>>

\* terminal_get_modes of a stopped job.
SaveModes ==
    /\ pc = "save"
    /\ saved' = IF jst[cur] = "STOPPED" /\ tty_ok
                  THEN [saved EXCEPT ![cur] = modes] ELSE saved
    /\ GoTo("restore_pgrp")
    /\ UNCHANGED <<kernel, jobs, nextid, jid, members, last, jst, pst, wst, tty>>

\* terminal_restore: the group first, then the modes.  A failure stops the shell.
RestorePgrp ==
    /\ pc = "restore_pgrp"
    /\ IF tty_ok
         THEN owner' = Shell /\ GoTo("restore_modes")
         ELSE UNCHANGED owner /\ running' = FALSE /\ Return(-1)
    /\ UNCHANGED <<kernel, table, modes, tty_ok>>

RestoreModes ==
    /\ pc = "restore_modes"
    /\ IF tty_ok
         THEN modes' = Shell /\ GoTo("finish")
         ELSE UNCHANGED modes /\ running' = FALSE /\ Return(-1)
    /\ UNCHANGED <<kernel, table, owner, tty_ok>>

Finish ==
    /\ pc = "finish"
    /\ IF jst[cur] = "STOPPED"
         THEN UNCHANGED table /\ Return(0)
         ELSE Drop({cur}) /\ Return(ExitStatus(cur))
    /\ UNCHANGED <<kernel, tty, running>>

\* Seeded bug: the error paths do not restore the terminal.
Fail_keeps_terminal ==
    /\ pc = "fail"
    /\ IF caller = "execute" THEN Drop({cur}) ELSE UNCHANGED table
    /\ Return(-1)
    /\ UNCHANGED <<kernel, tty, running>>

\* Error paths: terminal_restore, its result ignored; execute_* also removes
\* the job it has rolled back, fg leaves it in the table.
Fail ==
    /\ pc = "fail"
    /\ IF tty_ok THEN owner' = Shell /\ modes' = Shell
                 ELSE UNCHANGED <<owner, modes>>
    /\ IF caller = "execute" THEN Drop({cur}) ELSE UNCHANGED table
    /\ Return(-1)
    /\ UNCHANGED <<kernel, tty_ok, running>>

---------------------------------------------------------------------------
Reap == StartReap \/ (\E p \in Proc : ReapOne(p)) \/ CleanupDone

Foreground ==
    \/ FgHandoff \/ FgModes \/ FgContinue
    \/ (\E p \in Proc : WaitReports(p)) \/ WaitFails \/ Rollback \/ WaitEnds
    \/ SaveModes \/ RestorePgrp \/ RestoreModes \/ Finish \/ Fail

User == Launches \/ ExecuteFails \/ BuiltinFg \/ BuiltinBg \/ BuiltinReload
        \/ BuiltinExit

Terminated == pc = "loop" /\ ~running /\ UNCHANGED vars

Next == World \/ Reap \/ Foreground \/ User \/ Terminated

Spec == Init /\ [][Next]_vars

\* The shell goes on whenever it can; users and processes owe nothing.  Each
\* round of shell_run serves the event pipe before it reads the next byte of
\* a command, so the prompt cannot be reached again and again with a SIGCHLD
\* pending and never served: strong fairness of StartReap.
FairSpec ==
    /\ Spec
    /\ SF_vars(StartReap) /\ WF_vars(Reap) /\ WF_vars(Foreground)

---------------------------------------------------------------------------
(* Properties.                                                             *)

\* No child is forgotten: whatever runs, is stopped or waits to be collected
\* is an unfinished process of a job in the table.
NoChildForgotten ==
    \A p \in Waitable : \E g \in jobs : p \in members[g] /\ pst[p] # "DONE"

Agrees(p) ==
    \/ kst[p] = "running" /\ pst[p] = "RUNNING"
    \/ kst[p] = "stopped" /\ pst[p] = "STOPPED"
    \/ kst[p] = "gone"    /\ pst[p] = "DONE"

\* The table is stale only while a SIGCHLD is on its way: whoever consumed a
\* wait status (job_reap, job_wait_foreground) or guessed one (job_continue),
\* a wrong entry is never final.  A process that left its job's group is
\* excepted: SIGCONT to the group does not reach it, yet job_continue counts
\* it as running.
StaleOnlyUntilReap ==
    \A g \in jobs : \A p \in members[g] :
        \/ Agrees(p)
        \/ sigchld \/ (pc = "reap" /\ p \in todo)
        \/ kgrp[p] # g

\* At the prompt the shell has the terminal and its own modes.
PromptOwnsTerminal ==
    (Prompt /\ tty_ok) => (owner = Shell /\ modes = Shell)

\* While the shell waits for a job, that job has the terminal.
ForegroundOwnsTerminal == pc \in {"continue", "wait"} => owner = cur

\* check_job_limit: no step takes the active jobs above max_job.
LimitRespected ==
    [][Cardinality(Active') > Cardinality(Active)
         => Cardinality(Active') <= max_job]_vars

\* A foreground job that ended gives the status its last process ended with.
StatusOfLastProcess ==
    [][(pc = "finish" /\ jst[cur] = "DONE" /\ cur \notin jobs') =>
         LET w == wcode[last[cur]]
         IN  last_exit_status' = IF w.kind = "exited" THEN w.val
                                 ELSE 128 + w.val]_vars

\* No zombie stays: it is collected unless the shell ends or a foreground job
\* keeps it waiting for ever.
ZombiesCollected ==
    []<>(pc = "loop") =>
        \A p \in Proc : (kst[p] = "zombie") ~> (kst[p] = "gone" \/ ~running)
=============================================================================
