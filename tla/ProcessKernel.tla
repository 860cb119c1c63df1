--------------------------- MODULE ProcessKernel ---------------------------
(***************************************************************************)
(* The part of the operating system the shell's job control relies on, as  *)
(* the calls of src/job.c and src/executor.c use it: processes that run,   *)
(* stop, continue and terminate, process groups, kill(-pgid), waitpid and  *)
(* SIGCHLD.  External code.  A pid is used once: pid reuse is left out.    *)
(*                                                                         *)
(* A process keeps at most one state change for waitpid: a later stop or   *)
(* continue replaces an earlier one, and a termination replaces both.      *)
(***************************************************************************)
EXTENDS Integers, FiniteSets

CONSTANTS
    Proc,       \* process ids
    None        \* no process, no group

ASSUME NoneAssumption == None \notin Proc

VARIABLES
    kst,        \* life of a process: see ProcStates
    kgrp,       \* its process group
    note,       \* the stop or continue waitpid has not reported yet
    wcode,      \* the wait status it terminated with
    sigchld     \* a SIGCHLD the main loop has not taken yet

kernel == <<kst, kgrp, note, wcode, sigchld>>

ProcStates == {"unborn", "running", "stopped", "zombie", "gone"}

SIGINT  == 2
SIGKILL == 9

Exited(code)  == [kind |-> "exited", val |-> code]
Signaled(sig) == [kind |-> "signaled", val |-> sig]
Stopped       == [kind |-> "stopped", val |-> 0]
Continued     == [kind |-> "continued", val |-> 0]
WaitStatus    == [kind : {"exited", "signaled", "stopped", "continued"}, val : Nat]

KernelTypeOK ==
    /\ kst \in [Proc -> ProcStates]
    /\ kgrp \in [Proc -> Proc \cup {None}]
    /\ note \in [Proc -> {"none", "stopped", "continued"}]
    /\ wcode \in [Proc -> WaitStatus]
    /\ sigchld \in BOOLEAN

KernelInit ==
    /\ kst = [p \in Proc |-> "unborn"]
    /\ kgrp = [p \in Proc |-> None]
    /\ note = [p \in Proc |-> "none"]
    /\ wcode = [p \in Proc |-> Exited(0)]
    /\ sigchld = FALSE

Alive == {p \in Proc : kst[p] \in {"running", "stopped"}}

\* Children of the shell that waitpid can still name.
Waitable == {p \in Proc : kst[p] \in {"running", "stopped", "zombie"}}

InGroup(g) == {p \in Waitable : kgrp[p] = g}

---------------------------------------------------------------------------
(* Effects on a set of processes; each tells the parent with SIGCHLD.      *)

Fork(ps, g) ==
    /\ kst' = [p \in Proc |-> IF p \in ps THEN "running" ELSE kst[p]]
    /\ kgrp' = [p \in Proc |-> IF p \in ps THEN g ELSE kgrp[p]]
    /\ UNCHANGED <<note, wcode, sigchld>>

Terminate(ps, w) ==
    /\ kst' = [p \in Proc |-> IF p \in ps THEN "zombie" ELSE kst[p]]
    /\ note' = [p \in Proc |-> IF p \in ps THEN "none" ELSE note[p]]
    /\ wcode' = [p \in Proc |-> IF p \in ps THEN w ELSE wcode[p]]
    /\ sigchld' = TRUE
    /\ UNCHANGED kgrp

Stop(ps) ==
    /\ kst' = [p \in Proc |-> IF p \in ps THEN "stopped" ELSE kst[p]]
    /\ note' = [p \in Proc |-> IF p \in ps THEN "stopped" ELSE note[p]]
    /\ sigchld' = TRUE
    /\ UNCHANGED <<kgrp, wcode>>

Continue(ps) ==
    LET woken == {p \in ps : kst[p] = "stopped"}
    IN  /\ kst' = [p \in Proc |-> IF p \in woken THEN "running" ELSE kst[p]]
        /\ note' = [p \in Proc |-> IF p \in woken THEN "continued" ELSE note[p]]
        /\ sigchld' = (sigchld \/ woken # {})
        /\ UNCHANGED <<kgrp, wcode>>

---------------------------------------------------------------------------
(* waitpid.                                                                *)

\* The state change that waitpid reports for p, if the flags ask for it.
HasReport(p, flags) ==
    \/ kst[p] = "zombie"
    \/ note[p] # "none" /\ note[p] \in flags

Report(p) ==
    IF kst[p] = "zombie" THEN wcode[p]
    ELSE IF note[p] = "stopped" THEN Stopped ELSE Continued

\* Reporting a change forgets it; a reported zombie is gone.
Collect(p) ==
    /\ kst' = [kst EXCEPT ![p] = IF @ = "zombie" THEN "gone" ELSE @]
    /\ note' = [note EXCEPT ![p] = "none"]
    /\ UNCHANGED <<kgrp, wcode, sigchld>>

\* SIGKILL to every process of ps, each then collected by a blocking waitpid.
KillAndCollect(ps) ==
    /\ kst' = [p \in Proc |-> IF p \in ps THEN "gone" ELSE kst[p]]
    /\ note' = [p \in Proc |-> IF p \in ps THEN "none" ELSE note[p]]
    /\ sigchld' = TRUE
    /\ UNCHANGED <<kgrp, wcode>>

---------------------------------------------------------------------------
\* The Process.status the job table may hold for a process in state k, with a
\* report that waitpid has not given yet.  A process that has left its job's
\* group is not reached by SIGCONT, and job_continue counts it as running.
Recorded(k, report, left) ==
    CASE k = "running" -> IF left \/ report = "continued"
                            THEN {"RUNNING", "STOPPED"} ELSE {"RUNNING"}
      [] k = "stopped" -> IF left \/ report = "stopped"
                            THEN {"RUNNING", "STOPPED"} ELSE {"STOPPED"}
      [] k = "zombie"  -> {"RUNNING", "STOPPED"}
      [] k = "gone"    -> {"DONE"}
=============================================================================
