------------------------------- MODULE Launch -------------------------------
(***************************************************************************)
(* One launch of an external command: execute_single and execute_pipeline  *)
(* of src/executor.c with their startup gate.  The parent forks one child  *)
(* per command, registers the job, hands the terminal over and only then   *)
(* writes one byte per child into the gate; a child reads its byte before  *)
(* it runs the user's program.  Every call of the parent may fail, and the *)
(* parent or a child may be killed at any moment.                          *)
(*                                                                         *)
(* A single command is a pipeline of one.  The children are numbered in    *)
(* pipeline order; the first one leads the process group.                  *)
(***************************************************************************)
EXTENDS Integers, FiniteSets

CONSTANTS
    MaxCommands,    \* bound: commands of the longest line
    MAX_PIPELINE    \* executor.h: processes of a pipeline (64)

ASSUME MaxCommandsAssumption == MaxCommands \in Nat \ {0}
ASSUME MaxPipelineAssumption == MAX_PIPELINE \in Nat \ {0}

Children == 1..MaxCommands
Parent   == 0

VARIABLES
    n, background,  \* the command line: its length, and whether it ends in &
    pc,             \* the parent's step
    count,          \* children forked
    fds,            \* descriptors of this launch the parent has open
    bytes,          \* 'G' bytes in the gate
    sent,           \* 'G' bytes written
    writers,        \* who holds the gate's write end
    cpc,            \* each child's step
    joined,         \* children in the job's process group
    job,            \* the job is in the table
    registered,     \* processes added to the job
    handed,         \* the job owns the terminal
    result          \* what execute_* returns

vars == <<n, background, pc, count, fds, bytes, sent, writers, cpc, joined,
          job, registered, handed, result>>

ParentSteps == {"gate", "pipe", "fork", "setpgid", "next", "job_add",
                "process_add", "handoff", "release", "publish", "kill", "reap",
                "remove", "restore", "wait", "return", "crashed"}
ChildSteps == {"unborn", "born", "closed", "at_gate", "go", "exec", "zombie",
               "gone"}
GateEnds == {"gate_r", "gate_w"}

TypeOK ==
    /\ n \in Children /\ background \in BOOLEAN
    /\ pc \in ParentSteps
    /\ count \in 0..n
    /\ fds \subseteq GateEnds \cup {"pipe_fd", "pipefd0", "pipefd1"}
    /\ bytes \in 0..n /\ sent \in 0..n
    /\ writers \subseteq Children \cup {Parent}
    /\ cpc \in [Children -> ChildSteps]
    /\ joined \subseteq Children
    /\ job \in BOOLEAN /\ registered \in 0..n
    /\ handed \in BOOLEAN
    /\ result \in {"none", "ok", "error"}

Init ==
    /\ n \in Children /\ background \in BOOLEAN
    /\ pc = "gate" /\ count = 0
    /\ fds = {} /\ bytes = 0 /\ sent = 0 /\ writers = {}
    /\ cpc = [i \in Children |-> "unborn"]
    /\ joined = {}
    /\ job = FALSE /\ registered = 0 /\ handed = FALSE
    /\ result = "none"

cmdline == <<n, background>>
childvars == <<cpc, joined>>
gatevars == <<bytes, sent, writers>>
published == <<job, registered, handed>>

Living == {i \in Children : cpc[i] \in {"born", "closed", "at_gate", "go", "exec"}}
Forked == 1..count

---------------------------------------------------------------------------
(* The parent, on the way to a running job.                                *)

\* startup_gate_create
GateCreate ==
    /\ pc = "gate"
    /\ \/ /\ fds' = GateEnds /\ writers' = {Parent}
          /\ pc' = "pipe"
          /\ UNCHANGED result
       \/ /\ pc' = "return" /\ result' = "error"
          /\ UNCHANGED <<fds, writers>>
    /\ UNCHANGED <<cmdline, count, bytes, sent, childvars, published>>

\* An early return: close some descriptors, then rollback_*.
Abort(closed) ==
    /\ fds' = fds \ closed
    /\ writers' = writers \ {Parent}
    /\ pc' = "kill"

LoopFds == GateEnds \cup {"pipe_fd", "pipefd0", "pipefd1"}

\* The MAX_PIPELINE check and the pipe to the next command.
MakePipe ==
    /\ pc = "pipe"
    /\ \/ /\ count < MAX_PIPELINE
          /\ fds' = IF count + 1 < n THEN fds \cup {"pipefd0", "pipefd1"} ELSE fds
          /\ pc' = "fork"
          /\ UNCHANGED writers
       \/ /\ count >= MAX_PIPELINE \/ count + 1 < n
          /\ Abort(GateEnds \cup {"pipe_fd"})
    /\ UNCHANGED <<cmdline, count, bytes, sent, childvars, published, result>>

ForkChild ==
    /\ pc = "fork"
    /\ \/ /\ count' = count + 1
          /\ cpc' = [cpc EXCEPT ![count + 1] = "born"]
          /\ writers' = writers \cup {count + 1}
          /\ pc' = "setpgid"
          /\ UNCHANGED fds
       \/ Abort(LoopFds) /\ UNCHANGED <<count, cpc>>
    /\ UNCHANGED <<cmdline, bytes, sent, joined, published, result>>

\* setpgid_parent
SetPgid ==
    /\ pc = "setpgid"
    /\ \/ /\ joined' = joined \cup {count}
          /\ pc' = "next"
          /\ UNCHANGED <<fds, writers>>
       \/ Abort(LoopFds) /\ UNCHANGED joined
    /\ UNCHANGED <<cmdline, count, bytes, sent, cpc, published, result>>

\* Seeded bug: the parent keeps the pipe's write end.
NextCommand_keeps ==
    /\ pc = "next"
    /\ fds' = IF count < n
                THEN (fds \ {"pipefd0"}) \cup {"pipe_fd"}
                ELSE fds \ {"pipe_fd", "gate_r"}
    /\ pc' = IF count < n THEN "pipe" ELSE "job_add"
    /\ UNCHANGED <<cmdline, count, gatevars, childvars, published, result>>

\* The parent keeps only the read end of the newest pipe.
NextCommand ==
    /\ pc = "next"
    /\ fds' = IF count < n
                THEN (fds \ {"pipefd0", "pipefd1"}) \cup {"pipe_fd"}
                ELSE fds \ {"pipe_fd", "gate_r"}
    /\ pc' = IF count < n THEN "pipe" ELSE "job_add"
    /\ UNCHANGED <<cmdline, count, gatevars, childvars, published, result>>

JobAdd ==
    /\ pc = "job_add"
    /\ \/ job' = TRUE /\ pc' = "process_add" /\ UNCHANGED <<fds, writers>>
       \/ Abort({"gate_w"}) /\ UNCHANGED job
    /\ UNCHANGED <<cmdline, count, bytes, sent, childvars, registered, handed,
                   result>>

\* The children the processes of the job are created for.
ProcessAdd ==
    /\ pc = "process_add"
    /\ \/ /\ registered < count
          /\ registered' = registered + 1
          /\ UNCHANGED <<pc, fds, writers>>
       \/ /\ registered = count
          /\ pc' = IF background THEN "release" ELSE "handoff"
          /\ UNCHANGED <<registered, fds, writers>>
       \/ registered < count /\ Abort({"gate_w"}) /\ UNCHANGED registered
    /\ UNCHANGED <<cmdline, count, bytes, sent, childvars, job, handed, result>>

\* terminal_set_foreground
Handoff ==
    /\ pc = "handoff"
    /\ \/ handed' = TRUE /\ pc' = "release" /\ UNCHANGED <<fds, writers>>
       \/ Abort({"gate_w"}) /\ UNCHANGED handed
    /\ UNCHANGED <<cmdline, count, bytes, sent, childvars, job, registered,
                   result>>

\* Somebody holds the gate's read end.
HasReader == \E i \in Living : cpc[i] \in {"born", "closed", "at_gate"}

\* Seeded bug: one byte for the whole pipeline.
Release_one ==
    /\ pc = "release"
    /\ bytes' = 1 /\ sent' = 1
    /\ pc' = "publish"
    /\ UNCHANGED <<cmdline, count, fds, writers, childvars, published, result>>

\* startup_gate_release: one byte per child; EPIPE when no reader is left.
Release ==
    /\ pc = "release"
    /\ \/ /\ sent < count /\ HasReader
          /\ bytes' = bytes + 1 /\ sent' = sent + 1
          /\ UNCHANGED <<pc, fds, writers>>
       \/ /\ sent < count /\ ~HasReader
          /\ Abort({"gate_w"})
          /\ UNCHANGED <<bytes, sent>>
       \/ sent = count /\ pc' = "publish" /\ UNCHANGED <<fds, gatevars>>
    /\ UNCHANGED <<cmdline, count, childvars, published, result>>

\* The gate is closed; a foreground job is waited for (module JobControl).
Publish ==
    /\ pc = "publish"
    /\ fds' = fds \ {"gate_w"} /\ writers' = writers \ {Parent}
    /\ pc' = IF background THEN "return" ELSE "wait"
    /\ result' = IF background THEN "ok" ELSE result
    /\ UNCHANGED <<cmdline, count, bytes, sent, childvars, published>>

---------------------------------------------------------------------------
(* rollback_single, rollback_pipeline, job_remove, terminal_restore.       *)

\* SIGKILL goes to the group and to every pid.
RollbackKill ==
    /\ pc = "kill"
    /\ cpc' = [i \in Children |->
                 IF i \in Forked \cap Living THEN "zombie" ELSE cpc[i]]
    /\ writers' = writers \ Forked
    /\ pc' = "reap"
    /\ UNCHANGED <<cmdline, count, fds, bytes, sent, joined, published, result>>

\* reap_pid blocks until each child has terminated.
RollbackReap ==
    /\ pc = "reap"
    /\ Forked \cap Living = {}
    /\ cpc' = [i \in Children |-> IF i \in Forked THEN "gone" ELSE cpc[i]]
    /\ pc' = "remove"
    /\ UNCHANGED <<cmdline, count, fds, gatevars, joined, published, result>>

\* job_remove, where the job had been added.
Remove ==
    /\ pc = "remove"
    /\ job' = FALSE /\ registered' = 0
    /\ pc' = "restore"
    /\ UNCHANGED <<cmdline, count, fds, gatevars, childvars, handed, result>>

RestoreTerminal ==
    /\ pc = "restore"
    /\ handed' = FALSE
    /\ pc' = "return" /\ result' = "error"
    /\ UNCHANGED <<cmdline, count, fds, gatevars, childvars, job, registered>>

\* The shell is killed: the kernel closes its descriptors.
ParentCrashes ==
    /\ pc \notin {"wait", "return", "crashed"}
    /\ pc' = "crashed"
    /\ fds' = {} /\ writers' = writers \ {Parent}
    /\ UNCHANGED <<cmdline, count, bytes, sent, childvars, published, result>>

---------------------------------------------------------------------------
(* A child: child_prepare_before_gate, then redirection and exec.          *)

Dies(i) ==
    /\ cpc' = [cpc EXCEPT ![i] = "zombie"]
    /\ writers' = writers \ {i}

parentvars == <<n, background, pc, count, fds, sent, job, registered, handed,
                result>>

\* Seeded bug: the child keeps the gate's write end it inherited.
CloseGateWrite_not(i) ==
    /\ cpc[i] = "born"
    /\ cpc' = [cpc EXCEPT ![i] = "closed"]
    /\ UNCHANGED <<parentvars, bytes, writers, joined>>

CloseGateWrite(i) ==
    /\ cpc[i] = "born"
    /\ cpc' = [cpc EXCEPT ![i] = "closed"]
    /\ writers' = writers \ {i}
    /\ UNCHANGED <<parentvars, bytes, joined>>

\* setpgid_child, event_close_in_child, device_manager_close_all.
JoinGroup(i) ==
    /\ cpc[i] = "closed"
    /\ \/ /\ joined' = joined \cup {i}
          /\ cpc' = [cpc EXCEPT ![i] = "at_gate"]
          /\ UNCHANGED writers
       \/ Dies(i) /\ joined' \in {joined, joined \cup {i}}
    /\ UNCHANGED <<parentvars, bytes>>

\* startup_gate_wait: a byte, or end of file once nobody can write one.
GateOpens(i) ==
    /\ cpc[i] = "at_gate" /\ bytes > 0
    /\ bytes' = bytes - 1
    /\ cpc' = [cpc EXCEPT ![i] = "go"]
    /\ UNCHANGED <<parentvars, writers, joined>>

\* Seeded bug: end of file counts as permission.
GateEof_goes(i) ==
    /\ cpc[i] = "at_gate" /\ bytes = 0 /\ writers = {}
    /\ cpc' = [cpc EXCEPT ![i] = "go"]
    /\ UNCHANGED <<parentvars, bytes, writers, joined>>

GateEof(i) ==
    /\ cpc[i] = "at_gate" /\ bytes = 0 /\ writers = {}
    /\ Dies(i)
    /\ UNCHANGED <<parentvars, bytes, joined>>

\* signal_reset_child, setredirect, run_process.
Exec(i) ==
    /\ cpc[i] = "go"
    /\ \/ cpc' = [cpc EXCEPT ![i] = "exec"] /\ UNCHANGED writers
       \/ Dies(i)
    /\ UNCHANGED <<parentvars, bytes, joined>>

ChildStep(i) ==
    CloseGateWrite(i) \/ JoinGroup(i) \/ GateOpens(i) \/ GateEof(i) \/ Exec(i)

ChildKilled(i) ==
    /\ i \in Living
    /\ Dies(i)
    /\ UNCHANGED <<parentvars, bytes, joined>>

---------------------------------------------------------------------------
ParentStep ==
    \/ GateCreate \/ MakePipe \/ ForkChild \/ SetPgid \/ NextCommand
    \/ JobAdd \/ ProcessAdd \/ Handoff \/ Release \/ Publish
    \/ RollbackKill \/ RollbackReap \/ Remove \/ RestoreTerminal

Ended == pc \in {"wait", "return", "crashed"} /\ UNCHANGED vars

Next ==
    \/ ParentStep \/ ParentCrashes
    \/ \E i \in Children : ChildStep(i) \/ ChildKilled(i)
    \/ Ended

Spec == Init /\ [][Next]_vars

\* The scheduler runs the parent and every child.
FairSpec ==
    /\ Spec
    /\ WF_vars(ParentStep)
    /\ \A i \in Children : WF_vars(ChildStep(i))

---------------------------------------------------------------------------
(* Properties.                                                             *)

Published ==
    /\ joined = Forked /\ count = n
    /\ job /\ registered = n
    /\ background \/ handed

\* What the rest of the shell sees of the launch.
Entry ==
    CASE Published -> "whole"
      [] ~job /\ registered = 0 /\ ~handed
           /\ \A i \in Children : cpc[i] \in {"unborn", "gone"} -> "absent"
      [] OTHER -> "partial"

Atomic == INSTANCE AtomicLaunch WITH
    entry <- Entry,
    gate <- sent > 0,
    running <- {i \in Children : cpc[i] = "exec"},
    outcome <- IF pc = "wait" THEN "ok" ELSE result

\* docs/architecture.md, startup gate: no child runs the user's program before
\* the parent has set the process group, registered job and processes and
\* handed the terminal over.  And a launch that fails, at whatever step,
\* leaves no child, no table entry, and the terminal with the shell.
LaunchIsAtomic == Atomic!Spec

\* A job the shell goes on to wait for has all its processes, and each of them
\* is past the gate, finds a byte there, or has terminated.
NobodyLeftAtGate ==
    (pc = "wait" \/ (pc = "return" /\ result = "ok")) =>
        /\ registered = n /\ \A i \in 1..n : cpc[i] # "unborn"
        /\ Cardinality({i \in Children : cpc[i] \in {"born", "closed", "at_gate"}})
             <= bytes

\* docs/stability.md, "FD start == FD end": every return path has closed the
\* descriptors of the launch.
NoDescriptorLeak == pc \in {"wait", "return"} => fds = {}

\* Whatever the parent does, its own death included, no child waits at the
\* gate for ever.
GateAlwaysEnds ==
    \A i \in Children : (cpc[i] = "at_gate") ~> (cpc[i] # "at_gate")
=============================================================================
