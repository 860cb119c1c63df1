---------------------------- MODULE AtomicLaunch ----------------------------
(***************************************************************************)
(* What a launch promises to the rest of the shell, and what JobControl    *)
(* takes it for: the command line becomes a job as a whole, or nothing is  *)
(* left of it; and no program of the user runs before the job is whole.    *)
(* Launch implements this.                                                 *)
(***************************************************************************)
CONSTANT Children   \* the processes of a command line

VARIABLES
    entry,      \* the job in table, process group and terminal
    gate,       \* programs may run
    running,    \* processes that execute the user's program
    outcome     \* what the launch returned: "none" yet, "ok" or "error"

vars == <<entry, gate, running, outcome>>

Entries == {"absent", "partial", "whole"}

Init == entry = "absent" /\ gate = FALSE /\ running = {} /\ outcome = "none"

\* Children, table and terminal, one after the other; or taken back.
Prepare ==
    /\ outcome = "none" /\ ~gate
    /\ entry' \in Entries
    /\ UNCHANGED <<gate, running, outcome>>

OpenGate ==
    /\ outcome = "none" /\ ~gate /\ entry = "whole"
    /\ gate' = TRUE
    /\ UNCHANGED <<entry, running, outcome>>

Run(i) ==
    /\ gate /\ entry = "whole" /\ outcome # "error"
    /\ running' = running \cup {i}
    /\ UNCHANGED <<entry, gate, outcome>>

\* Some programs end, or are killed.
End ==
    /\ running' \in SUBSET running
    /\ UNCHANGED <<entry, gate, outcome>>

Succeed ==
    /\ outcome = "none" /\ gate /\ entry = "whole"
    /\ outcome' = "ok"
    /\ UNCHANGED <<entry, gate, running>>

\* The gate could not be opened for all: the job is taken back once no
\* program runs.
Withdraw ==
    /\ outcome = "none" /\ gate /\ running = {}
    /\ entry' \in Entries \ {"whole"}
    /\ UNCHANGED <<gate, running, outcome>>

Fail ==
    /\ outcome = "none" /\ running = {}
    /\ entry' = "absent" /\ outcome' = "error"
    /\ UNCHANGED <<gate, running>>

Next ==
    \/ Prepare \/ OpenGate \/ End \/ Succeed \/ Withdraw \/ Fail
    \/ \E i \in Children : Run(i)

Spec == Init /\ [][Next]_vars
=============================================================================
