--------------------------- MODULE MCJobShutdown ---------------------------
(* Model-checking instance of JobShutdown: a pipeline of two and a single   *)
(* command.                                                                *)
EXTENDS JobShutdown, TLC

CONSTANTS p1, p2, p3

MCProc == {p1, p2, p3}
MCJobs == {p1, p3}
MCMembers == (p1 :> {p1, p2}) @@ (p3 :> {p3})
NoLeavers == {}
OneLeaver == {p2}
=============================================================================
