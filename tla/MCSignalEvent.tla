--------------------------- MODULE MCSignalEvent ---------------------------
(* Model-checking instance of SignalEvent: two children, a pipe of two     *)
(* bytes read one at a time, so that it fills, drops a byte and takes      *)
(* several reads to drain.                                                 *)
EXTENDS SignalEvent

CONSTANTS c1, c2

MCChild == {c1, c2}
=============================================================================
