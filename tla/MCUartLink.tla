----------------------------- MODULE MCUartLink -----------------------------
(* Model-checking instance of UartLink: an operator who recovers the link   *)
(* after every failure, and one who never does.                             *)
EXTENDS UartLink

MCOperators ==
    {[recovers |-> Errors, requests |-> 3, faults |-> 2],
     [recovers |-> {}, requests |-> 2, faults |-> 1]}
=============================================================================
