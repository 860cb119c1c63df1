---------------------------- MODULE MCShellInput ----------------------------
(* Model-checking instance of ShellInput: lines of up to six characters,    *)
(* four different ones in a behaviour.                                      *)
EXTENDS ShellInput

MCKeyboards ==
    {{"a", " ", ">", "&"}, {"a", ">", "<", "|"}, {"a", " ", "|", "&"},
     {"a", " ", "$?", ">"}, {"a", "|", "CR", "NUL"}}
MCStatuses == {-1, 0}
=============================================================================
