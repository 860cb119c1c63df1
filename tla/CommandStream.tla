--------------------------- MODULE CommandStream ---------------------------
(***************************************************************************)
(* What the shell promises about the text it reads, without saying how:    *)
(* each line that fits is read by the grammar below and handed to the      *)
(* dispatcher as a whole; of a line that does not fit nothing is executed. *)
(* ShellInput (the line buffer and the parser) implements this.            *)
(*                                                                         *)
(* A character is a string; "$?" counts as one, and every string that is   *)
(* not named below is a letter.                                            *)
(***************************************************************************)
EXTENDS Integers, Sequences, SequencesExt

CONSTANTS
    Chars,          \* what may be typed, but the newline
    InputSize,      \* sizeof input_buffer: a line and its final NUL
    MaxToken,       \* tokens of a line
    TokenSize,      \* a token and its final NUL
    MaxArgs,        \* argv of a command, with its final NULL
    Statuses        \* what dispatcher_command may return

Blank == {" ", "CR"}
Redirect == {"<", ">", ">>"}
Special == {"<", ">", "|", "&"}
Letter(c) == c \notin Blank \cup Special

VARIABLES
    piece,      \* what has been typed since the last newline or Ctrl+C
    executing,  \* the commands the dispatcher has
    status,     \* $?
    live        \* the shell reads on

vars == <<piece, executing, status, live>>

---------------------------------------------------------------------------
(* The grammar, position by position.                                      *)

\* A NUL byte ends the text.
Visible(line) ==
    SubSeq(line, 1, SelectInSeq(Append(line, "NUL"), LAMBDA c : c = "NUL") - 1)

\* A token starts at i: ">" pairs up with the next one from the left.
StartsAt(t, i) ==
    LET before == {j \in 1..i : \A k \in j..(i - 1) : t[k] = ">"}
    IN  CASE t[i] \in Blank -> FALSE
          [] t[i] = ">" -> Cardinality(before) % 2 = 1
          [] t[i] \in Special \ {">"} -> TRUE
          [] OTHER -> i = 1 \/ ~Letter(t[i - 1])

\* The token that starts at i: a special one, or the longest run of letters.
TokenAt(t, i) ==
    IF ~Letter(t[i])
      THEN IF t[i] = ">" /\ i < Len(t) /\ t[i + 1] = ">" THEN <<">>">> ELSE <<t[i]>>
      ELSE SubSeq(t, i, CHOOSE j \in i..Len(t) :
                          /\ \A k \in i..j : Letter(t[k])
                          /\ j = Len(t) \/ ~Letter(t[j + 1]))

\* The positions in S, in order.
InOrder(S) ==
    [k \in 1..Cardinality(S) |->
       CHOOSE i \in S : Cardinality({j \in S : j <= i}) = k]

TokensOf(t) ==
    LET starts == InOrder({i \in 1..Len(t) : StartsAt(t, i)})
    IN  [k \in 1..Len(starts) |-> TokenAt(t, starts[k])]

IsWord(tok) == Letter(tok[1]) /\ tok # <<">>">>
Symbol(tok) == IF IsWord(tok) THEN "word" ELSE tok[1]

\* Position i of a line of tokens: its command, and its role in it.
CommandOf(toks, i) == 1 + Cardinality({p \in 1..i : p < i /\ Symbol(toks[p]) = "|"})
IsFile(toks, i) == i > 1 /\ Symbol(toks[i - 1]) \in Redirect
Part(toks, n, symbols) ==
    {i \in 1..Len(toks) : CommandOf(toks, i) = n /\ Symbol(toks[i]) \in symbols}
Args(toks, n) == {i \in Part(toks, n, {"word"}) : ~IsFile(toks, i)}

Followed(toks, i) == i < Len(toks) /\ IsWord(toks[i + 1])

WellFormed(toks) ==
    /\ toks # <<>> /\ Len(toks) <= MaxToken
    /\ \A i \in 1..Len(toks) :
         CASE Symbol(toks[i]) = "word" -> Len(toks[i]) < TokenSize
           [] Symbol(toks[i]) = "&" -> i = Len(toks)
           [] OTHER -> Followed(toks, i)
    /\ \A n \in 1..CommandOf(toks, Len(toks)) :
         /\ Cardinality(Args(toks, n)) \in 1..(MaxArgs - 1)
         /\ Cardinality(Part(toks, n, {"<"})) <= 1
         /\ Cardinality(Part(toks, n, {">", ">>"})) <= 1

\* $? is expanded in an argument that is nothing else, and not in a file name.
Expand(word, st) == IF word = <<"$?">> THEN <<"status", st>> ELSE word

FileAfter(toks, S) == IF S = {} THEN <<>> ELSE toks[1 + CHOOSE i \in S : TRUE]

Reading(toks, st) ==
    [n \in 1..CommandOf(toks, Len(toks)) |->
       LET args == InOrder(Args(toks, n))
       IN  [argv |-> [k \in 1..Len(args) |-> Expand(toks[args[k]], st)],
            in |-> FileAfter(toks, Part(toks, n, {"<"})),
            out |-> FileAfter(toks, Part(toks, n, {">", ">>"})),
            append |-> Part(toks, n, {">>"}) # {},
            background |-> n = 1 /\ Symbol(Last(toks)) = "&"]]

---------------------------------------------------------------------------
(* The stream of commands.                                                 *)

TooLong == <<"too_long">>

\* A line that does not fit is given up where its first byte too many comes.
Type(c) ==
    /\ live /\ executing = <<>>
    /\ piece' = IF piece = TooLong \/ Len(piece) >= InputSize - 1
                  THEN TooLong ELSE Append(piece, c)
    /\ status' = IF piece' = TooLong /\ piece # TooLong THEN 2 ELSE status
    /\ UNCHANGED <<executing, live>>

\* Ctrl+C drops what has been typed; what follows is a piece of its own.
Interrupt ==
    /\ live /\ executing = <<>>
    /\ piece' = <<>>
    /\ UNCHANGED <<executing, status, live>>

\* The end of the line, or of the input, for a line with a meaning ...
Start ==
    /\ live /\ executing = <<>> /\ piece # TooLong
    /\ LET toks == TokensOf(Visible(piece))
       IN  WellFormed(toks) /\ executing' = Reading(toks, status)
    /\ UNCHANGED <<piece, status, live>>

\* ... its end, after which the shell may stop (exit, end of the input) ...
Finish ==
    /\ executing # <<>>
    /\ \E st \in Statuses : status' = IF st < 0 THEN 1 ELSE st
    /\ executing' = <<>> /\ piece' = <<>> /\ live' \in BOOLEAN

\* ... and for any other line; memory may be short for every one.
NothingToDo ==
    /\ live /\ executing = <<>>
    /\ \/ piece = TooLong /\ UNCHANGED status
       \/ /\ piece # TooLong
          /\ LET toks == TokensOf(Visible(piece))
             IN  \/ toks = <<>> /\ UNCHANGED status
                 \/ toks # <<>> /\ ~WellFormed(toks) /\ status' = 2
                 \/ toks # <<>> /\ status' = 1
    /\ piece' = <<>> /\ live' \in BOOLEAN
    /\ UNCHANGED executing

\* The terminal is lost: nothing more is executed.
Lost ==
    /\ live /\ executing = <<>>
    /\ live' = FALSE
    /\ UNCHANGED <<piece, executing, status>>

Init == piece = <<>> /\ executing = <<>> /\ status = 0 /\ live = TRUE

Next ==
    \/ \E c \in Chars : Type(c)
    \/ Interrupt \/ Start \/ Finish \/ NothingToDo \/ Lost

Spec == Init /\ [][Next]_vars
=============================================================================
