------------------------------- MODULE Parser -------------------------------
(***************************************************************************)
(* The tokens of src/parser.c and the Command of src/command.c, as         *)
(* operators; ShellInput runs tokenize and build_command step by step.     *)
(*                                                                         *)
(* A character is a string, with the pair "$?" taken as one.  A token is   *)
(* the sequence of its characters and its type.                            *)
(***************************************************************************)
EXTENDS Integers, Sequences, FiniteSets, FiniteSetsExt

CONSTANTS
    MaxToken,       \* MAX_TOKEN
    TokenSize,      \* TOKEN_SIZE
    MaxArgs         \* MAX_ARGS

\* An operator fits into a token.
ASSUME ParserAssumption ==
    MaxToken \in Nat /\ TokenSize \in Nat /\ TokenSize > 2 /\ MaxArgs \in Nat

\* isspace, of the characters a line may hold
IsSpace(c) == c \in {" ", "CR"}

IsSpecial(c) == c \in {">", "<", "|", "&"}

TokenTypes == {"WORD", "IN", "OUT", "APPEND", "PIPE", "BACKGROUND"}
Token(type, text) == [type |-> type, text |-> text]

\* The C string that parse_line sees: one final carriage return is taken off,
\* and a NUL ends it.
CString(buf) ==
    LET n == IF buf # <<>> /\ buf[Len(buf)] = "CR" THEN Len(buf) - 1 ELSE Len(buf)
        nuls == {i \in 1..n : buf[i] = "NUL"}
    IN  SubSeq(buf, 1, IF nuls = {} THEN n ELSE Min(nuls) - 1)

\* The type of the token at position i.
TypeAt(line, i) ==
    CASE line[i] = ">" -> IF i < Len(line) /\ line[i + 1] = ">" THEN "APPEND" ELSE "OUT"
      [] line[i] = "<" -> "IN"
      [] line[i] = "|" -> "PIPE"
      [] line[i] = "&" -> "BACKGROUND"
      [] OTHER -> "WORD"

\* Where the token at position i ends.
EndAt(line, i) ==
    CASE TypeAt(line, i) = "APPEND" -> i + 1
      [] TypeAt(line, i) = "WORD" ->
           Min({j \in i..Len(line) :
                  j = Len(line) \/ IsSpace(line[j + 1]) \/ IsSpecial(line[j + 1])})
      [] OTHER -> i

TokenFrom(line, i) == Token(TypeAt(line, i), SubSeq(line, i, EndAt(line, i)))

\* token_push refuses one token too many, or too long.
Fits(toks, token) == Len(toks) < MaxToken /\ Len(token.text) < TokenSize

---------------------------------------------------------------------------
(* Command.  A file name <<>> is NULL.                                     *)

Commands(words, names) ==
    [argv : Seq(words), in : names, out : names, append : BOOLEAN,
     background : BOOLEAN]

NewCommand ==
    [argv |-> <<>>, in |-> <<>>, out |-> <<>>, append |-> FALSE,
     background |-> FALSE]
=============================================================================
