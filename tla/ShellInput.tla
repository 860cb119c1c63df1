----------------------------- MODULE ShellInput -----------------------------
(***************************************************************************)
(* The shell's input: shell_read_input and shell_dispatch_input of         *)
(* src/shell.c, which collect a line byte by byte, and parse_line of       *)
(* src/parser.c, which takes the line apart and builds its commands token  *)
(* by token, every allocation failing at will.  SIGINT may come between    *)
(* any two bytes.                                                          *)
(*                                                                         *)
(* The dispatcher appears with the status it returns.                      *)
(***************************************************************************)
EXTENDS Parser

CONSTANTS
    Keyboards,      \* sets of characters: what may be typed in a behaviour
    InputSize,      \* SHELL_INPUT_SIZE
    Statuses        \* what dispatcher_command may return

ASSUME InputAssumption == InputSize \in Nat \ {0} /\ Statuses \subseteq Int

\* A character is one byte; these strings stand for longer texts.
ASSUME KeyboardsAssumption ==
    \A cs \in Keyboards : ">>" \notin cs /\ "too_long" \notin cs

VARIABLES
    keys,               \* the characters typed in this behaviour
    buf, discarding,    \* input_buffer up to input_length, input_discarding
    status,             \* last_exit_status
    pc, eof,            \* the next step; the end of the input was read
    at,                 \* tokenize: the position in the line
    toks, i, cmds,      \* build_command: TokenList, position, Command list
    \* memory: a block has the number of the token it was allocated for
    heap,               \* blocks in use
    ptrs,               \* pointers that are not NULL, and their blocks
    misfreed            \* a block was freed that was not in use

memory == <<heap, ptrs, misfreed>>
vars == <<keys, buf, discarding, status, pc, eof, at, toks, i, cmds, memory>>

TypeOK ==
    /\ keys \in Keyboards
    /\ buf \in Seq(keys) /\ Len(buf) < InputSize
    /\ discarding \in BOOLEAN /\ status \in Int /\ eof \in BOOLEAN
    /\ pc \in {"read", "lex", "build", "dispatch", "ended"}
    /\ at \in 0..InputSize
    /\ toks \in Seq([type : TokenTypes, text : Seq(keys)]) /\ Len(toks) <= MaxToken
    /\ i \in 0..(MaxToken + 1)
    /\ cmds \in Seq(Commands(Seq(keys) \cup {"status"} \X Int, Seq(keys)))
    /\ Len(cmds) <= MaxToken
    /\ heap \subseteq 0..MaxToken

Init ==
    /\ keys \in Keyboards
    /\ buf = <<>> /\ discarding = FALSE /\ status = 0
    /\ pc = "read" /\ eof = FALSE
    /\ at = 0 /\ toks = <<>> /\ i = 0 /\ cmds = <<>>
    /\ heap = {} /\ ptrs = <<>> /\ misfreed = FALSE

---------------------------------------------------------------------------
(* The line.                                                               *)

\* shell_reset_input
ResetInput == buf' = <<>> /\ discarding' = FALSE

\* shell_run ends after the end of the input.
NextLine(atEof) == pc' = (IF atEof THEN "ended" ELSE "read") /\ eof' = atEof

\* Seeded bug: the end of an over-long line is not waited for.
GiveUpLine_reset == ResetInput

\* The line does not fit: the rest of it will be skipped.
GiveUpLine == buf' = <<>> /\ discarding' = TRUE

ReadByte(c) ==
    /\ pc = "read"
    /\ \/ discarding /\ UNCHANGED <<buf, discarding, status>>
       \/ /\ ~discarding /\ Len(buf) + 1 >= InputSize
          /\ GiveUpLine /\ status' = 2
       \/ /\ ~discarding /\ Len(buf) + 1 < InputSize
          /\ buf' = Append(buf, c)
          /\ UNCHANGED <<discarding, status>>
    /\ UNCHANGED <<keys, pc, eof, at, toks, i, cmds, memory>>

\* parse_line has no command: the status is st, and the shell goes on.
NoCommand(st, atEof) ==
    /\ status' = st
    /\ ResetInput /\ NextLine(atEof)
    /\ at' = 0 /\ toks' = <<>> /\ i' = 0 /\ cmds' = <<>>

\* shell_dispatch_input calls parse_line, which calls tokenize.
Submit(atEof) ==
    /\ pc' = "lex" /\ eof' = atEof
    /\ at' = 1 /\ toks' = <<>>
    /\ UNCHANGED <<buf, discarding, status, i, cmds, memory>>

ReadNewline ==
    /\ pc = "read"
    /\ IF discarding
         THEN ResetInput /\ UNCHANGED <<status, pc, eof, at, toks, i, cmds, memory>>
         ELSE Submit(FALSE)
    /\ UNCHANGED keys

ReadEof ==
    /\ pc = "read"
    /\ IF discarding \/ buf = <<>>
         THEN /\ ResetInput /\ NextLine(TRUE)
              /\ UNCHANGED <<status, at, toks, i, cmds, memory>>
         ELSE Submit(TRUE)
    /\ UNCHANGED keys

\* SIGNAL_EVENT_INTERRUPT, served before the next byte.
Interrupt ==
    /\ pc = "read"
    /\ ResetInput
    /\ UNCHANGED <<keys, status, pc, eof, at, toks, i, cmds, memory>>

\* A prompt that cannot be written, a select or a read that fails.
ShellError ==
    /\ pc = "read" /\ pc' = "ended"
    /\ UNCHANGED <<keys, buf, discarding, status, eof, at, toks, i, cmds, memory>>

---------------------------------------------------------------------------
(* tokenize, one character or token after the other.                       *)

Line == CString(buf)
Lexing == pc = "lex" /\ at <= Len(Line)

SkipSpace ==
    /\ Lexing /\ IsSpace(Line[at])
    /\ at' = at + 1
    /\ UNCHANGED <<keys, buf, discarding, status, pc, eof, toks, i, cmds, memory>>

PushToken ==
    /\ Lexing /\ ~IsSpace(Line[at])
    /\ Fits(toks, TokenFrom(Line, at))
    /\ toks' = Append(toks, TokenFrom(Line, at))
    /\ at' = EndAt(Line, at) + 1
    /\ UNCHANGED <<keys, buf, discarding, status, pc, eof, i, cmds, memory>>

\* tokenize_fail
TokenizeFail ==
    /\ Lexing /\ ~IsSpace(Line[at])
    /\ ~Fits(toks, TokenFrom(Line, at))
    /\ NoCommand(2, eof)
    /\ UNCHANGED <<keys, memory>>

\* The pointers when malloc's result b has been stored at a place.
Pointing(place, b) ==
    [p \in DOMAIN ptrs \cup {place} |-> IF p = place THEN b ELSE ptrs[p]]

Allocate(place, b) ==
    /\ heap' = heap \cup {b}
    /\ ptrs' = Pointing(place, b)
    /\ UNCHANGED misfreed

\* An empty list is no command; else build_command allocates the first one.
Tokenized ==
    /\ pc = "lex" /\ at > Len(Line)
    /\ \/ toks = <<>> /\ NoCommand(status, eof) /\ UNCHANGED memory
       \/ toks # <<>> /\ NoCommand(1, eof) /\ UNCHANGED memory
       \/ /\ toks # <<>>
          /\ pc' = "build" /\ at' = 0 /\ i' = 1
          /\ cmds' = <<NewCommand>> /\ Allocate(<<1, "command", 0>>, 0)
          /\ UNCHANGED <<buf, discarding, status, eof, toks>>
    /\ UNCHANGED keys

---------------------------------------------------------------------------
(* build_command, one token after the other.                               *)

Current == cmds[Len(cmds)]
Building(type) == pc = "build" /\ i <= Len(toks) /\ toks[i].type = type
NextIsWord == i < Len(toks) /\ toks[i + 1].type = "WORD"

\* Why the token at i is refused.
SyntaxError ==
    CASE toks[i].type = "WORD" -> Len(Current.argv) >= MaxArgs - 1
      [] toks[i].type = "IN" -> ~NextIsWord \/ Current.in # <<>>
      [] toks[i].type \in {"OUT", "APPEND"} -> ~NextIsWord \/ Current.out # <<>>
      [] toks[i].type = "BACKGROUND" -> i # Len(toks) \/ cmds[1].background
      [] toks[i].type = "PIPE" -> Current.argv = <<>> \/ ~NextIsWord

\* The pointer that gets the memory allocated for the token at i: a field of
\* the current command, or its next.
Target ==
    LET n == Len(cmds)
    IN  CASE toks[i].type = "WORD" -> <<n, "argv", Len(Current.argv) + 1>>
          [] toks[i].type = "IN" -> <<n, "input_file", 0>>
          [] toks[i].type \in {"OUT", "APPEND"} -> <<n, "output_file", 0>>
          [] toks[i].type = "PIPE" -> <<n + 1, "command", 0>>

\* The list becomes new.
Grow(new, step) ==
    /\ ~SyntaxError
    /\ cmds' = new
    /\ i' = i + step
    /\ UNCHANGED <<keys, buf, discarding, status, pc, eof, at, toks>>

SetCurrent(c) == [cmds EXCEPT ![Len(cmds)] = c]

BuildWord ==
    /\ Building("WORD") /\ Allocate(Target, i)
    /\ LET word == IF toks[i].text = <<"$?">> THEN <<"status", status>>
                                              ELSE toks[i].text
       IN  Grow(SetCurrent([Current EXCEPT !.argv = Append(@, word)]), 1)

BuildInput ==
    /\ Building("IN") /\ Allocate(Target, i)
    /\ Grow(SetCurrent([Current EXCEPT !.in = toks[i + 1].text]), 2)

BuildOutput ==
    \E type \in {"OUT", "APPEND"} :
      /\ Building(type) /\ Allocate(Target, i)
      /\ Grow(SetCurrent([Current EXCEPT !.out = toks[i + 1].text,
                                         !.append = type = "APPEND"]), 2)

BuildBackground ==
    /\ Building("BACKGROUND") /\ UNCHANGED memory
    /\ Grow([cmds EXCEPT ![1].background = TRUE], 1)

BuildPipe ==
    /\ Building("PIPE") /\ Allocate(Target, i)
    /\ Grow(Append(cmds, NewCommand), 1)

\* Seeded bug: the list is freed from its current command on.
Freed_current(fields) == {p \in DOMAIN fields : p[1] = Len(cmds)}

\* The pointers that command_free(head) frees, of those that are not NULL: of
\* each command argv[0] to argv[argc - 1], both files, and the Command.
Freed(fields) ==
    {p \in DOMAIN fields :
       /\ p[1] \in 1..Len(cmds)
       /\ \/ p[2] = "argv" /\ p[3] \in 1..Len(cmds[p[1]].argv)
          \/ p[2] \in {"output_file", "input_file", "command"}}

\* free, of these pointers one after the other
Free(fields) ==
    LET freed == Freed(fields)
    IN  /\ heap' = heap \ {fields[p] : p \in freed}
        /\ misfreed' = \/ misfreed
                       \/ \E p \in freed : fields[p] \notin heap
                       \/ \E p, q \in freed : p # q /\ fields[p] = fields[q]
        /\ ptrs' = <<>>

\* syntax_fail: at a token, or for a command without a word at the end.
SyntaxFail ==
    /\ pc = "build"
    /\ IF i <= Len(toks) THEN SyntaxError
                         ELSE \E n \in 1..Len(cmds) : cmds[n].argv = <<>>
    /\ NoCommand(2, eof)
    /\ Free(ptrs)
    /\ UNCHANGED keys

\* memory_fail, when strdup or new_command has returned NULL.
MemoryFail ==
    /\ pc = "build" /\ i <= Len(toks)
    /\ toks[i].type # "BACKGROUND" /\ ~SyntaxError
    /\ NoCommand(1, eof)
    /\ Free([p \in DOMAIN ptrs \ {Target} |-> ptrs[p]])
    /\ UNCHANGED keys

BuildEnd ==
    /\ pc = "build" /\ i > Len(toks)
    /\ \A n \in 1..Len(cmds) : cmds[n].argv # <<>>
    /\ pc' = "dispatch"
    /\ UNCHANGED <<keys, buf, discarding, status, eof, at, toks, i, cmds, memory>>

\* dispatcher_command returns st and the shell frees the list; after exit, or
\* at the end of the input, it stops.
Dispatch ==
    /\ pc = "dispatch"
    /\ \E st \in Statuses, exit \in BOOLEAN :
         NoCommand(IF st < 0 THEN 1 ELSE st, eof \/ exit)
    /\ Free(ptrs)
    /\ UNCHANGED keys

Ended == pc = "ended" /\ UNCHANGED vars

Next ==
    \/ \E c \in keys : ReadByte(c)
    \/ ReadNewline \/ ReadEof \/ Interrupt \/ ShellError
    \/ SkipSpace \/ PushToken \/ TokenizeFail \/ Tokenized
    \/ BuildWord \/ BuildInput \/ BuildOutput \/ BuildBackground \/ BuildPipe
    \/ SyntaxFail \/ MemoryFail \/ BuildEnd \/ Dispatch \/ Ended

Spec == Init /\ [][Next]_vars

---------------------------------------------------------------------------
(* Properties.                                                             *)

Stream == INSTANCE CommandStream WITH
    Chars <- UNION Keyboards,
    piece <- IF discarding THEN <<"too_long">> ELSE buf,
    executing <- IF pc = "dispatch" THEN cmds ELSE <<>>,
    live <- pc # "ended"

\* The line buffer, its limit, discarding, SIGINT, the lexer and
\* build_command together implement CommandStream: what the dispatcher gets
\* is a whole line as the grammar reads it, never a part of a line that was
\* too long, and a line that is refused leaves status 2 and executes nothing.
ImplementsStream == Stream!Spec

\* Between two lines no block is in use, and none is ever freed twice: what
\* build_command allocates token by token, command_free finds again through the
\* pointers, after every syntax error, every failing strdup or new_command in the
\* middle of a command, and the execution.
NothingLeaked ==
    /\ pc \notin {"build", "dispatch"} => heap = {}
    /\ ~misfreed
=============================================================================
