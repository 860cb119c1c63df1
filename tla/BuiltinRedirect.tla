--------------------------- MODULE BuiltinRedirect ---------------------------
(***************************************************************************)
(* Builtin commands with redirection (src/dispatcher.c): the shell changes *)
(* its own stdin and stdout, runs the builtin and changes them back, every *)
(* call failing at will.  Stdio keeps text back: stdout has a buffer and a *)
(* sticky error flag (ferror), and a flush that fails drops the buffer.    *)
(*                                                                         *)
(* Text is "old" (job messages printed before the command) or "new" (the   *)
(* builtin's own).                                                         *)
(***************************************************************************)
EXTENDS Integers

Streams == {"out", "in"}

VARIABLES
    step, cur,        \* the next step, and the stream it is about
    want,           \* the streams the command redirects
    fd,             \* what stdin and stdout refer to
    copies,         \* saved_out, saved_in: streams with a saved copy
    files,          \* descriptors of redirection files that are open
    buf, error,     \* stdout: its buffer, and ferror
    printed,        \* the builtin printed something
    landed,         \* which text was written where
    broken,         \* a restore failed
    ret, running    \* the command's status, ctx->running

redirect_vars == <<step, cur, want, fd, copies, files, buf, error, printed, landed,
          broken, ret, running>>

Texts == {"old", "new"}
Places == {"shell", "file"}

RedirectTypeOK ==
    /\ step \in {"prompt", "flush", "save", "open", "dup2", "handler", "check",
               "restore"}
    /\ cur \in Streams /\ want \subseteq Streams
    /\ fd \in [Streams -> Places]
    /\ copies \subseteq Streams /\ files \in 0..1
    /\ buf \subseteq Texts /\ error \in BOOLEAN /\ printed \in BOOLEAN
    /\ landed \subseteq Texts \X Places
    /\ broken \in BOOLEAN
    /\ ret \in {"ok", "error"} /\ running \in BOOLEAN

RedirectInit ==
    /\ step = "prompt" /\ cur = "out" /\ want = {}
    /\ fd = [s \in Streams |-> "shell"]
    /\ copies = {} /\ files = 0
    /\ buf = {} /\ error = FALSE /\ printed = FALSE /\ landed = {}
    /\ broken = FALSE /\ ret = "ok" /\ running = TRUE

Written == landed \cup {<<t, fd["out"]>> : t \in buf}

\* fflush(stdout), with TRUE for a write that succeeds.
Flush(ok) ==
    /\ buf' = {}
    /\ landed' = IF ok THEN Written ELSE landed

---------------------------------------------------------------------------
(* At the prompt.                                                          *)

\* job_reap prints without a flush; an unnoticed write error stays in ferror.
JobMessage ==
    /\ step = "prompt" /\ running
    /\ \/ buf' = buf \cup {"old"} /\ UNCHANGED error
       \/ error' = TRUE /\ UNCHANGED buf
    /\ UNCHANGED <<step, cur, want, fd, copies, files, printed, landed, broken,
                   ret, running>>

\* Seeded bug: stdout is redirected with text in its buffer.
FirstStep_save(ws) == IF ws = {} THEN "handler" ELSE "save"

\* builtin_apply_redirect: output first, and a flush before it.
FirstStep(ws) ==
    IF "out" \in ws THEN "flush" ELSE IF "in" \in ws THEN "save" ELSE "handler"

\* dispatcher_command finds a builtin.
Start ==
    /\ step = "prompt" /\ running
    /\ want' \in SUBSET Streams
    /\ step' = FirstStep(want')
    /\ cur' = IF "out" \in want' THEN "out" ELSE "in"
    /\ printed' = FALSE /\ landed' = {} /\ ret' = "ok"
    /\ UNCHANGED <<fd, copies, files, buf, error, broken, running>>

---------------------------------------------------------------------------
(* builtin_apply_redirect.                                                 *)

\* Seeded bug: a failed redirection returns without the restore.
Abandon_return == step' = "prompt" /\ ret' = "error" /\ UNCHANGED cur

\* An early return: builtin_restore_redirect follows.
Abandon == step' = "restore" /\ ret' = "error" /\ cur' = "out"

FlushFirst ==
    /\ step = "flush"
    /\ \E ok \in BOOLEAN :
         /\ Flush(ok)
         /\ IF ok /\ ~error
              THEN step' = "save" /\ UNCHANGED <<cur, ret, error>>
              ELSE Abandon /\ error' = FALSE
    /\ UNCHANGED <<want, fd, copies, files, printed, broken, running>>

\* dup_cloexec
Save ==
    /\ step = "save"
    /\ \/ copies' = copies \cup {cur} /\ step' = "open" /\ UNCHANGED <<cur, ret>>
       \/ Abandon /\ UNCHANGED copies
    /\ UNCHANGED <<want, fd, files, buf, error, printed, landed, broken, running>>

OpenFile ==
    /\ step = "open"
    /\ \/ files' = files + 1 /\ step' = "dup2" /\ UNCHANGED <<cur, ret>>
       \/ Abandon /\ UNCHANGED files
    /\ UNCHANGED <<want, fd, copies, buf, error, printed, landed, broken, running>>

Dup2Fails == Abandon /\ files' = files - 1 /\ UNCHANGED <<fd, error>>

Dup2 ==
    /\ step = "dup2"
    /\ \/ /\ fd' = [fd EXCEPT ![cur] = "file"]
          /\ files' = files - 1
          /\ error' = IF cur = "out" THEN FALSE ELSE error
          /\ cur' = "in"
          /\ step' = IF cur = "out" /\ "in" \in want THEN "save" ELSE "handler"
          /\ UNCHANGED ret
       \/ Dup2Fails
    /\ UNCHANGED <<want, copies, buf, printed, landed, broken, running>>

---------------------------------------------------------------------------
(* The builtin, the check of its output, and the restore.                  *)

\* entry->handler: its result, exit among them, with or without output; a
\* long one is written before it is complete.
Handler ==
    /\ step = "handler"
    /\ ret' \in {"ok", "error"}
    /\ running' \in BOOLEAN
    /\ printed' \in BOOLEAN
    /\ LET full == IF printed' THEN buf \cup {"new"} ELSE buf
       IN  \/ buf' = full /\ UNCHANGED <<landed, error>>
           \/ /\ printed'
              /\ landed' = landed \cup {<<t, fd["out"]>> : t \in full}
              /\ buf' \in {{}, {"new"}} /\ UNCHANGED error
           \/ /\ printed'
              /\ error' = TRUE
              /\ buf' = {} /\ UNCHANGED landed
    /\ step' = "check"
    /\ UNCHANGED <<cur, want, fd, copies, files, broken>>

\* Seeded bug: only the result of fflush counts.
Good_flush(ok) == ok

\* fflush(stdout) == 0 && !ferror(stdout)
Good(ok) == ok /\ ~error

Check ==
    /\ step = "check"
    /\ \E ok \in BOOLEAN :
         /\ Flush(ok)
         /\ ret' = IF Good(ok) THEN ret ELSE "error"
         /\ error' = IF Good(ok) THEN error ELSE FALSE
    /\ step' = "restore" /\ cur' = "out"
    /\ UNCHANGED <<want, fd, copies, files, printed, broken, running>>

\* builtin_restore_redirect, stdout then stdin.
Restore ==
    /\ step = "restore" /\ copies # {}
    /\ LET s == IF "out" \in copies THEN "out" ELSE "in"
       IN  /\ \/ fd' = [fd EXCEPT ![s] = "shell"] /\ UNCHANGED broken
              \/ broken' = TRUE /\ UNCHANGED fd
           /\ copies' = copies \ {s}
           /\ error' = IF s = "out" THEN FALSE ELSE error
    /\ UNCHANGED <<step, cur, want, files, buf, printed, landed, ret, running>>

\* A shell that could not restore its own streams ends.
Return ==
    /\ step = "restore" /\ copies = {}
    /\ ret' = IF broken THEN "error" ELSE ret
    /\ running' = (running /\ ~broken)
    /\ step' = "prompt"
    /\ UNCHANGED <<cur, want, fd, copies, files, buf, error, printed, landed,
                   broken>>

RedirectEnded == step = "prompt" /\ ~running /\ UNCHANGED redirect_vars

---------------------------------------------------------------------------
RedirectNext ==
    \/ JobMessage \/ Start \/ FlushFirst \/ Save \/ OpenFile \/ Dup2
    \/ Handler \/ Check \/ Restore \/ Return \/ RedirectEnded

RedirectSpec == RedirectInit /\ [][RedirectNext]_redirect_vars

---------------------------------------------------------------------------
(* Properties.                                                             *)

\* docs/test.md: whichever redirection fails, streams that were changed are
\* restored; docs/stability.md, "FD start == FD end".  A prompt that goes on
\* reads and writes the shell's own streams, and after any command no saved
\* copy and no redirection file is open.
StreamsRestored ==
    step = "prompt" =>
        /\ running => \A s \in Streams : fd[s] = "shell"
        /\ copies = {} /\ files = 0

\* What the builtin prints is written where the command says, and what was
\* printed before it never reaches the file.
RightPlace ==
    \A w \in landed :
        w[2] = IF w[1] = "new" /\ "out" \in want THEN "file" ELSE "shell"

\* docs/architecture.md: a builtin whose output could not be written fails.
\* With status ok its text has been written.
SuccessMeansWritten ==
    (step = "prompt" /\ ret = "ok" /\ printed) => \E d \in Places : <<"new", d>> \in landed
=============================================================================
