---------------------------- MODULE SignalEvent ----------------------------
(***************************************************************************)
(* The path of a signal from the kernel to the shell's main loop:          *)
(* src/sig.c (handler and pending_events), src/event.c (the self-pipe) and *)
(* the select loop of src/shell.c.                                         *)
(*                                                                         *)
(* The shell has one thread.  A signal handler runs on top of it: while    *)
(* hpc # "idle" the main program makes no step, and its sa_mask keeps the  *)
(* other handled signal pending.  What the events are for is kept in two   *)
(* variables: the children whose state change nobody has collected with    *)
(* waitpid (changed), and a Ctrl+C the prompt has not reacted to (intr).   *)
(***************************************************************************)
EXTENDS Integers, FiniteSets

CONSTANTS
    Child,      \* the shell's direct children
    PipeCap,    \* bytes the event pipe holds
    ReadSize,   \* bytes one read of event_drain takes (64 in the code)
    MaxRaise    \* bound: how often the environment raises a signal

ASSUME PipeCapAssumption  == PipeCap \in Nat \ {0}
ASSUME ReadSizeAssumption == ReadSize \in Nat \ {0}
ASSUME MaxRaiseAssumption == MaxRaise \in Nat

CHILD == "SIGNAL_EVENT_CHILD"
INT   == "SIGNAL_EVENT_INTERRUPT"
Signals == {CHILD, INT}

VARIABLES
    changed,        \* children with an uncollected state change
    intr,           \* Ctrl+C typed, input line not reset yet
    raised,         \* how many signals the environment has raised
    sigpending,     \* signals the kernel holds for the shell
    hpc, hsig,      \* the running handler: its step and its signal
    handled,        \* TRUE while SIGINT and SIGCHLD have the handler
    pending_events, \* the flag word of sig.c
    pipe,           \* bytes in the event pipe
    open,           \* the event pipe is open
    pc,             \* the main program's next step
    stdin_ready,    \* FD_ISSET(STDIN_FILENO) of the last select
    events,         \* result of signal_take_events
    todo            \* children job_reap has still to ask for

env   == <<changed, intr, raised>>
hvars == <<hpc, hsig>>
vars  == <<changed, intr, raised, sigpending, hpc, hsig, handled,
           pending_events, pipe, open, pc, stdin_ready, events, todo>>

RunSteps  == {"select", "drain", "block", "read", "clear", "unblock",
              "child", "reap", "interrupt", "input", "dispatch"}
ExitSteps == {"destroy", "signal_off", "event_off", "exit"}

TypeOK ==
    /\ changed \subseteq Child
    /\ intr \in BOOLEAN
    /\ raised \in 0..MaxRaise
    /\ sigpending \subseteq Signals
    /\ hpc \in {"idle", "flag", "notify"}
    /\ hsig \in Signals
    /\ handled \in BOOLEAN
    /\ pending_events \subseteq Signals
    /\ pipe \in 0..PipeCap
    /\ open \in BOOLEAN
    /\ pc \in RunSteps \cup ExitSteps
    /\ stdin_ready \in BOOLEAN
    /\ events \subseteq Signals
    /\ todo \subseteq Child

\* shell_init has run: pipe created, handlers installed, no flag set.
Init ==
    /\ changed = {} /\ intr = FALSE /\ raised = 0
    /\ sigpending = {}
    /\ hpc = "idle" /\ hsig = CHILD
    /\ handled = TRUE
    /\ pending_events = {}
    /\ pipe = 0 /\ open = TRUE
    /\ pc = "select" /\ stdin_ready = FALSE
    /\ events = {} /\ todo = {}

---------------------------------------------------------------------------
(* The kernel: standard signals do not queue, and a signal is delivered    *)
(* when neither the program nor a running handler blocks it.               *)

\* Seeded bug: signal_take_events does not block the signals.
Masked_never == FALSE

\* SIGINT and SIGCHLD are blocked inside signal_take_events.
Masked == pc \in {"read", "clear", "unblock"}

Raise(s) == sigpending' = IF handled THEN sigpending \cup {s} ELSE sigpending

\* A child exits, stops or continues.  job_shutdown leaves no child behind.
ChildChanges(c) ==
    /\ pc \notin {"signal_off", "event_off", "exit"}
    /\ raised < MaxRaise
    /\ raised' = raised + 1
    /\ changed' = changed \cup {c}
    /\ Raise(CHILD)
    /\ UNCHANGED <<intr, hvars, handled, pending_events, pipe, open, pc,
                   stdin_ready, events, todo>>

\* The terminal sends SIGINT to the shell's own process group.
CtrlC ==
    /\ pc # "exit"
    /\ raised < MaxRaise
    /\ raised' = raised + 1
    /\ intr' = (intr \/ pc \in RunSteps)
    /\ Raise(INT)
    /\ UNCHANGED <<changed, hvars, handled, pending_events, pipe, open, pc,
                   stdin_ready, events, todo>>

Deliver(s) ==
    /\ hpc = "idle" /\ ~Masked
    /\ s \in sigpending
    /\ sigpending' = sigpending \ {s}
    /\ hpc' = "flag" /\ hsig' = s
    /\ UNCHANGED <<env, handled, pending_events, pipe, open, pc,
                   stdin_ready, events, todo>>

(* signal_handler, then event_notify: a full pipe (EAGAIN) drops the byte. *)
HandlerFlag ==
    /\ hpc = "flag"
    /\ pending_events' = pending_events \cup {hsig}
    /\ hpc' = "notify"
    /\ UNCHANGED <<env, sigpending, hsig, handled, pipe, open, pc,
                   stdin_ready, events, todo>>

HandlerNotify ==
    /\ hpc = "notify"
    /\ pipe' = IF open /\ pipe < PipeCap THEN pipe + 1 ELSE pipe
    /\ hpc' = "idle"
    /\ UNCHANGED <<env, sigpending, hsig, handled, pending_events, open, pc,
                   stdin_ready, events, todo>>

---------------------------------------------------------------------------
(* The main program: shell_run.                                            *)

At(step) == pc = step /\ hpc = "idle"

\* select returns when the event pipe or stdin is readable.  The EINTR of a
\* handler that ran inside select only starts the loop again.
Select ==
    /\ At("select")
    /\ \E typed \in BOOLEAN :
         /\ pipe > 0 \/ typed
         /\ stdin_ready' = typed
    /\ pc' = IF pipe > 0 THEN "drain" ELSE "input"
    /\ UNCHANGED <<env, sigpending, hvars, handled, pending_events, pipe,
                   open, events, todo>>

\* One read of event_drain, and the read that finds the pipe empty.
DrainRead ==
    /\ At("drain") /\ pipe > 0
    /\ pipe' = IF pipe > ReadSize THEN pipe - ReadSize ELSE 0
    /\ UNCHANGED <<env, sigpending, hvars, handled, pending_events, open, pc,
                   stdin_ready, events, todo>>

DrainEmpty ==
    /\ At("drain") /\ pipe = 0
    /\ pc' = "block"
    /\ UNCHANGED <<env, sigpending, hvars, handled, pending_events, pipe,
                   open, stdin_ready, events, todo>>

\* signal_take_events: block, read, clear, restore the mask.
TakeBlock ==
    /\ At("block")
    /\ pc' = "read"
    /\ UNCHANGED <<env, sigpending, hvars, handled, pending_events, pipe,
                   open, stdin_ready, events, todo>>

TakeRead ==
    /\ At("read")
    /\ events' = pending_events
    /\ pc' = "clear"
    /\ UNCHANGED <<env, sigpending, hvars, handled, pending_events, pipe,
                   open, stdin_ready, todo>>

TakeClear ==
    /\ At("clear")
    /\ pending_events' = {}
    /\ pc' = "unblock"
    /\ UNCHANGED <<env, sigpending, hvars, handled, pipe, open, stdin_ready,
                   events, todo>>

TakeUnblock ==
    /\ At("unblock")
    /\ pc' = "child"
    /\ UNCHANGED <<env, sigpending, hvars, handled, pending_events, pipe,
                   open, stdin_ready, events, todo>>

\* Seeded bug: job_reap stops after one child, as if each had its own signal.
ReapList_first == {CHOOSE c \in Child : TRUE}

\* job_reap asks for every child that is not DONE.
ReapList == Child

HandleChild ==
    /\ At("child")
    /\ IF CHILD \in events
         THEN todo' = ReapList /\ pc' = "reap"
         ELSE todo' = {} /\ pc' = "interrupt"
    /\ UNCHANGED <<env, sigpending, hvars, handled, pending_events, pipe,
                   open, stdin_ready, events>>

\* One waitpid(pid, WNOHANG|WUNTRACED|WCONTINUED) of job_reap.
ReapOne(c) ==
    /\ At("reap") /\ c \in todo
    /\ todo' = todo \ {c}
    /\ changed' = changed \ {c}
    /\ UNCHANGED <<intr, raised, sigpending, hvars, handled, pending_events,
                   pipe, open, pc, stdin_ready, events>>

ReapDone ==
    /\ At("reap") /\ todo = {}
    /\ pc' = "interrupt"
    /\ UNCHANGED <<env, sigpending, hvars, handled, pending_events, pipe,
                   open, stdin_ready, events, todo>>

\* Seeded bug: the interrupt is served only when stdin is idle.
HandleInterrupt_late ==
    /\ At("interrupt")
    /\ intr' = (intr /\ (INT \notin events \/ stdin_ready))
    /\ events' = {}
    /\ pc' = IF stdin_ready THEN "input" ELSE "select"
    /\ UNCHANGED <<changed, raised, sigpending, hvars, handled,
                   pending_events, pipe, open, stdin_ready, todo>>

\* shell_reset_input and a fresh prompt; a failed write ends shell_run.
HandleInterrupt ==
    /\ At("interrupt")
    /\ intr' = (intr /\ INT \notin events)
    /\ events' = {}
    /\ \/ pc' = IF stdin_ready THEN "input" ELSE "select"
       \/ INT \in events /\ pc' = "destroy"
    /\ UNCHANGED <<changed, raised, sigpending, hvars, handled,
                   pending_events, pipe, open, stdin_ready, todo>>

\* shell_read_input takes one byte: inside a line, its end, or end of file.
ReadInput ==
    /\ At("input")
    /\ pc' \in {"select", "dispatch", "destroy"}
    /\ UNCHANGED <<env, sigpending, hvars, handled, pending_events, pipe,
                   open, stdin_ready, events, todo>>

\* A dispatched command may collect children itself (job_wait_foreground).
DispatchWait(c) ==
    /\ At("dispatch") /\ c \in changed
    /\ changed' = changed \ {c}
    /\ UNCHANGED <<intr, raised, sigpending, hvars, handled, pending_events,
                   pipe, open, pc, stdin_ready, events, todo>>

DispatchReturn ==
    /\ At("dispatch")
    /\ pc' \in {"select", "destroy"}
    /\ UNCHANGED <<env, sigpending, hvars, handled, pending_events, pipe,
                   open, stdin_ready, events, todo>>

---------------------------------------------------------------------------
(* shell_cleanup: job_shutdown collects every child, then the handlers go, *)
(* then the pipe they write to.                                            *)

ContextDestroy ==
    /\ At("destroy")
    /\ changed' = {}
    /\ intr' = FALSE
    /\ pc' = "signal_off"
    /\ UNCHANGED <<raised, sigpending, hvars, handled, pending_events, pipe,
                   open, stdin_ready, events, todo>>

\* Seeded bug: the handlers stay installed.
SignalShutdown_keeps ==
    /\ At("signal_off")
    /\ pending_events' = {}
    /\ pc' = "event_off"
    /\ UNCHANGED <<env, sigpending, handled, hvars, pipe, open, stdin_ready,
                   events, todo>>

SignalShutdown ==
    /\ At("signal_off")
    /\ handled' = FALSE
    /\ sigpending' = {}
    /\ pending_events' = {}
    /\ pc' = "event_off"
    /\ UNCHANGED <<env, hvars, pipe, open, stdin_ready, events, todo>>

EventShut ==
    /\ At("event_off")
    /\ open' = FALSE
    /\ pipe' = 0
    /\ pc' = "exit"
    /\ UNCHANGED <<env, sigpending, hvars, handled, pending_events,
                   stdin_ready, events, todo>>

---------------------------------------------------------------------------
Handler == (\E s \in Signals : Deliver(s)) \/ HandlerFlag \/ HandlerNotify

EventSteps ==
    \/ DrainRead \/ DrainEmpty
    \/ TakeBlock \/ TakeRead \/ TakeClear \/ TakeUnblock
    \/ HandleChild \/ (\E c \in Child : ReapOne(c)) \/ ReapDone
    \/ HandleInterrupt

Cleanup == ContextDestroy \/ SignalShutdown \/ EventShut

Main ==
    \/ Select \/ EventSteps \/ ReadInput
    \/ (\E c \in Child : DispatchWait(c)) \/ DispatchReturn
    \/ Cleanup

Environment == (\E c \in Child : ChildChanges(c)) \/ CtrlC

Terminated == pc = "exit" /\ UNCHANGED vars

Next == Environment \/ Handler \/ Main \/ Terminated

Spec == Init /\ [][Next]_vars

(* The kernel delivers unblocked signals, a handler and the loop body run  *)
(* on, and select returns when the event pipe is readable.  Nobody is      *)
(* obliged to type, and a dispatched command may take for ever.            *)
Fairness ==
    /\ WF_vars(Handler)
    /\ WF_vars(EventSteps)
    /\ WF_vars(ReadInput)
    /\ WF_vars(Cleanup)
    /\ WF_vars(Select /\ pipe > 0)

FairSpec == Spec /\ Fairness

---------------------------------------------------------------------------
(* Properties.                                                             *)

\* No lost wakeup (shell.c event_drain before signal_take_events, sig.c flag
\* before event_notify): the shell never sits in a select that nothing will
\* end while a child waits to be collected or a Ctrl+C to be acted on.
NeverSleepsOnWork ==
    (pc = "select" /\ hpc = "idle" /\ sigpending = {} /\ pipe = 0)
        => (changed = {} /\ ~intr)

\* docs/architecture.md: the exit order keeps a handler from using the event
\* pipe after event_shut has closed it.
HandlerHasPipe == hpc # "idle" => open

\* Every child state change is collected, unless a dispatched command keeps
\* the loop to itself for ever (shell_run, job_reap).
ChangesCollected ==
    []<>(pc # "dispatch") =>
        \A c \in Child : (c \in changed) ~> (c \notin changed)

\* A Ctrl+C reaches shell_reset_input, with the same exception.
InterruptsServed == []<>(pc # "dispatch") => (intr ~> ~intr)

=============================================================================
