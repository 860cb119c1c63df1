------------------------------ MODULE Watchdog ------------------------------
(***************************************************************************)
(* The hardware watchdog: the access layer (src/watchdog_device.c) and the *)
(* program that keeps the timer alive (tools/watchdog_demo.c), against a   *)
(* timer that resets the board.  A timer runs from open on, and stops at   *)
(* close only if the device was told so with the magic character, or does  *)
(* not know it.                                                            *)
(*                                                                         *)
(* Time is counted in ticks, Second of them in a second.  The scheduler    *)
(* may hold the runnable program back by up to Delay ticks between two     *)
(* pings of the timer.                                                     *)
(***************************************************************************)
EXTENDS Integers

CONSTANTS
    Durations,      \* durations on the command line, in seconds
    Actual,         \* timeouts the driver may choose, whatever it is asked for
    Default,        \* the timeout the driver starts with
    Second, Delay   \* ticks in a second; ticks a runnable program may wait

ASSUME ConstantsOK ==
    /\ Durations \subseteq Nat \ {0}
    /\ Actual \subseteq Nat \ {0} /\ Default \in Actual
    /\ Second \in Nat \ {0} /\ Delay \in Nat
    /\ Default * Second > Second + Delay

\* The option bits of WDIOC_GETSUPPORT that the code looks at.
Options == {"SETTIMEOUT", "MAGICCLOSE"}

VARIABLES
    \* the program
    pc, cmd,        \* its next step; its arguments
    handlers, stop, \* SIGINT and SIGTERM are handled; stop_requested
    info, timeout,  \* of the WatchdogDevice
    elapsed, result,
    nap,            \* ticks of the nanosleep that are left
    \* the device
    opts, nowayout, \* its options; TRUE when nothing stops its timer
    armed, period, left,    \* the timer: running, its period, ticks left
    magic,          \* the magic character is the last thing written
    reset,          \* the board has been reset
    \* what the properties need to know
    late, waited,   \* ticks held back since a ping, in the loop since stop
    iofail          \* a magic write or a close failed

program == <<pc, cmd, handlers, stop, info, timeout, elapsed, result, nap>>
device  == <<opts, nowayout, armed, period, left, magic, reset>>
history == <<late, waited, iofail>>
vars    == <<program, device, history>>

Commands == [what : {"info", "keepalive", "bad"}, duration : Durations]

TypeOK ==
    /\ pc \in {"install", "open", "support", "gettimeout", "abort", "command",
               "settimeout", "loop", "ping", "nanosleep", "sleep", "close",
               "release", "ended"}
    /\ cmd \in Commands
    /\ handlers \in BOOLEAN /\ stop \in BOOLEAN
    /\ info \subseteq Options /\ timeout \in Actual \cup {0}
    /\ elapsed \in 0..cmd.duration
    /\ result \in {0, -1} /\ nap \in Nat
    /\ opts \subseteq Options /\ nowayout \in BOOLEAN
    /\ armed \in BOOLEAN /\ period \in Actual
    /\ left \in 0..(period * Second) /\ magic \in BOOLEAN /\ reset \in BOOLEAN
    /\ late \in 0..Delay /\ waited \in Nat
    /\ iofail \in BOOLEAN

Init ==
    /\ pc = "install" /\ cmd \in Commands
    /\ handlers = FALSE /\ stop = FALSE
    /\ info = {} /\ timeout = 0 /\ elapsed = 0 /\ result = -1 /\ nap = 0
    /\ opts \in SUBSET Options /\ nowayout \in BOOLEAN
    /\ armed = FALSE /\ period = Default /\ left = 0
    /\ magic = FALSE /\ reset = FALSE
    /\ late = 0 /\ waited = 0 /\ iofail = FALSE

---------------------------------------------------------------------------
(* The device, as the Linux watchdog core drives it.                       *)

\* A ping, with the period that is valid from now on.
Ping(p) ==
    /\ period' = p
    /\ left' = p * Second
    /\ late' = 0

\* What close does to the timer.
Stops == ~nowayout /\ (magic \/ "MAGICCLOSE" \notin opts)

\* write_magic_close: a write is a ping too.
WriteMagic ==
    \/ magic' = TRUE /\ Ping(period) /\ UNCHANGED iofail
    \/ iofail' = TRUE /\ UNCHANGED <<magic, period, left, late>>

InLoop == {"loop", "ping", "nanosleep", "sleep"}

\* A tick of the clock.
Tick ==
    /\ armed \/ nap > 0
    /\ \/ nap > 0 /\ UNCHANGED late
       \/ pc = "ended" /\ UNCHANGED late
       \/ nap = 0 /\ pc # "ended" /\ late < Delay /\ late' = late + 1
    /\ nap' = IF nap > 0 THEN nap - 1 ELSE 0
    /\ left' = IF armed THEN left - 1 ELSE left
    /\ reset' = (armed /\ left = 1)
    /\ waited' = IF stop /\ pc \in InLoop THEN waited + 1 ELSE waited
    /\ UNCHANGED <<pc, cmd, handlers, stop, info, timeout, elapsed, result,
                   opts, nowayout, armed, period, magic, iofail>>

\* SIGINT or SIGTERM: handle_signal, and the end of a nanosleep; without a
\* handler the end of the program.
Signal ==
    /\ pc # "ended"
    /\ IF handlers
         THEN stop' = TRUE /\ nap' = 0 /\ UNCHANGED pc
         ELSE pc' = "ended" /\ UNCHANGED <<stop, nap>>
    /\ UNCHANGED <<cmd, handlers, info, timeout, elapsed, result, device, late,
                   waited, iofail>>

---------------------------------------------------------------------------
(* main and watchdog_device_open.                                          *)

\* install_signal_handlers, before the timer can run.
InstallHandlers ==
    /\ pc = "install"
    /\ \/ handlers' = TRUE /\ pc' = "open"
       \/ pc' = "ended" /\ UNCHANGED handlers
    /\ UNCHANGED <<cmd, stop, info, timeout, elapsed, result, nap, device, history>>

Open ==
    /\ pc = "open"
    /\ \/ /\ armed' = TRUE /\ Ping(period)
          /\ pc' = "support"
       \/ pc' = "ended" /\ UNCHANGED <<armed, period, left, late>>
    /\ UNCHANGED <<cmd, handlers, stop, info, timeout, elapsed, result, nap,
                   opts, nowayout, magic, reset, waited, iofail>>

\* Seeded bug: the magic character only for options that are known.
SupportFails_plain == pc' = "abort" /\ UNCHANGED <<magic, period, left, late, iofail>>

\* The options are unknown: the magic character is written in any case.
SupportFails == pc' = "abort" /\ WriteMagic

GetSupport ==
    /\ pc = "support"
    /\ \/ /\ info' = opts /\ pc' = "gettimeout"
          /\ UNCHANGED <<magic, period, left, late, iofail>>
       \/ SupportFails /\ UNCHANGED info
    /\ UNCHANGED <<cmd, handlers, stop, timeout, elapsed, result, nap, opts,
                   nowayout, armed, reset, waited>>

GetTimeout ==
    /\ pc = "gettimeout"
    /\ \/ /\ timeout' = period /\ pc' = "command"
          /\ UNCHANGED <<magic, period, left, late, iofail>>
       \/ /\ pc' = "abort" /\ UNCHANGED timeout
          /\ IF "MAGICCLOSE" \in info
               THEN WriteMagic
               ELSE UNCHANGED <<magic, period, left, late, iofail>>
    /\ UNCHANGED <<cmd, handlers, stop, info, elapsed, result, nap, opts,
                   nowayout, armed, reset, waited>>

\* close: its result matters to watchdog_device_close only.
Release ==
    /\ armed' = (armed /\ ~Stops)
    /\ left' = IF armed' THEN period * Second ELSE left
    /\ pc' = "ended"
    /\ UNCHANGED <<cmd, handlers, stop, elapsed, nap, opts, nowayout, period,
                   magic, reset, late, waited>>

AbortOpen == pc = "abort" /\ Release /\ UNCHANGED <<info, timeout, result, iofail>>

---------------------------------------------------------------------------
(* run_info and run_keepalive.                                             *)

Command ==
    /\ pc = "command"
    /\ \/ cmd.what = "info" /\ result' = 0 /\ pc' = "close"
       \/ cmd.what = "bad" /\ pc' = "close" /\ UNCHANGED result
       \/ /\ cmd.what = "keepalive"
          /\ pc' = IF "SETTIMEOUT" \in info THEN "settimeout" ELSE "close"
          /\ UNCHANGED result
    /\ UNCHANGED <<cmd, handlers, stop, info, timeout, elapsed, nap, device,
                   history>>

\* The driver answers with the timeout it has chosen.
SetTimeout ==
    /\ pc = "settimeout"
    /\ \/ \E t \in Actual : timeout' = t /\ Ping(t) /\ pc' = "loop"
       \/ pc' = "close" /\ UNCHANGED <<timeout, period, left, late>>
    /\ UNCHANGED <<cmd, handlers, stop, info, elapsed, result, nap, opts,
                   nowayout, armed, magic, reset, waited, iofail>>

\* Seeded bug: a stop request is not looked at.
Continues_deaf == elapsed < cmd.duration

\* while (!stop_requested && elapsed < duration)
Continues == ~stop /\ elapsed < cmd.duration

\* Seeded bug: the sleep is as long as the timeout.
SleepTicks_timeout == timeout * Second

\* sleep_seconds(1)
SleepTicks == Second

LoopTop ==
    /\ pc = "loop"
    /\ \/ Continues /\ pc' = "ping" /\ UNCHANGED result
       \/ ~Continues /\ pc' = "close" /\ result' = 0
    /\ UNCHANGED <<cmd, handlers, stop, info, timeout, elapsed, nap, device,
                   history>>

\* watchdog_device_keepalive
Keepalive ==
    /\ pc = "ping"
    /\ \/ Ping(period) /\ pc' = "nanosleep"
       \/ pc' = "close" /\ UNCHANGED <<period, left, late>>
    /\ UNCHANGED <<cmd, handlers, stop, info, timeout, elapsed, result, nap,
                   opts, nowayout, armed, magic, reset, waited, iofail>>

\* A signal that came before this step does not shorten the sleep.  A failure
\* other than EINTR ends the loop with an error.
Sleep ==
    /\ pc = "nanosleep"
    /\ \/ nap' = SleepTicks /\ pc' = "sleep"
       \/ pc' = "close" /\ UNCHANGED nap
    /\ UNCHANGED <<cmd, handlers, stop, info, timeout, elapsed, result, device,
                   history>>

\* Seeded bug: the rounds are not counted.
Wake_uncounted ==
    /\ pc = "sleep" /\ nap = 0
    /\ pc' = "loop"
    /\ UNCHANGED <<cmd, handlers, stop, info, timeout, elapsed, result, nap,
                   device, history>>

Wake ==
    /\ pc = "sleep" /\ nap = 0
    /\ elapsed' = elapsed + 1 /\ pc' = "loop"
    /\ UNCHANGED <<cmd, handlers, stop, info, timeout, result, nap, device,
                   history>>

---------------------------------------------------------------------------
(* watchdog_device_close.                                                  *)

\* Seeded bug: the magic character's write is not checked.
Failed_close(ok) == ~ok

\* A failure of the write or of the close is a failure of the program.
Failed(ok) == ~ok \/ iofail

CloseMagic ==
    /\ pc = "close"
    /\ pc' = "release"
    /\ IF "MAGICCLOSE" \in info
         THEN WriteMagic
         ELSE UNCHANGED <<magic, period, left, late, iofail>>
    /\ UNCHANGED <<cmd, handlers, stop, info, timeout, elapsed, result, nap,
                   opts, nowayout, armed, reset, waited>>

Close ==
    /\ pc = "release"
    /\ Release
    /\ info' = {} /\ timeout' = 0
    /\ \E ok \in BOOLEAN :
         /\ iofail' = (iofail \/ ~ok)
         /\ result' = IF Failed(ok) THEN -1 ELSE result

---------------------------------------------------------------------------
Program ==
    \/ InstallHandlers \/ Open \/ GetSupport \/ GetTimeout \/ AbortOpen
    \/ Command \/ SetTimeout \/ LoopTop \/ Keepalive \/ Sleep \/ Wake
    \/ CloseMagic \/ Close

Quiet == (reset \/ (pc = "ended" /\ ~armed)) /\ UNCHANGED vars

Next == (~reset /\ (Program \/ Signal \/ Tick)) \/ Quiet

\* The scheduler runs the program, and time passes.
Spec ==
    /\ Init /\ [][Next]_vars
    /\ WF_vars(~reset /\ Program) /\ WF_vars(~reset /\ Tick)

---------------------------------------------------------------------------
(* Properties.                                                             *)

\* watchdog_device_open and run_keepalive: the board is not reset under a
\* program that is alive, if the timeout the driver has chosen is longer than
\* a sleep and the delays of a round.
ServedInTime ==
    reset => pc = "ended" \/ period * Second <= Second + Delay

\* docs/board_runtime_hardware.md, Magic Close and Signal exit: a program that
\* reports success has stopped the timer, if the timer can be stopped.
SuccessMeansStopped ==
    (pc = "ended" /\ result = 0 /\ armed) => nowayout

\* Every other way out stops it too, a failed open and a signal at any moment
\* included, unless the writing of the magic character or the close failed.
StoppedAtEnd ==
    (pc = "ended" /\ armed /\ ~nowayout) => iofail

\* A stop request ends the keepalive loop within one sleep, also when it comes
\* between the test of stop_requested and nanosleep.
StopIsPrompt == waited <= Second + 2 * Delay

\* The program ends, or the board is reset.
DemoEnds == <>(pc = "ended" \/ reset)
=============================================================================
