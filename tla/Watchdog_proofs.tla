-------------------------- MODULE Watchdog_proofs --------------------------
(***************************************************************************)
(* The safety properties of Watchdog, for every timeout a driver may       *)
(* choose, every duration, every length of a second and every delay of the *)
(* scheduler.  The proofs use no fairness.                                 *)
(***************************************************************************)
EXTENDS Watchdog, TLAPS

---------------------------------------------------------------------------
(* The inductive invariant.                                                *)

\* Signals are handled from before the open to the end; only a sleeping
\* program has ticks of a nanosleep left; a round is counted when it ends.
ControlOK ==
    /\ pc \notin {"install", "ended"} => handlers
    /\ nap > 0 => pc = "sleep"
    /\ nap <= Second
    /\ pc \in {"ping", "nanosleep", "sleep"} => elapsed < cmd.duration

\* The ticks of the last nanosleep that have passed since the last ping.
Slept ==
    IF pc = "sleep" THEN Second - nap
    ELSE IF pc \in {"loop", "ping", "close", "release"} THEN Second
    ELSE 0

\* The timer of a program that is alive has lost since the last ping only the
\* ticks of one sleep and those the program was held back for.
TimerOK ==
    /\ pc \in {"install", "open"} => ~armed
    /\ reset => left = 0
    /\ (armed /\ ~reset) => left > 0
    /\ pc \notin {"install", "open", "ended"} =>
         left >= period * Second - (late + Slept)

\* What is known of the magic character on the way to the close.
MagicOK ==
    /\ pc \in {"gettimeout", "command", "settimeout", "loop", "ping",
               "nanosleep", "sleep", "close", "release"} => info = opts
    /\ pc \in {"abort", "release"} =>
         magic \/ iofail \/ "MAGICCLOSE" \notin opts

\* Success is a result of run_info and run_keepalive; a failed close undoes it.
ResultOK ==
    /\ pc \in {"install", "open", "support", "gettimeout", "abort"} => result = -1
    /\ (pc = "ended" /\ result = 0) => ~iofail

\* The ticks since a stop request, by the place the program has reached.
PromptOK ==
    /\ ~stop => waited = 0
    /\ pc \in {"install", "open", "support", "gettimeout", "abort", "command",
               "settimeout"} => waited = 0
    /\ pc = "ping" => waited <= late
    /\ pc = "nanosleep" => waited <= Delay + late
    /\ pc = "sleep" => waited <= Delay + late + (Second - nap)
    /\ pc = "loop" => waited <= Delay + late + Second
    /\ StopIsPrompt

IndInv ==
    /\ TypeOK /\ ControlOK /\ TimerOK /\ MagicOK /\ ResultOK /\ PromptOK
    /\ StoppedAtEnd /\ ServedInTime

\* A period lasts for at least one tick.
LEMMA PeriodPositive == \A p \in Actual : p * Second \in Nat \ {0}
  BY ConstantsOK

\* Every step of the program, the device and the clock keeps the invariant.
LEMMA Inductive == IndInv /\ [Next]_vars => IndInv'
<1> SUFFICES ASSUME IndInv, [Next]_vars
             PROVE  IndInv'
  OBVIOUS
<1> USE ConstantsOK, PeriodPositive
<1>0. CASE UNCHANGED vars
  BY <1>0
  DEF IndInv, TypeOK, ControlOK, TimerOK, Slept, MagicOK, ResultOK, PromptOK,
      StopIsPrompt, StoppedAtEnd, ServedInTime, vars, program, device, history
<1>1. CASE ~reset /\ InstallHandlers
  <2>1. TypeOK'
    BY <1>1
    DEF InstallHandlers, IndInv, TypeOK, TimerOK, Options, device, history
  <2>2. ControlOK'
    BY <1>1 DEF InstallHandlers, IndInv, ControlOK
  <2>3. TimerOK'
    BY <1>1 DEF InstallHandlers, IndInv, TimerOK, device
  <2>4. MagicOK'
    BY <1>1 DEF InstallHandlers, MagicOK
  <2>5. ResultOK'
    BY <1>1 DEF InstallHandlers, IndInv, ResultOK
  <2>6. PromptOK'
    BY <1>1 DEF InstallHandlers, IndInv, PromptOK, StopIsPrompt, history
  <2>7. StoppedAtEnd'
    BY <1>1 DEF InstallHandlers, IndInv, StoppedAtEnd, TimerOK, device
  <2>8. ServedInTime'
    BY <1>1 DEF InstallHandlers, ServedInTime, device
  <2> QED
    BY <2>1, <2>2, <2>3, <2>4, <2>5, <2>6, <2>7, <2>8 DEF IndInv
<1>2. CASE ~reset /\ Open
  <2>1. TypeOK'
    <3>1. period' \in Actual /\ left' \in 0..(period' * Second) /\ late' \in 0..Delay
      BY <1>2 DEF Open, Ping, IndInv, TypeOK
    <3>2. magic' \in BOOLEAN /\ iofail' \in BOOLEAN /\ armed' \in BOOLEAN
      BY <1>2, Zenon DEF Open, IndInv, TypeOK
    <3> QED
      BY <1>2, <3>1, <3>2 DEF Open, IndInv, TypeOK
  <2>2. ControlOK'
    BY <1>2 DEF Open, IndInv, ControlOK
  <2>3. TimerOK'
    BY <1>2 DEF Open, Ping, IndInv, TypeOK, TimerOK, Slept
  <2>4. MagicOK'
    BY <1>2 DEF Open, MagicOK
  <2>5. ResultOK'
    BY <1>2 DEF Open, IndInv, ResultOK
  <2>6. PromptOK'
    BY <1>2 DEF Open, IndInv, PromptOK, StopIsPrompt
  <2>7. StoppedAtEnd'
    BY <1>2 DEF Open, IndInv, StoppedAtEnd, TimerOK
  <2>8. ServedInTime'
    BY <1>2 DEF Open, ServedInTime
  <2> QED
    BY <2>1, <2>2, <2>3, <2>4, <2>5, <2>6, <2>7, <2>8 DEF IndInv
<1>3. CASE ~reset /\ GetSupport
  <2>1. TypeOK'
    <3>1. period' \in Actual /\ left' \in 0..(period' * Second) /\ late' \in 0..Delay
      BY <1>3 DEF GetSupport, SupportFails, WriteMagic, Ping, IndInv, TypeOK
    <3>2. magic' \in BOOLEAN /\ iofail' \in BOOLEAN /\ armed' \in BOOLEAN
      BY <1>3, Zenon DEF GetSupport, SupportFails, WriteMagic, IndInv, TypeOK
    <3> QED
      BY <1>3, <3>1, <3>2 DEF GetSupport, SupportFails, IndInv, TypeOK
  <2>2. ControlOK'
    BY <1>3 DEF GetSupport, SupportFails, IndInv, ControlOK
  <2>3. TimerOK'
    BY <1>3
    DEF GetSupport, SupportFails, WriteMagic, Ping, IndInv, TypeOK, TimerOK,
        Slept
  <2>4. MagicOK'
    BY <1>3 DEF GetSupport, SupportFails, WriteMagic, MagicOK
  <2>5. ResultOK'
    BY <1>3 DEF GetSupport, IndInv, ResultOK
  <2>6. PromptOK'
    BY <1>3 DEF GetSupport, SupportFails, IndInv, PromptOK, StopIsPrompt
  <2>7. StoppedAtEnd'
    BY <1>3 DEF GetSupport, SupportFails, StoppedAtEnd
  <2>8. ServedInTime'
    BY <1>3 DEF GetSupport, ServedInTime
  <2> QED
    BY <2>1, <2>2, <2>3, <2>4, <2>5, <2>6, <2>7, <2>8 DEF IndInv
<1>4. CASE ~reset /\ GetTimeout
  <2>1. TypeOK'
    <3>1. period' \in Actual /\ left' \in 0..(period' * Second) /\ late' \in 0..Delay
      BY <1>4 DEF GetTimeout, WriteMagic, Ping, IndInv, TypeOK
    <3>2. magic' \in BOOLEAN /\ iofail' \in BOOLEAN /\ armed' \in BOOLEAN
      BY <1>4, Zenon DEF GetTimeout, WriteMagic, IndInv, TypeOK
    <3> QED
      BY <1>4, <3>1, <3>2 DEF GetTimeout, IndInv, TypeOK
  <2>2. ControlOK'
    BY <1>4 DEF GetTimeout, IndInv, ControlOK
  <2>3. TimerOK'
    BY <1>4 DEF GetTimeout, WriteMagic, Ping, IndInv, TypeOK, TimerOK, Slept
  <2>4. MagicOK'
    BY <1>4 DEF GetTimeout, WriteMagic, IndInv, MagicOK
  <2>5. ResultOK'
    BY <1>4 DEF GetTimeout, IndInv, ResultOK
  <2>6. PromptOK'
    BY <1>4 DEF GetTimeout, IndInv, PromptOK, StopIsPrompt
  <2>7. StoppedAtEnd'
    BY <1>4 DEF GetTimeout, StoppedAtEnd
  <2>8. ServedInTime'
    BY <1>4 DEF GetTimeout, ServedInTime
  <2> QED
    BY <2>1, <2>2, <2>3, <2>4, <2>5, <2>6, <2>7, <2>8 DEF IndInv
<1>5. CASE ~reset /\ AbortOpen
  <2>1. TypeOK'
    BY <1>5 DEF AbortOpen, Release, IndInv, TypeOK
  <2>2. ControlOK'
    BY <1>5 DEF AbortOpen, Release, IndInv, ControlOK
  <2>3. TimerOK'
    BY <1>5 DEF AbortOpen, Release, IndInv, TypeOK, TimerOK
  <2>4. MagicOK'
    BY <1>5 DEF AbortOpen, Release, MagicOK
  <2>5. ResultOK'
    BY <1>5 DEF AbortOpen, IndInv, ResultOK
  <2>6. PromptOK'
    BY <1>5 DEF AbortOpen, Release, IndInv, PromptOK, StopIsPrompt
  <2>7. StoppedAtEnd'
    BY <1>5 DEF AbortOpen, Release, Stops, IndInv, StoppedAtEnd, MagicOK
  <2>8. ServedInTime'
    BY <1>5 DEF AbortOpen, Release, ServedInTime
  <2> QED
    BY <2>1, <2>2, <2>3, <2>4, <2>5, <2>6, <2>7, <2>8 DEF IndInv
<1>6. CASE ~reset /\ Command
  <2>1. TypeOK'
    BY <1>6 DEF Command, IndInv, TypeOK, device, history
  <2>2. ControlOK'
    BY <1>6 DEF Command, IndInv, ControlOK
  <2>3. TimerOK'
    BY <1>6 DEF Command, IndInv, TypeOK, TimerOK, Slept, device, history
  <2>4. MagicOK'
    BY <1>6 DEF Command, IndInv, MagicOK, device
  <2>5. ResultOK'
    BY <1>6 DEF Command, ResultOK
  <2>6. PromptOK'
    BY <1>6 DEF Command, IndInv, PromptOK, StopIsPrompt, history
  <2>7. StoppedAtEnd'
    BY <1>6 DEF Command, StoppedAtEnd
  <2>8. ServedInTime'
    BY <1>6 DEF Command, ServedInTime, device
  <2> QED
    BY <2>1, <2>2, <2>3, <2>4, <2>5, <2>6, <2>7, <2>8 DEF IndInv
<1>7. CASE ~reset /\ SetTimeout
  <2>1. TypeOK'
    BY <1>7 DEF SetTimeout, Ping, IndInv, TypeOK
  <2>2. ControlOK'
    BY <1>7 DEF SetTimeout, IndInv, ControlOK
  <2>3. TimerOK'
    BY <1>7 DEF SetTimeout, Ping, IndInv, TypeOK, TimerOK, Slept
  <2>4. MagicOK'
    BY <1>7 DEF SetTimeout, IndInv, MagicOK
  <2>5. ResultOK'
    BY <1>7 DEF SetTimeout, ResultOK
  <2>6. PromptOK'
    BY <1>7 DEF SetTimeout, Ping, IndInv, PromptOK, StopIsPrompt
  <2>7. StoppedAtEnd'
    BY <1>7 DEF SetTimeout, StoppedAtEnd
  <2>8. ServedInTime'
    BY <1>7 DEF SetTimeout, ServedInTime
  <2> QED
    BY <2>1, <2>2, <2>3, <2>4, <2>5, <2>6, <2>7, <2>8 DEF IndInv
<1>8. CASE ~reset /\ LoopTop
  <2>1. TypeOK'
    BY <1>8 DEF LoopTop, IndInv, TypeOK, device, history
  <2>2. ControlOK'
    BY <1>8 DEF LoopTop, Continues, IndInv, ControlOK
  <2>3. TimerOK'
    BY <1>8 DEF LoopTop, IndInv, TimerOK, Slept, device, history
  <2>4. MagicOK'
    BY <1>8 DEF LoopTop, IndInv, MagicOK, device
  <2>5. ResultOK'
    BY <1>8 DEF LoopTop, ResultOK
  <2>6. PromptOK'
    BY <1>8
    DEF LoopTop, Continues, IndInv, PromptOK, StopIsPrompt, TypeOK, history
  <2>7. StoppedAtEnd'
    BY <1>8 DEF LoopTop, StoppedAtEnd
  <2>8. ServedInTime'
    BY <1>8 DEF LoopTop, ServedInTime, device
  <2> QED
    BY <2>1, <2>2, <2>3, <2>4, <2>5, <2>6, <2>7, <2>8 DEF IndInv
<1>9. CASE ~reset /\ Keepalive
  <2>1. TypeOK'
    BY <1>9 DEF Keepalive, Ping, IndInv, TypeOK
  <2>2. ControlOK'
    BY <1>9 DEF Keepalive, IndInv, ControlOK
  <2>3. TimerOK'
    BY <1>9 DEF Keepalive, Ping, IndInv, TypeOK, TimerOK, Slept
  <2>4. MagicOK'
    BY <1>9 DEF Keepalive, IndInv, MagicOK
  <2>5. ResultOK'
    BY <1>9 DEF Keepalive, ResultOK
  <2>6. PromptOK'
    BY <1>9 DEF Keepalive, Ping, IndInv, PromptOK, StopIsPrompt, TypeOK
  <2>7. StoppedAtEnd'
    BY <1>9 DEF Keepalive, StoppedAtEnd
  <2>8. ServedInTime'
    BY <1>9 DEF Keepalive, ServedInTime
  <2> QED
    BY <2>1, <2>2, <2>3, <2>4, <2>5, <2>6, <2>7, <2>8 DEF IndInv
<1>10. CASE ~reset /\ Sleep
  <2>1. TypeOK'
    BY <1>10 DEF Sleep, SleepTicks, IndInv, TypeOK, device, history
  <2>2. ControlOK'
    BY <1>10 DEF Sleep, SleepTicks, IndInv, ControlOK
  <2>3. TimerOK'
    <3>1. CASE nap' = SleepTicks /\ pc' = "sleep"
      BY <1>10, <3>1
      DEF Sleep, SleepTicks, IndInv, TypeOK, TimerOK, Slept, device, history
    <3>2. CASE pc' = "close" /\ UNCHANGED nap
      <4>1. Second \in Nat /\ left \in Int /\ late \in Int /\ period * Second \in Int
        BY PeriodPositive DEF IndInv, TypeOK
      <4>2. left >= period * Second - (late + 0)
        BY <1>10 DEF Sleep, IndInv, TimerOK, Slept
      <4>3. left >= period * Second - (late + Second)
        BY <4>1, <4>2
      <4> QED
        BY <1>10, <3>2, <4>3 DEF Sleep, IndInv, TimerOK, Slept, device, history
    <3> QED
      BY <1>10, <3>1, <3>2 DEF Sleep
  <2>4. MagicOK'
    BY <1>10 DEF Sleep, IndInv, MagicOK, device
  <2>5. ResultOK'
    BY <1>10 DEF Sleep, ResultOK
  <2>6. PromptOK'
    BY <1>10
    DEF Sleep, SleepTicks, IndInv, PromptOK, StopIsPrompt, TypeOK, history
  <2>7. StoppedAtEnd'
    BY <1>10 DEF Sleep, StoppedAtEnd
  <2>8. ServedInTime'
    BY <1>10 DEF Sleep, ServedInTime, device
  <2> QED
    BY <2>1, <2>2, <2>3, <2>4, <2>5, <2>6, <2>7, <2>8 DEF IndInv
<1>11. CASE ~reset /\ Wake
  <2>1. TypeOK'
    <3>1. cmd.duration \in Nat
      BY DEF IndInv, TypeOK, Commands
    <3> QED
      BY <1>11, <3>1 DEF Wake, IndInv, TypeOK, ControlOK, device, history
  <2>2. ControlOK'
    BY <1>11 DEF Wake, IndInv, ControlOK
  <2>3. TimerOK'
    BY <1>11 DEF Wake, IndInv, TimerOK, Slept, device, history
  <2>4. MagicOK'
    BY <1>11 DEF Wake, IndInv, MagicOK, device
  <2>5. ResultOK'
    BY <1>11 DEF Wake, ResultOK
  <2>6. PromptOK'
    BY <1>11 DEF Wake, IndInv, PromptOK, StopIsPrompt, history
  <2>7. StoppedAtEnd'
    BY <1>11 DEF Wake, StoppedAtEnd
  <2>8. ServedInTime'
    BY <1>11 DEF Wake, ServedInTime, device
  <2> QED
    BY <2>1, <2>2, <2>3, <2>4, <2>5, <2>6, <2>7, <2>8 DEF IndInv
<1>12. CASE ~reset /\ CloseMagic
  <2>1. TypeOK'
    <3>1. period' \in Actual /\ left' \in 0..(period' * Second) /\ late' \in 0..Delay
      BY <1>12 DEF CloseMagic, WriteMagic, Ping, IndInv, TypeOK
    <3>2. magic' \in BOOLEAN /\ iofail' \in BOOLEAN /\ armed' \in BOOLEAN
      BY <1>12, Zenon DEF CloseMagic, WriteMagic, IndInv, TypeOK
    <3> QED
      BY <1>12, <3>1, <3>2 DEF CloseMagic, IndInv, TypeOK
  <2>2. ControlOK'
    BY <1>12 DEF CloseMagic, IndInv, ControlOK
  <2>3. TimerOK'
    BY <1>12 DEF CloseMagic, WriteMagic, Ping, IndInv, TypeOK, TimerOK, Slept
  <2>4. MagicOK'
    BY <1>12 DEF CloseMagic, WriteMagic, IndInv, MagicOK
  <2>5. ResultOK'
    BY <1>12 DEF CloseMagic, ResultOK
  <2>6. PromptOK'
    BY <1>12 DEF CloseMagic, IndInv, PromptOK, StopIsPrompt
  <2>7. StoppedAtEnd'
    BY <1>12 DEF CloseMagic, StoppedAtEnd
  <2>8. ServedInTime'
    BY <1>12 DEF CloseMagic, ServedInTime
  <2> QED
    BY <2>1, <2>2, <2>3, <2>4, <2>5, <2>6, <2>7, <2>8 DEF IndInv
<1>13. CASE ~reset /\ Close
  <2>1. TypeOK'
    BY <1>13 DEF Close, Release, IndInv, TypeOK
  <2>2. ControlOK'
    BY <1>13 DEF Close, Release, IndInv, ControlOK
  <2>3. TimerOK'
    BY <1>13 DEF Close, Release, IndInv, TypeOK, TimerOK
  <2>4. MagicOK'
    BY <1>13 DEF Close, Release, MagicOK
  <2>5. ResultOK'
    BY <1>13 DEF Close, Release, Failed, IndInv, ResultOK, TypeOK
  <2>6. PromptOK'
    BY <1>13 DEF Close, Release, IndInv, PromptOK, StopIsPrompt
  <2>7. StoppedAtEnd'
    BY <1>13 DEF Close, Release, Stops, IndInv, StoppedAtEnd, MagicOK
  <2>8. ServedInTime'
    BY <1>13 DEF Close, Release, ServedInTime
  <2> QED
    BY <2>1, <2>2, <2>3, <2>4, <2>5, <2>6, <2>7, <2>8 DEF IndInv
<1>14. CASE ~reset /\ Signal
  <2>1. TypeOK'
    <3>1. stop' \in BOOLEAN
      BY <1>14, Zenon DEF Signal, IndInv, TypeOK
    <3> QED
      BY <1>14, <3>1 DEF Signal, IndInv, TypeOK, device
  <2>2. ControlOK'
    BY <1>14 DEF Signal, IndInv, ControlOK
  <2>3. TimerOK'
    BY <1>14 DEF Signal, IndInv, TypeOK, TimerOK, Slept, device
  <2>4. MagicOK'
    BY <1>14 DEF Signal, IndInv, MagicOK, device
  <2>5. ResultOK'
    BY <1>14 DEF Signal, IndInv, ResultOK, ControlOK
  <2>6. PromptOK'
    BY <1>14 DEF Signal, IndInv, PromptOK, StopIsPrompt, TypeOK
  <2>7. StoppedAtEnd'
    BY <1>14 DEF Signal, IndInv, StoppedAtEnd, ControlOK, TimerOK, device
  <2>8. ServedInTime'
    BY <1>14 DEF Signal, ServedInTime, device
  <2> QED
    BY <2>1, <2>2, <2>3, <2>4, <2>5, <2>6, <2>7, <2>8 DEF IndInv
<1>15. CASE ~reset /\ Tick
  <2>1. TypeOK'
    BY <1>15 DEF Tick, IndInv, TypeOK, TimerOK
  <2>2. ControlOK'
    BY <1>15 DEF Tick, IndInv, TypeOK, ControlOK
  <2>3. TimerOK'
    BY <1>15 DEF Tick, IndInv, TypeOK, ControlOK, TimerOK, Slept
  <2>4. MagicOK'
    BY <1>15 DEF Tick, IndInv, MagicOK
  <2>5. ResultOK'
    BY <1>15 DEF Tick, IndInv, ResultOK
  <2>6. PromptOK'
    BY <1>15 DEF Tick, InLoop, IndInv, PromptOK, StopIsPrompt, TypeOK, ControlOK
  <2>7. StoppedAtEnd'
    BY <1>15 DEF Tick, IndInv, StoppedAtEnd
  <2>8. ServedInTime'
    BY <1>15 DEF Tick, IndInv, ServedInTime, TypeOK, TimerOK, ControlOK, Slept
  <2> QED
    BY <2>1, <2>2, <2>3, <2>4, <2>5, <2>6, <2>7, <2>8 DEF IndInv
<1>16. CASE Quiet
  BY <1>0, <1>16 DEF Quiet
<1> QED
  BY <1>0, <1>1, <1>2, <1>3, <1>4, <1>5, <1>6, <1>7, <1>8, <1>9, <1>10, <1>11, <1>12, <1>13, <1>14, <1>15, <1>16
  DEF Next, Program

\* The program that has not started, and a timer nobody has opened.
LEMMA Initial == Init => IndInv
<1> SUFFICES ASSUME Init PROVE IndInv
  OBVIOUS
<1>1. cmd.duration \in Nat
  BY ConstantsOK DEF Init, Commands
<1>2. TypeOK
  <2>1. period \in Actual /\ left \in 0..(period * Second)
    BY ConstantsOK, PeriodPositive DEF Init
  <2>2. elapsed \in 0..cmd.duration /\ late \in 0..Delay
    BY ConstantsOK, <1>1 DEF Init
  <2> QED
    BY <2>1, <2>2 DEF Init, TypeOK
<1>3. ControlOK /\ TimerOK /\ MagicOK /\ ResultOK
  BY ConstantsOK DEF Init, ControlOK, TimerOK, MagicOK, ResultOK
<1>4. PromptOK /\ StoppedAtEnd /\ ServedInTime
  BY ConstantsOK DEF Init, PromptOK, StopIsPrompt, StoppedAtEnd, ServedInTime
<1> QED
  BY <1>2, <1>3, <1>4 DEF IndInv

---------------------------------------------------------------------------
(* The theorems.                                                           *)

\* The invariant holds in every behaviour of watchdog_demo.
THEOREM Invariance == Spec => []IndInv
<1>1. Spec => Init /\ [][Next]_vars
  BY PTL DEF Spec
<1> QED
  BY <1>1, Initial, Inductive, PTL

\* Every variable of the program, of the timer and of the clock keeps its type.
THEOREM TypeCorrect == Spec => []TypeOK
<1>1. IndInv => TypeOK
  BY DEF IndInv
<1> QED
  BY <1>1, Invariance, PTL

\* The pings of watchdog_device_open and run_keepalive come in time, for any
\* timeout that is longer than a sleep and the delays of a round.
THEOREM BoardServed == Spec => []ServedInTime
<1>1. IndInv => ServedInTime
  BY DEF IndInv
<1> QED
  BY <1>1, Invariance, PTL

\* Every way out of the program stops the timer, unless a write of the magic
\* character or the close failed.
THEOREM TimerStopped == Spec => []StoppedAtEnd
<1>1. IndInv => StoppedAtEnd
  BY DEF IndInv
<1> QED
  BY <1>1, Invariance, PTL

\* A program that reports success has stopped a timer that can be stopped: the
\* result of watchdog_device_close covers the magic character and the close.
THEOREM SuccessIsReal == Spec => []SuccessMeansStopped
<1>1. IndInv => SuccessMeansStopped
  BY DEF IndInv, ResultOK, StoppedAtEnd, SuccessMeansStopped
<1> QED
  BY <1>1, Invariance, PTL

\* A stop request ends the keepalive loop within one sleep and two delays.
THEOREM PromptStop == Spec => []StopIsPrompt
<1>1. IndInv => StopIsPrompt
  BY DEF IndInv, PromptOK
<1> QED
  BY <1>1, Invariance, PTL
=============================================================================
