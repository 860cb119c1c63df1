------------------------------ MODULE UartLink ------------------------------
(***************************************************************************)
(* The request/reply protocol over a serial line: uart_protocol_request    *)
(* (src/uart_protocol.c) on the serial port (src/serial_port.c), and the   *)
(* firmware at the other end (examples/stm32_uart_protocol).               *)
(*                                                                         *)
(* A line of text travels as two chunks, "head" and "tail"; the tail holds *)
(* the newline.  A chunk remembers the request it belongs to, which the    *)
(* bytes do not: replies have no transaction number.  Nor have they a      *)
(* checksum or a parity bit, so that a damaged line may read as any other. *)
(***************************************************************************)
EXTENDS Integers, Sequences

\* The operators of the link: recovers is the set of failures after which one
\* recovers it; requests and faults bound the requests of the behaviour and
\* the chunks lost or garbled on the line.
CONSTANT Operators

VARIABLES
    pc, n, cmd,     \* the request in progress, its number and its command
    sent, line,     \* chunks written, chunks of the reply read
    late,           \* its deadline has passed
    reply,          \* the reply it returned
    opened, broken, \* Device: opened, and state ERROR
    suspect,        \* it failed in a way the operator recovers from
    deceived,       \* history: a line not received as sent was accepted
    toDev, toHost,  \* chunks on the line
    input,          \* chunks in the input queue of the port
    feed, led,      \* the firmware: its line buffer and its LED
    faults,
    operator        \* whose link this is

host == <<pc, n, cmd, sent, line, late, reply>>
port == <<opened, broken, suspect, deceived>>
device == <<feed, led>>
link == <<host, port, device, toDev, toHost, input, faults>>
vars == <<link, operator>>

\* A line of text: a word of the protocol and its number, if it has one.
NoArg == -1
Word(name) == [name |-> name, arg |-> NoArg]
Numbered(name, k) == [name |-> name, arg |-> k]

Commands(k) ==
    {Word("PING"), Word("STATUS"), Numbered("LED", 0), Numbered("LED", 1),
     Numbered("HEARTBEAT", k)}

NoReply == [of |-> 0, text |-> Word("NONE")]
Err == Word("ERR")
Errors == {"ETIMEDOUT", "EPROTO", "EMSGSIZE", "EIO"}

Chunk(k, text, part) == [of |-> k, text |-> text, part |-> part]

\* Damaged chunks, which are of no request: characters that no line may have,
\* or other printable ones, with a newline or without.
Garbage == Word("GARBAGE")
Noise == Chunk(0, Garbage, "noise")
Garbled(part) == Chunk(0, Garbage, part)

ASSUME OperatorsAssumption ==
    Operators \subseteq [recovers : SUBSET Errors, requests : Nat, faults : Nat]

MaxRequests == operator.requests
MaxFaults == operator.faults
RecoverAfter == operator.recovers

Texts == [name : {"PING", "PONG", "STATUS", "LED", "HEARTBEAT", "ERR", "NONE", "GARBAGE"},
          arg : Nat \cup {NoArg}]
Chunks == [of : Nat, text : Texts, part : {"head", "tail", "noise"}]

TypeOK ==
    /\ pc \in {"idle", "write", "read", "check"}
    /\ n \in 0..MaxRequests /\ cmd \in Texts
    /\ sent \in 0..2 /\ line \in Seq(Chunks) /\ late \in BOOLEAN
    /\ reply \in [of : Nat, text : Texts]
    /\ opened \in BOOLEAN /\ broken \in BOOLEAN /\ suspect \in BOOLEAN
    /\ deceived \in BOOLEAN
    /\ toDev \in Seq(Chunks) /\ toHost \in Seq(Chunks) /\ input \in Seq(Chunks)
    /\ feed \in Seq(Chunks) /\ led \in {0, 1}
    /\ faults \in 0..MaxFaults
    /\ operator \in Operators

\* The line is one that was sent, and nothing else.
Whole(chunks) ==
    /\ Len(chunks) = 2
    /\ chunks[1].part = "head" /\ chunks[2].part = "tail"
    /\ chunks[1].of = chunks[2].of /\ chunks[1].text = chunks[2].text
    /\ chunks[1].text # Garbage

\* The request that a received line belongs to; 0 if it was never sent so.
Source(chunks) == IF Whole(chunks) THEN chunks[1].of ELSE 0

\* The texts that damage may make.
AnyText ==
    {Err, Word("PONG"), Numbered("STATUS", 0), Numbered("STATUS", 1)}
        \cup UNION {Commands(k) : k \in 1..MaxRequests}

\* What a received line may say.  Noise shows, and the end of a line alone is
\* never a text of the protocol; pieces of two lines, a gap between them and
\* printable damage may be any.
Readings(chunks) ==
    IF Whole(chunks) THEN {chunks[1].text}
    ELSE IF \/ \E j \in 1..Len(chunks) : chunks[j].part = "noise"
            \/ Len(chunks) = 1 /\ chunks[1].text # Garbage
           THEN {Err}
           ELSE AnyText

---------------------------------------------------------------------------
(* The host.                                                               *)

\* Seeded bug: HEARTBEAT takes any number.
Valid_any_number(c, text) ==
    CASE c.name = "PING" -> text = Word("PONG")
      [] c.name = "LED" -> text = c
      [] OTHER -> text.name = c.name

\* validate_reply
Valid(c, text) ==
    CASE c.name = "PING" -> text = Word("PONG")
      [] c.name = "STATUS" -> text.name = "STATUS"
      [] OTHER -> text = c

\* Seeded bug: the queue keeps what had arrived.
TcFlush_none(queue) == queue

TcFlush(queue) == <<>>

\* Seeded bug: writing is not under the deadline.
Expired_reading == late /\ pc # "write"

\* remaining_ms(deadline) < 0
Expired == late

Written(k) == k = 2

Fail(err) ==
    /\ pc' = "idle"
    /\ suspect' = (suspect \/ err \in RecoverAfter)
    /\ UNCHANGED <<n, cmd, sent, line, late, reply, opened, deceived>>

\* uart_protocol_request up to the flush of the input.  One that
\* device_ready refuses has no effect on the link.
Request ==
    /\ pc = "idle" /\ n < MaxRequests
    /\ opened /\ ~broken /\ ~suspect
    /\ n' = n + 1
    /\ cmd' \in Commands(n + 1)
    /\ pc' = "write" /\ sent' = 0 /\ line' = <<>>
    /\ late' = FALSE /\ reply' = NoReply
    /\ input' = TcFlush(input)
    /\ UNCHANGED <<port, device, toDev, toHost, faults>>

Deadline ==
    /\ pc # "idle" /\ ~late
    /\ late' = TRUE
    /\ UNCHANGED <<pc, n, cmd, sent, line, reply, port, device, toDev, toHost,
                   input, faults>>

\* serial_port_write_all, which may time out with a part written.
HostWrite ==
    /\ pc = "write" /\ ~Expired
    /\ toDev' = Append(toDev, Chunk(n, cmd, IF sent = 0 THEN "head" ELSE "tail"))
    /\ sent' = sent + 1
    /\ pc' = IF Written(sent + 1) THEN "read" ELSE "write"
    /\ UNCHANGED <<n, cmd, line, late, reply, port, device, toHost, input, faults>>

\* The receive loop.  Without a newline two heads may be longer than a line.
HostRead ==
    /\ pc = "read" /\ ~Expired /\ input # <<>>
    /\ input' = Tail(input)
    /\ LET c == Head(input)
       IN  \/ /\ c.part # "noise"
              /\ line' = Append(line, c)
              /\ pc' = IF c.part = "tail" THEN "check" ELSE "read"
              /\ UNCHANGED <<n, cmd, sent, late, reply, port>>
           \/ /\ c.part = "noise"
              /\ Fail("EPROTO") /\ UNCHANGED broken
           \/ /\ c.part = "head" /\ line # <<>>
              /\ Fail("EMSGSIZE") /\ UNCHANGED broken
    /\ UNCHANGED <<device, toDev, toHost, faults>>

\* After the newline: the deadline once more, then the reply.
HostCheck ==
    /\ pc = "check"
    /\ \E text \in Readings(line) :
         CASE Expired -> Fail("ETIMEDOUT") /\ UNCHANGED broken
           [] ~Expired /\ ~Valid(cmd, text) -> Fail("EPROTO") /\ UNCHANGED broken
           [] OTHER ->
                /\ reply' = [of |-> Source(line), text |-> text]
                /\ deceived' = (deceived \/ Source(line) = 0)
                /\ pc' = "idle"
                /\ UNCHANGED <<n, cmd, sent, line, late, opened, broken, suspect>>
    /\ UNCHANGED <<device, toDev, toHost, input, faults>>

HostTimeout ==
    /\ pc \in {"write", "read"} /\ Expired
    /\ Fail("ETIMEDOUT")
    /\ UNCHANGED <<broken, device, toDev, toHost, input, faults>>

\* End of file, a hangup or an error of the port: DEVICE_ERROR.
HostError ==
    /\ pc \in {"write", "read"}
    /\ Fail("EIO")
    /\ broken' = TRUE
    /\ UNCHANGED <<device, toDev, toHost, input, faults>>

---------------------------------------------------------------------------
(* The firmware.                                                           *)

\* Seeded bug: the result of set_led is not looked at.
LedReply_unchecked(v, ok) == Numbered("LED", v)

LedReply(v, ok) == IF ok THEN Numbered("LED", v) ELSE Err

\* stm32_uart_protocol_handle; ok is whether set_led or get_led works.
Answer(text, ok) ==
    CASE text = Word("PING") -> Word("PONG")
      [] text = Word("STATUS") -> IF ok THEN Numbered("STATUS", led) ELSE Err
      [] text.name = "LED" -> LedReply(text.arg, ok)
      [] text.name = "HEARTBEAT" -> text
      [] OTHER -> Err

\* A set_led that fails may have set it.
LedAfter(text, ok) ==
    IF text.name # "LED" THEN {led}
    ELSE IF ok THEN {text.arg} ELSE {led, text.arg}

\* stm32_uart_protocol_feed
DevFeed ==
    /\ toDev # <<>>
    /\ toDev' = Tail(toDev)
    /\ LET got == Append(feed, Head(toDev))
       IN  IF Head(toDev).part # "tail"
             THEN feed' = got /\ UNCHANGED <<led, toHost>>
             ELSE \E text \in Readings(got), ok \in BOOLEAN :
                    LET a == Answer(text, ok)
                    IN  /\ led' \in LedAfter(text, ok)
                        /\ toHost' = toHost \o
                             <<Chunk(Source(got), a, "head"), Chunk(Source(got), a, "tail")>>
                        /\ feed' = <<>>
    /\ UNCHANGED <<host, port, input, faults>>

\* The firmware restarts while the link is being recovered.
DevRestart ==
    /\ ~opened
    /\ toDev' = <<>> /\ toHost' = <<>> /\ feed' = <<>> /\ led' = 0
    /\ UNCHANGED <<host, port, input, faults>>

---------------------------------------------------------------------------
(* The line, and the operator.                                             *)

Arrive ==
    /\ toHost # <<>>
    /\ input' = Append(input, Head(toHost))
    /\ toHost' = Tail(toHost)
    /\ UNCHANGED <<host, port, device, toDev, faults>>

\* A chunk is lost, or other characters arrive for it.
Damaged(queue) ==
    {Tail(queue)} \cup
    {<<c>> \o Tail(queue) : c \in {Noise, Garbled("head"), Garbled("tail")}}

Fault ==
    /\ faults < MaxFaults
    /\ faults' = faults + 1
    /\ \/ toDev # <<>> /\ toDev' \in Damaged(toDev) /\ UNCHANGED toHost
       \/ toHost # <<>> /\ toHost' \in Damaged(toHost) /\ UNCHANGED toDev
    /\ UNCHANGED <<host, port, device, input>>

\* device close
Close ==
    /\ pc = "idle" /\ opened
    /\ opened' = FALSE /\ broken' = FALSE
    /\ reply' = NoReply
    /\ UNCHANGED <<pc, n, cmd, sent, line, late, suspect, deceived, device, toDev,
                   toHost, input, faults>>

\* device open.  docs/device_layer.md: the operator who recovers the link
\* waits until the firmware has drained it.
Open ==
    /\ ~opened
    /\ suspect => toDev = <<>> /\ toHost = <<>>
    /\ opened' = TRUE /\ suspect' = FALSE
    /\ deceived' = (deceived /\ ~(toDev = <<>> /\ toHost = <<>>))
    /\ input' = TcFlush(input)
    /\ UNCHANGED <<host, broken, device, toDev, toHost, faults>>

---------------------------------------------------------------------------
Init ==
    /\ pc = "idle" /\ n = 0 /\ cmd = Word("PING")
    /\ sent = 0 /\ line = <<>> /\ late = FALSE /\ reply = NoReply
    /\ opened = FALSE /\ broken = FALSE /\ suspect = FALSE /\ deceived = FALSE
    /\ toDev = <<>> /\ toHost = <<>> /\ input = <<>>
    /\ feed = <<>> /\ led = 0 /\ faults = 0
    /\ operator \in Operators

Step ==
    \/ Request \/ Deadline \/ HostWrite \/ HostRead \/ HostCheck
    \/ HostTimeout \/ HostError
    \/ DevFeed \/ DevRestart \/ Arrive \/ Fault \/ Open \/ Close

Next == Step /\ UNCHANGED operator

Spec == Init /\ [][Next]_vars

\* The clock runs, and the host process does; a port that never becomes
\* writable, a silent firmware and an idle operator are all allowed.
FairSpec ==
    /\ Spec
    /\ WF_link(Deadline) /\ WF_link(HostRead)
    /\ WF_link(HostCheck) /\ WF_link(HostTimeout)

---------------------------------------------------------------------------
(* Properties.                                                             *)

Careful == RecoverAfter = Errors

\* With the recovery procedure of docs/device_layer.md after every failure, a
\* reply that uart_protocol_request accepts answers that very request, though
\* replies carry no transaction number and may come after the deadline.  This
\* lasts until damage makes a line that validate_reply takes for a reply: that
\* one need not be true, nothing tells the operator to recover, and the real
\* reply may still come.
OwnReply == Careful /\ ~deceived /\ reply # NoReply => reply.of = n

\* With the same procedure, and as long, an accepted LED or STATUS reply tells
\* the state the LED is in.
LedConfirmed ==
    Careful /\ ~deceived /\ reply.text.name \in {"LED", "STATUS"} => reply.text.arg = led

\* Without any recovery, and after any deception, a HEARTBEAT still never takes
\* the undamaged reply to the undamaged line of another one, because it echoes
\* the number (taken as different in each request).  A damaged digit can make it
\* take a reply that is nobody's.
HeartbeatOwn ==
    reply.text.name = "HEARTBEAT" /\ reply.of # 0 => reply.of = n

\* docs/device_layer.md: sending and receiving share one deadline.  Every
\* request returns, with a port that is not writable and with a silent or
\* garbling peer.
RequestReturns == pc # "idle" ~> pc = "idle"
=============================================================================
