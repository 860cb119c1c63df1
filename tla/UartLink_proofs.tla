-------------------------- MODULE UartLink_proofs --------------------------
(***************************************************************************)
(* The safety properties of UartLink, for every number of requests and of  *)
(* faults, and operators who recover the link after any set of failures.   *)
(***************************************************************************)
EXTENDS UartLink, SequenceTheorems, TLAPS

---------------------------------------------------------------------------
(* The inductive invariant.                                                *)

\* The chunks that may be on the line at all: an LED has two states, and a
\* HEARTBEAT carries the number of its request, except for an answer to damage.
Good ==
    {c \in Chunks : /\ c.text.name = "LED" => c.text.arg \in {0, 1}
                    /\ c.text.name = "HEARTBEAT" /\ c.of # 0 => c.text.arg = c.of}

\* Chunks of no request: damage, and answers to it.
Nobodys == {c \in Chunks : c.of = 0}

\* Chunks of request k, and nobody's.
Own(k) == {c \in Chunks : c.of = k \/ c.of = 0}

\* Chunks that end no line of a request.
Unended == {c \in Chunks : c.part # "tail" \/ c.of = 0}

\* Chunks that do not misreport an LED in state v, nobody's aside.
Tells(v) ==
    {c \in Chunks : c.of # 0 /\ c.text.name \in {"LED", "STATUS"} => c.text.arg = v}

\* Nothing follows the end of a request's line.
Ordered(q) == \A i \in 1..Len(q) : q[i].part = "tail" /\ q[i].of # 0 => i = Len(q)

MessagesOK ==
    /\ toDev \in Seq(Good) /\ toHost \in Seq(Good) /\ input \in Seq(Good)
    /\ feed \in Seq(Good) /\ line \in Seq(Good)

ControlOK ==
    /\ pc = "write" => sent \in {0, 1}
    /\ pc \in {"read", "check"} => sent = 2
    /\ pc # "idle" => opened /\ ~suspect /\ reply = NoReply /\ cmd \in Commands(n)
    /\ reply # NoReply => opened /\ ~suspect

\* The link of a careful operator, no failure and no deception since the last
\* recovery.  It is empty between requests.  During one it holds, besides
\* damage and what damage is answered with, chunks of that request only: the
\* request's, and once those are gone the reply's, up to its end.
QuietLine == toDev = <<>> /\ toHost = <<>> /\ input = <<>>

RequestLine ==
    /\ toDev \in Seq(Own(n)) /\ toHost \in Seq(Own(n))
    /\ input \in Seq(Own(n)) /\ line \in Seq(Own(n))
    /\ Ordered(toDev) /\ Ordered(toHost) /\ Ordered(input)
    /\ sent < 2 => toDev \in Seq(Unended)
    /\ (sent < 2 \/ toDev # <<>>) =>
         toHost \in Seq(Nobodys) /\ input \in Seq(Nobodys) /\ line \in Seq(Nobodys)
    /\ toHost # <<>> => input \in Seq(Unended) /\ line \in Seq(Unended)
    /\ input # <<>> => line \in Seq(Unended)

\* What the reply says of the LED is true, on the line already.
LedOK ==
    /\ toHost \in Seq(Tells(led)) /\ input \in Seq(Tells(led))
    /\ line \in Seq(Tells(led))

CarefulOK ==
    (Careful /\ ~suspect /\ ~deceived) =>
      /\ pc = "idle" => QuietLine
      /\ pc # "idle" => RequestLine /\ LedOK

IndInv ==
    /\ TypeOK /\ MessagesOK /\ ControlOK /\ CarefulOK
    /\ OwnReply /\ LedConfirmed /\ HeartbeatOwn

---------------------------------------------------------------------------
(* Lines of text and queues of chunks.                                     *)

\* The texts of the protocol are texts; damage is a chunk like any other.
LEMMA TextTypes ==
    /\ Err \in Texts /\ Word("PING") \in Texts /\ Word("PONG") \in Texts
    /\ Word("NONE") \in Texts /\ Garbage \in Texts
    /\ \A k \in Nat : Commands(k) \subseteq Texts
    /\ \A k \in Nat : Numbered("LED", k) \in Texts /\ Numbered("STATUS", k) \in Texts
  BY DEF Err, Garbage, Word, Numbered, NoArg, Commands, Texts

Damage == {Noise, Garbled("head"), Garbled("tail")}

LEMMA DamageTypes ==
    ASSUME NEW c \in Damage
    PROVE  /\ c \in Good /\ c \in Chunks /\ c \in Nobodys /\ c \in Unended
           /\ c.of = 0
           /\ \A k \in Nat : c \in Own(k)
           /\ \A v : c \in Tells(v)
  <1>1. /\ c.of = 0 /\ c.text = Garbage /\ c.part \in {"noise", "head", "tail"}
        /\ c = [of |-> 0, text |-> Garbage, part |-> c.part]
    BY DEF Damage, Noise, Garbled, Chunk
  <1>2. c \in Chunks
    BY <1>1, TextTypes DEF Chunks
  <1>3. Garbage.name = "GARBAGE"
    BY DEF Garbage, Word
  <1> QED
    BY <1>1, <1>2, <1>3 DEF Good, Nobodys, Unended, Own, Tells

\* A command's chunks are good ones.
LEMMA CommandChunks ==
    ASSUME NEW k \in Nat, NEW c \in Commands(k), NEW part \in {"head", "tail"}
    PROVE  Chunk(k, c, part) \in Good
  <1>1. c \in Texts
    BY TextTypes
  <1>2. /\ c.name = "LED" => c.arg \in {0, 1}
        /\ c.name = "HEARTBEAT" => c.arg = k
    BY DEF Commands, Word, Numbered
  <1> QED
    BY <1>1, <1>2 DEF Chunk, Good, Chunks

\* What damage may make of a text is a text.
LEMMA AnyTextType ==
    ASSUME MaxRequests \in Nat, NEW text \in AnyText
    PROVE  text \in Texts /\ (text.name = "LED" => text.arg \in {0, 1})
  <1>1. CASE text \in {Err, Word("PONG"), Numbered("STATUS", 0), Numbered("STATUS", 1)}
    BY <1>1 DEF Err, Word, Numbered, NoArg, Texts
  <1>2. CASE text \in UNION {Commands(k) : k \in 1..MaxRequests}
    <2>1. PICK k \in Nat : text \in Commands(k)
      BY <1>2
    <2> QED
      BY <2>1 DEF Commands, Word, Numbered, NoArg, Texts
  <1> QED
    BY <1>1, <1>2 DEF AnyText

\* A received line says a text, and that of its chunks if it is of a request.
LEMMA ReadingType ==
    ASSUME MaxRequests \in Nat, NEW q \in Seq(Good), NEW text \in Readings(q)
    PROVE  /\ text \in Texts /\ (text.name = "LED" => text.arg \in {0, 1})
           /\ Source(q) \in Nat
           /\ Source(q) # 0 =>
                /\ Len(q) = 2 /\ text = q[1].text
                /\ q[1] \in Good /\ q[2] \in Good
                /\ q[1].of = Source(q) /\ q[2].of = Source(q)
                /\ q[1].part = "head" /\ q[2].part = "tail"
  <1>1. CASE Whole(q)
    <2>1. /\ Len(q) = 2 /\ q[1].part = "head" /\ q[2].part = "tail"
          /\ q[1].of = q[2].of /\ text = q[1].text /\ Source(q) = q[1].of
      BY <1>1 DEF Whole, Readings, Source
    <2>2. q[1] \in Good /\ q[2] \in Good
      <3>1. 1 \in 1..Len(q) /\ 2 \in 1..Len(q)
        BY <2>1
      <3> QED
        BY <3>1, ElementOfSeq, Zenon
    <2> QED
      BY <2>1, <2>2 DEF Good, Chunks
  <1>2. CASE ~Whole(q)
    <2>1. Source(q) = 0 /\ (text = Err \/ text \in AnyText)
      BY <1>2 DEF Source, Readings
    <2> QED
      BY <2>1, AnyTextType, TextTypes DEF Err, Word
  <1> QED
    BY <1>1, <1>2

\* What leaves a queue whose lines are ended properly, and what stays.
LEMMA OrderedPop ==
    ASSUME NEW q \in Seq(Chunks), q # <<>>, Ordered(q)
    PROVE  Ordered(Tail(q)) /\ (Head(q) \notin Unended => Tail(q) = <<>>)
  <1>1. /\ Len(q) \in Nat \ {0} /\ Len(Tail(q)) = Len(q) - 1 /\ Tail(q) \in Seq(Chunks)
        /\ \A i \in 1..Len(Tail(q)) : Tail(q)[i] = q[i + 1]
    BY HeadTailProperties, EmptySeq
  <1>2. Head(q) = q[1]
    OBVIOUS
  <1>3. Ordered(Tail(q))
    <2> SUFFICES ASSUME NEW i \in 1..Len(Tail(q)), Tail(q)[i].part = "tail", Tail(q)[i].of # 0
                 PROVE  i = Len(Tail(q))
      BY DEF Ordered
    <2>1. i + 1 \in 1..Len(q) /\ q[i + 1].part = "tail" /\ q[i + 1].of # 0
      BY <1>1
    <2>2. i + 1 = Len(q)
      BY <2>1 DEF Ordered
    <2>3. i \in Int /\ Len(q) \in Int /\ Len(Tail(q)) = Len(q) - 1
      BY <1>1
    <2> QED
      BY <2>2, <2>3
  <1>4. ASSUME Head(q) \notin Unended
        PROVE  Tail(q) = <<>>
    <2>1. 1 \in 1..Len(q) /\ q[1].part = "tail" /\ q[1].of # 0
      BY <1>1, <1>2, <1>4, ElementOfSeq DEF Unended
    <2>2. Len(q) = 1
      BY <2>1 DEF Ordered
    <2>3. Len(Tail(q)) = 0
      BY <1>1, <2>2
    <2> QED
      BY <1>1, <2>3, EmptySeq
  <1> QED
    BY <1>3, <1>4

\* A chunk behind others that end no line.
LEMMA OrderedPush ==
    ASSUME NEW q \in Seq(Unended), NEW c \in Chunks
    PROVE  Ordered(Append(q, c))
  <1>1. q \in Seq(Chunks) /\ \A i \in 1..Len(q) : ~(q[i].part = "tail" /\ q[i].of # 0)
    BY ElementOfSeq DEF Unended
  <1>2. /\ Len(Append(q, c)) = Len(q) + 1 /\ Len(q) \in Nat
        /\ \A i \in 1..Len(q) : Append(q, c)[i] = q[i]
    BY <1>1, AppendProperties, LenProperties
  <1> QED
    BY <1>1, <1>2 DEF Ordered

\* Nobody's chunks end no line of a request, and say nothing of the LED.
LEMMA NobodysQueue ==
    ASSUME NEW q \in Seq(Nobodys)
    PROVE  /\ q \in Seq(Chunks) /\ q \in Seq(Unended) /\ Ordered(q)
           /\ \A k : q \in Seq(Own(k))
           /\ \A v : q \in Seq(Tells(v))
  <1>1. /\ Nobodys \subseteq Chunks /\ Nobodys \subseteq Unended
        /\ \A k : Nobodys \subseteq Own(k)
        /\ \A v : Nobodys \subseteq Tells(v)
    BY DEF Nobodys, Unended, Own, Tells
  <1>2. \A i \in 1..Len(q) : q[i].of = 0
    BY ElementOfSeq DEF Nobodys
  <1> QED
    BY <1>1, <1>2 DEF Ordered

\* An ended line behind nobody's chunks.
LEMMA OrderedBehind ==
    ASSUME NEW q \in Seq(Nobodys), NEW r \in Seq(Chunks), Ordered(r)
    PROVE  Ordered(q \o r)
  <1>1. /\ Len(q \o r) = Len(q) + Len(r) /\ Len(q) \in Nat /\ Len(r) \in Nat
        /\ \A i \in 1..(Len(q) + Len(r)) :
             (q \o r)[i] = IF i <= Len(q) THEN q[i] ELSE r[i - Len(q)]
    BY ConcatProperties, LenProperties
  <1>2. \A i \in 1..Len(q) : q[i].of = 0
    BY ElementOfSeq DEF Nobodys
  <1> SUFFICES ASSUME NEW i \in 1..(Len(q) + Len(r)),
                      (q \o r)[i].part = "tail", (q \o r)[i].of # 0
               PROVE  i = Len(q) + Len(r)
    BY <1>1 DEF Ordered
  <1>3. ~(i <= Len(q))
    BY <1>1, <1>2
  <1>4. i - Len(q) \in 1..Len(r) /\ (q \o r)[i] = r[i - Len(q)]
    BY <1>1, <1>3
  <1>5. i - Len(q) = Len(r)
    BY <1>4 DEF Ordered
  <1> QED
    BY <1>1, <1>5

\* The reply of the firmware is one ended line.
LEMMA ReplyLine ==
    ASSUME NEW S, NEW h \in S, NEW t \in S
    PROVE  <<h, t>> \in Seq(S) /\ (h.part = "head" => Ordered(<<h, t>>))
  BY DEF Ordered

\* A fault takes the first chunk away, or puts damage in its place.
LEMMA DamagedQueue ==
    ASSUME NEW S, NEW q \in Seq(S), q # <<>>, \A c \in Damage : c \in S, NEW d \in Damaged(q)
    PROVE  d \in Seq(S)
  <1>1. CASE d = Tail(q)
    BY <1>1, HeadTailProperties
  <1>2. ASSUME NEW c \in Damage, d = <<c>> \o Tail(q)
        PROVE  d \in Seq(S)
    <2>1. Tail(q) \in Seq(S) /\ <<c>> \in Seq(S)
      BY HeadTailProperties
    <2> QED
      BY <1>2, <2>1, ConcatProperties
  <1> QED
    BY <1>1, <1>2 DEF Damaged, Damage

LEMMA DamagedOrdered ==
    ASSUME NEW q \in Seq(Chunks), q # <<>>, Ordered(q), NEW d \in Damaged(q)
    PROVE  Ordered(d)
  <1>1. CASE d = Tail(q)
    BY <1>1, OrderedPop
  <1>2. ASSUME NEW c \in Damage, d = <<c>> \o Tail(q)
        PROVE  Ordered(d)
    <2>1. Tail(q) \in Seq(Chunks) /\ <<c>> \in Seq(Nobodys)
      BY HeadTailProperties, DamageTypes
    <2>2. Ordered(Tail(q))
      BY OrderedPop
    <2> QED
      BY <1>2, <2>1, <2>2, OrderedBehind
  <1> QED
    BY <1>1, <1>2 DEF Damaged, Damage

---------------------------------------------------------------------------
(* Types, messages and control.                                            *)

Basics == TypeOK /\ MessagesOK /\ ControlOK

\* Good chunks are chunks, in queues too.
LEMMA GoodQueues == Seq(Good) \subseteq Seq(Chunks)
  BY DEF Good

LEMMA OperatorType ==
    ASSUME TypeOK
    PROVE  MaxRequests \in Nat /\ MaxFaults \in Nat
  BY OperatorsAssumption DEF TypeOK, MaxRequests, MaxFaults

\* What the firmware answers: chunks that are good and tell the state the LED is
\* left in.
LEMMA AnswerOK ==
    ASSUME Basics, NEW q \in Seq(Good), NEW text \in Readings(q), NEW ok \in BOOLEAN,
           NEW v \in LedAfter(text, ok), NEW part \in {"head", "tail"}
    PROVE  /\ Chunk(Source(q), Answer(text, ok), part) \in Good
           /\ Chunk(Source(q), Answer(text, ok), part) \in Tells(v)
           /\ v \in {0, 1}
  <1>1. /\ text \in Texts /\ (text.name = "LED" => text.arg \in {0, 1})
        /\ Source(q) \in Nat
        /\ Source(q) # 0 => text = q[1].text /\ q[1] \in Good /\ q[1].of = Source(q)
    BY ReadingType, OperatorType DEF Basics
  <1>2. text.name = "HEARTBEAT" /\ Source(q) # 0 => text.arg = Source(q)
    BY <1>1 DEF Good
  <1>3. led \in {0, 1}
    BY DEF Basics, TypeOK
  <1>4. v \in {0, 1}
    BY <1>1, <1>3 DEF LedAfter
  <1> DEFINE a == Answer(text, ok)
  <1>5. /\ a \in Texts
        /\ a.name = "LED" => a.arg \in {0, 1}
        /\ a.name = "HEARTBEAT" /\ Source(q) # 0 => a.arg = Source(q)
        /\ a.name \in {"LED", "STATUS"} => a.arg = v
    <2>1. CASE text = Word("PING")
      BY <2>1, TextTypes DEF Answer, Word
    <2>2. CASE text = Word("STATUS")
      BY <2>2, <1>3, TextTypes DEF Answer, LedAfter, Numbered, Err, Word
    <2>3. CASE text.name = "LED" /\ ok
      BY <2>3, <1>1 DEF Answer, LedAfter, LedReply, Numbered, Word, Texts
    <2>4. CASE text.name = "LED" /\ ~ok
      BY <2>4, TextTypes DEF Answer, LedReply, Err, Word
    <2>5. CASE text.name = "HEARTBEAT"
      BY <2>5, <1>1, <1>2 DEF Answer, Word
    <2>6. CASE /\ text # Word("PING") /\ text # Word("STATUS")
               /\ text.name \notin {"LED", "HEARTBEAT"}
      BY <2>6, TextTypes DEF Answer, Err, Word
    <2> QED
      BY <2>1, <2>2, <2>3, <2>4, <2>5, <2>6
  <1> HIDE DEF a
  <1>6. Chunk(Source(q), a, part) \in Good /\ Chunk(Source(q), a, part) \in Tells(v)
    BY <1>1, <1>5 DEF Chunk, Good, Chunks, Tells
  <1> QED
    BY <1>4, <1>6 DEF a

\* Every step keeps them.
LEMMA NextBasics ==
    ASSUME Basics, [Next]_vars
    PROVE  Basics'
  <1> USE DEF host, port, device
  <1>a. MaxRequests \in Nat /\ MaxFaults \in Nat
    BY OperatorType DEF Basics
  <1>b. operator' = operator /\ MaxRequests' = MaxRequests /\ MaxFaults' = MaxFaults
    BY DEF Next, vars, MaxRequests, MaxFaults
  <1>c. TypeOK /\ MessagesOK /\ ControlOK
    BY DEF Basics
  <1>1. CASE Request
    <2>1. cmd' \in Texts /\ NoReply \in [of : Nat, text : Texts]
      BY <1>1, <1>c, TextTypes DEF Request, TypeOK, NoReply
    <2>2. MessagesOK'
      BY <1>1, <1>c DEF Request, TcFlush, MessagesOK
    <2>n. n' \in 0..MaxRequests'
      BY <1>1, <1>a, <1>b, <1>c DEF Request, TypeOK
    <2>s. sent' \in 0..2
      BY <1>1 DEF Request
    <2>t. late' \in BOOLEAN /\ reply' \in [of : Nat, text : Texts]
      BY <1>1, <2>1, Zenon DEF Request
    <2>3. TypeOK'
      BY <1>1, <1>b, <1>c, <2>1, <2>2, <2>n, <2>s, <2>t, GoodQueues
      DEF Request, TypeOK, MessagesOK
    <2>4. ControlOK'
      BY <1>1 DEF Request, ControlOK
    <2> QED
      BY <2>2, <2>3, <2>4 DEF Basics
  <1>2. CASE Deadline
    <2>1. late' \in BOOLEAN
      BY <1>2, Zenon DEF Deadline
    <2> QED
      BY <1>2, <1>b, <1>c, <2>1 DEF Deadline, Basics, TypeOK, MessagesOK, ControlOK
  <1>3. CASE HostWrite
    <2>1. n \in Nat /\ sent \in {0, 1} /\ cmd \in Commands(n)
      BY <1>3, <1>a, <1>c DEF HostWrite, TypeOK, ControlOK
    <2>2. Chunk(n, cmd, IF sent = 0 THEN "head" ELSE "tail") \in Good
      BY <2>1, CommandChunks
    <2>3. MessagesOK'
      BY <1>3, <1>c, <2>2, AppendProperties DEF HostWrite, MessagesOK
    <2>s. sent' \in 0..2
      BY <1>3, <2>1 DEF HostWrite
    <2>4. TypeOK'
      BY <1>3, <1>b, <1>c, <2>3, <2>s, GoodQueues DEF HostWrite, TypeOK, MessagesOK
    <2>5. ControlOK'
      BY <1>3, <1>c, <2>1 DEF HostWrite, ControlOK, Written
    <2> QED
      BY <2>3, <2>4, <2>5 DEF Basics
  <1>4. CASE HostRead
    <2>1. Head(input) \in Good /\ Tail(input) \in Seq(Good)
      BY <1>4, <1>c, HeadTailProperties DEF HostRead, MessagesOK
    <2>2. line' \in Seq(Good)
      <3>1. line' = Append(line, Head(input)) \/ line' = line
        BY <1>4 DEF HostRead, Fail
      <3>2. Append(line, Head(input)) \in Seq(Good)
        BY <1>c, <2>1, AppendProperties DEF MessagesOK
      <3> QED
        BY <1>c, <3>1, <3>2 DEF MessagesOK
    <2>3. MessagesOK'
      BY <1>4, <1>c, <2>1, <2>2 DEF HostRead, MessagesOK
    <2>4. suspect' \in BOOLEAN
      BY <1>4, <1>c, Zenon DEF HostRead, Fail, TypeOK
    <2>5. TypeOK'
      BY <1>4, <1>b, <1>c, <2>3, <2>4, GoodQueues
      DEF HostRead, TypeOK, MessagesOK, Fail
    <2>6. ControlOK'
      <3>1. /\ UNCHANGED <<n, cmd, sent, opened, reply>> /\ pc = "read"
            /\ \/ pc' \in {"read", "check"} /\ UNCHANGED suspect
               \/ pc' = "idle"
        BY <1>4 DEF HostRead, Fail
      <3> QED
        BY <1>c, <3>1 DEF ControlOK
    <2> QED
      BY <2>3, <2>5, <2>6 DEF Basics
  <1>5. CASE HostCheck
    <2>1. UNCHANGED <<feed, led, toDev, toHost, input, faults, n, cmd, sent, line,
                      late, opened, broken>>
      BY <1>5 DEF HostCheck, Fail
    <2>2. suspect' \in BOOLEAN /\ deceived' \in BOOLEAN
      BY <1>5, <1>c, Zenon DEF HostCheck, Fail, TypeOK
    <2>3. pc' = "idle" /\ (reply' = reply \/ suspect' = suspect)
      BY <1>5 DEF HostCheck, Fail
    <2>4. reply' \in [of : Nat, text : Texts]
      <3>1. CASE reply' = reply
        BY <1>c, <3>1 DEF TypeOK
      <3>2. ASSUME NEW text \in Readings(line),
                   reply' = [of |-> Source(line), text |-> text]
            PROVE  reply' \in [of : Nat, text : Texts]
        <4>1. Source(line) \in Nat /\ text \in Texts
          BY <1>a, <1>c, ReadingType DEF MessagesOK
        <4> QED
          BY <3>2, <4>1
      <3> QED
        BY <1>5, <3>1, <3>2 DEF HostCheck, Fail
    <2>5. TypeOK' /\ MessagesOK'
      BY <1>b, <1>c, <2>1, <2>2, <2>3, <2>4 DEF TypeOK, MessagesOK
    <2>6. ControlOK'
      BY <1>5, <1>c, <2>1, <2>3 DEF HostCheck, ControlOK
    <2> QED
      BY <2>5, <2>6 DEF Basics
  <1>6. CASE HostTimeout \/ HostError
    <2>1. suspect' \in BOOLEAN /\ broken' \in BOOLEAN
      BY <1>6, <1>c, Zenon DEF HostTimeout, HostError, Fail, TypeOK
    <2>2. /\ UNCHANGED <<feed, led, toDev, toHost, input, faults, n, cmd, sent, line,
                         late, opened, reply, deceived>>
          /\ pc' = "idle" /\ pc # "idle"
      BY <1>6 DEF HostTimeout, HostError, Fail
    <2>3. TypeOK' /\ MessagesOK'
      BY <1>b, <1>c, <2>1, <2>2 DEF TypeOK, MessagesOK
    <2>4. ControlOK'
      BY <1>c, <2>2 DEF ControlOK
    <2> QED
      BY <2>3, <2>4 DEF Basics
  <1>7. CASE DevFeed
    <2> DEFINE c == Head(toDev)
               got == Append(feed, c)
    <2>1. c \in Good /\ toDev' \in Seq(Good) /\ toDev # <<>>
      BY <1>7, <1>c, HeadTailProperties DEF DevFeed, MessagesOK
    <2>2. UNCHANGED <<host, port, input, faults>>
      BY <1>7 DEF DevFeed
    <2>3. \/ feed' = got /\ UNCHANGED <<led, toHost>>
          \/ \E text \in Readings(got), ok \in BOOLEAN :
               /\ led' \in LedAfter(text, ok)
               /\ toHost' = toHost \o <<Chunk(Source(got), Answer(text, ok), "head"),
                                        Chunk(Source(got), Answer(text, ok), "tail")>>
               /\ feed' = <<>>
      BY <1>7 DEF DevFeed
    <2> HIDE DEF c
    <2>4. got \in Seq(Good)
      BY <1>c, <2>1, AppendProperties DEF MessagesOK
    <2> HIDE DEF got
    <2>5. feed' \in Seq(Good) /\ toHost' \in Seq(Good) /\ led' \in {0, 1}
      <3>1. CASE feed' = got /\ UNCHANGED <<led, toHost>>
        BY <1>c, <2>4, <3>1 DEF MessagesOK, TypeOK
      <3>2. ASSUME NEW text \in Readings(got), NEW ok \in BOOLEAN,
                   led' \in LedAfter(text, ok),
                   toHost' = toHost \o <<Chunk(Source(got), Answer(text, ok), "head"),
                                         Chunk(Source(got), Answer(text, ok), "tail")>>,
                   feed' = <<>>
            PROVE  feed' \in Seq(Good) /\ toHost' \in Seq(Good) /\ led' \in {0, 1}
        <4> DEFINE h == Chunk(Source(got), Answer(text, ok), "head")
                   t == Chunk(Source(got), Answer(text, ok), "tail")
        <4>1. h \in Good /\ t \in Good /\ led' \in {0, 1}
          BY <2>4, <3>2, AnswerOK
        <4> HIDE DEF h, t
        <4>2. <<h, t>> \in Seq(Good)
          BY <4>1, ReplyLine
        <4>3. toHost \o <<h, t>> \in Seq(Good)
          BY <1>c, <4>2, ConcatProperties DEF MessagesOK
        <4> QED
          BY <3>2, <4>1, <4>3 DEF h, t
      <3> QED
        BY <2>3, <3>1, <3>2
    <2>6. TypeOK' /\ MessagesOK' /\ ControlOK'
      BY <1>b, <1>c, <2>1, <2>2, <2>5, GoodQueues DEF TypeOK, MessagesOK, ControlOK
    <2> QED
      BY <2>6 DEF Basics
  <1>8. CASE DevRestart
    BY <1>8, <1>b, <1>c DEF DevRestart, Basics, TypeOK, MessagesOK, ControlOK
  <1>9. CASE Arrive
    <2>1. Head(toHost) \in Good /\ Tail(toHost) \in Seq(Good)
      BY <1>9, <1>c, HeadTailProperties DEF Arrive, MessagesOK
    <2>2. MessagesOK'
      BY <1>9, <1>c, <2>1, AppendProperties DEF Arrive, MessagesOK
    <2>3. TypeOK' /\ ControlOK'
      BY <1>9, <1>b, <1>c, <2>2, GoodQueues DEF Arrive, TypeOK, ControlOK, MessagesOK
    <2> QED
      BY <2>2, <2>3 DEF Basics
  <1>10. CASE Fault
    <2>1. MessagesOK'
      BY <1>10, <1>c, DamagedQueue, DamageTypes DEF Fault, MessagesOK
    <2>2. faults' \in 0..MaxFaults'
      BY <1>10, <1>a, <1>b, <1>c DEF Fault, TypeOK
    <2>3. TypeOK' /\ ControlOK'
      BY <1>10, <1>b, <1>c, <2>1, <2>2, GoodQueues
      DEF Fault, TypeOK, ControlOK, MessagesOK
    <2> QED
      BY <2>1, <2>3 DEF Basics
  <1>11. CASE Open
    <2>1. opened' \in BOOLEAN /\ suspect' \in BOOLEAN /\ deceived' \in BOOLEAN
      BY <1>11, Zenon DEF Open
    <2>2. MessagesOK'
      BY <1>11, <1>c DEF Open, TcFlush, MessagesOK
    <2>3. TypeOK' /\ ControlOK'
      BY <1>11, <1>b, <1>c, <2>1, <2>2, GoodQueues
      DEF Open, TypeOK, ControlOK, MessagesOK
    <2> QED
      BY <2>2, <2>3 DEF Basics
  <1>12. CASE Close
    <2>1. opened' \in BOOLEAN /\ broken' \in BOOLEAN
      BY <1>12, Zenon DEF Close
    <2>2. NoReply \in [of : Nat, text : Texts]
      BY TextTypes DEF NoReply
    <2>3. TypeOK' /\ ControlOK' /\ MessagesOK'
      BY <1>12, <1>b, <1>c, <2>1, <2>2 DEF Close, TypeOK, ControlOK, MessagesOK
    <2> QED
      BY <2>3 DEF Basics
  <1>13. CASE UNCHANGED vars
    BY <1>13, <1>b DEF vars, link, Basics, TypeOK, MessagesOK, ControlOK
  <1> QED
    BY <1>1, <1>2, <1>3, <1>4, <1>5, <1>6, <1>7, <1>8, <1>9, <1>10, <1>11, <1>12,
       <1>13
    DEF Next, Step

---------------------------------------------------------------------------
(* The line of a careful operator.                                         *)

LEMMA EmptyQueue == (\A S : <<>> \in Seq(S)) /\ Ordered(<<>>)
  BY EmptySeq DEF Ordered

\* Every step keeps the line of a careful operator quiet between requests, and
\* free of other requests during one.
LEMMA NextCareful ==
    ASSUME Basics, Basics', CarefulOK, [Next]_vars
    PROVE  CarefulOK'
  <1> SUFFICES ASSUME Careful', ~suspect', ~deceived'
               PROVE  /\ pc' = "idle" => QuietLine'
                      /\ pc' # "idle" => RequestLine' /\ LedOK'
    BY DEF CarefulOK
  <1> USE DEF host, port, device
  <1>a. Careful
    BY DEF Next, vars, Careful, RecoverAfter
  <1>b. \A err \in Errors : ~Fail(err)
    BY <1>a DEF Fail, Careful
  <1>c. {"ETIMEDOUT", "EPROTO", "EMSGSIZE", "EIO"} \subseteq Errors
    BY DEF Errors
  <1>d. TypeOK /\ MessagesOK /\ ControlOK
    BY DEF Basics
  <1>e. ~suspect /\ ~deceived => /\ pc = "idle" => QuietLine
                                 /\ pc # "idle" => RequestLine /\ LedOK
    BY <1>a DEF CarefulOK
  <1>f. n \in Nat
    BY <1>d, OperatorType DEF TypeOK
  <1>1. CASE Request
    <2>1. /\ toDev' = <<>> /\ toHost' = <<>> /\ input' = <<>> /\ line' = <<>>
          /\ pc' = "write"
      BY <1>1, <1>e DEF Request, QuietLine, TcFlush
    <2> QED
      BY <2>1, EmptyQueue DEF RequestLine, LedOK
  <1>2. CASE Deadline
    <2>1. UNCHANGED <<pc, n, sent, line, toDev, toHost, input, led, suspect, deceived>>
      BY <1>2 DEF Deadline
    <2> QED
      BY <1>e, <2>1 DEF QuietLine, RequestLine, LedOK
  <1>3. CASE HostWrite
    <2> DEFINE c == Chunk(n, cmd, IF sent = 0 THEN "head" ELSE "tail")
    <2>1. /\ sent \in {0, 1} /\ cmd \in Commands(n) /\ ~suspect /\ ~deceived
          /\ RequestLine /\ LedOK
      BY <1>3, <1>d, <1>e DEF HostWrite, ControlOK
    <2>2. c \in Own(n) /\ c \in Chunks /\ (sent = 0 => c \in Unended)
      <3>1. c \in Chunks
        BY <1>f, <2>1, CommandChunks DEF Good
      <3> QED
        BY <3>1 DEF Chunk, Own, Unended
    <2>3. /\ toDev' = Append(toDev, c) /\ sent' = sent + 1
          /\ pc' # "idle"
          /\ UNCHANGED <<n, line, toHost, input, led>>
      BY <1>3 DEF HostWrite
    <2> HIDE DEF c
    <2>4. toDev \in Seq(Own(n)) /\ toDev \in Seq(Unended)
      BY <2>1 DEF RequestLine
    <2>5. Append(toDev, c) \in Seq(Own(n)) /\ Ordered(Append(toDev, c))
      BY <2>2, <2>4, AppendProperties, OrderedPush
    <2>6. sent' < 2 => Append(toDev, c) \in Seq(Unended)
      BY <2>1, <2>2, <2>3, <2>4, AppendProperties
    <2>7. toHost \in Seq(Nobodys) /\ input \in Seq(Nobodys) /\ line \in Seq(Nobodys)
      BY <2>1 DEF RequestLine
    <2>8. RequestLine'
      BY <2>1, <2>3, <2>5, <2>6, <2>7 DEF RequestLine
    <2>9. LedOK'
      BY <2>1, <2>3 DEF LedOK
    <2> QED
      BY <2>3, <2>8, <2>9
  <1>4. CASE HostRead
    <2> DEFINE c == Head(input)
    <2>1. pc = "read" /\ input # <<>> /\ ~suspect
      BY <1>4, <1>d DEF HostRead, ControlOK
    <2>2. /\ line' = Append(line, c) /\ input' = Tail(input)
          /\ pc' # "idle"
          /\ UNCHANGED <<n, sent, toDev, toHost, led, deceived>>
      BY <1>4, <1>b, <1>c DEF HostRead
    <2>3. RequestLine /\ LedOK
      BY <1>e, <2>1, <2>2
    <2>4. /\ c \in Own(n) /\ Tail(input) \in Seq(Own(n))
          /\ c \in Tells(led) /\ Tail(input) \in Seq(Tells(led))
      BY <2>1, <2>3, HeadTailProperties DEF RequestLine, LedOK
    <2>5. input \in Seq(Chunks)
      BY <1>d DEF TypeOK
    <2>6. Ordered(Tail(input)) /\ (Tail(input) # <<>> => c \in Unended)
      BY <2>1, <2>3, <2>5, OrderedPop DEF RequestLine
    <2>7. line \in Seq(Unended)
      BY <2>1, <2>3 DEF RequestLine
    <2>8. toHost # <<>> => c \in Unended /\ Tail(input) \in Seq(Unended)
      BY <2>1, <2>3, HeadTailProperties DEF RequestLine
    <2>9. (sent < 2 \/ toDev # <<>>) =>
             toHost \in Seq(Nobodys) /\ Tail(input) \in Seq(Nobodys)
               /\ c \in Nobodys /\ line \in Seq(Nobodys)
      BY <2>1, <2>3, HeadTailProperties DEF RequestLine
    <2> HIDE DEF c
    <2>10. /\ Append(line, c) \in Seq(Own(n)) /\ Append(line, c) \in Seq(Tells(led))
           /\ c \in Unended => Append(line, c) \in Seq(Unended)
           /\ c \in Nobodys /\ line \in Seq(Nobodys) => Append(line, c) \in Seq(Nobodys)
      BY <2>3, <2>4, <2>7, AppendProperties DEF RequestLine, LedOK
    <2>11. RequestLine'
      BY <2>2, <2>3, <2>4, <2>6, <2>8, <2>9, <2>10 DEF RequestLine
    <2>12. LedOK'
      BY <2>2, <2>3, <2>4, <2>10 DEF LedOK
    <2> QED
      BY <2>2, <2>11, <2>12
  <1>5. CASE HostCheck
    <2>1. pc = "check" /\ ~suspect
      BY <1>5, <1>d DEF HostCheck, ControlOK
    <2>2. /\ pc' = "idle" /\ ~deceived /\ Source(line) # 0
          /\ UNCHANGED <<toDev, toHost, input>>
      BY <1>5, <1>b, <1>c DEF HostCheck
    <2>3. RequestLine
      BY <1>e, <2>1, <2>2
    <2>4. line \notin Seq(Unended) /\ line \notin Seq(Nobodys)
      <3>1. 2 \in 1..Len(line) /\ line[2].part = "tail" /\ line[2].of # 0
        BY <2>2 DEF Source, Whole
      <3> QED
        BY <3>1, ElementOfSeq DEF Unended, Nobodys
    <2> QED
      BY <2>2, <2>3, <2>4 DEF RequestLine, QuietLine
  <1>6. CASE HostTimeout \/ HostError
    BY <1>6, <1>b, <1>c DEF HostTimeout, HostError
  <1>7. CASE DevFeed
    <2> DEFINE c == Head(toDev)
               got == Append(feed, c)
    <2>1. /\ toDev # <<>> /\ toDev' = Tail(toDev)
          /\ UNCHANGED <<pc, n, sent, line, input, suspect, deceived>>
      BY <1>7 DEF DevFeed
    <2>2. pc # "idle" /\ RequestLine /\ LedOK
      BY <1>e, <2>1 DEF QuietLine
    <2>3. toHost \in Seq(Nobodys) /\ input \in Seq(Nobodys) /\ line \in Seq(Nobodys)
      BY <2>1, <2>2 DEF RequestLine
    <2>4. c \in Own(n) /\ Tail(toDev) \in Seq(Own(n))
      BY <2>1, <2>2, HeadTailProperties DEF RequestLine
    <2>5. toDev \in Seq(Chunks) /\ feed \in Seq(Chunks) /\ c \in Chunks
      BY <1>d, <2>1, HeadTailProperties DEF TypeOK
    <2>6. Ordered(Tail(toDev)) /\ (c \notin Unended => Tail(toDev) = <<>>)
      BY <2>1, <2>2, <2>5, OrderedPop DEF RequestLine
    <2>7. sent < 2 => c \in Unended /\ Tail(toDev) \in Seq(Unended)
      BY <2>1, <2>2, HeadTailProperties DEF RequestLine
    <2>8. CASE c.part # "tail"
      <3>1. UNCHANGED <<led, toHost>>
        BY <1>7, <2>8 DEF DevFeed
      <3> HIDE DEF c
      <3> QED
        BY <2>1, <2>2, <2>3, <2>4, <2>6, <2>7, <3>1
        DEF RequestLine, LedOK
    <2>9. CASE c.part = "tail"
      <3>1. PICK text \in Readings(got), ok \in BOOLEAN :
              /\ led' \in LedAfter(text, ok)
              /\ toHost' = toHost \o <<Chunk(Source(got), Answer(text, ok), "head"),
                                       Chunk(Source(got), Answer(text, ok), "tail")>>
        BY <1>7, <2>9 DEF DevFeed
      <3> DEFINE h == Chunk(Source(got), Answer(text, ok), "head")
                 t == Chunk(Source(got), Answer(text, ok), "tail")
      <3>2. Source(got) # 0 => c.of = Source(got)
        <4>1. got[Len(feed) + 1] = c /\ Len(got) = Len(feed) + 1 /\ Len(feed) \in Nat
          BY <2>5, AppendProperties, LenProperties
        <4> HIDE DEF got
        <4>2. Source(got) # 0 => Len(got) = 2 /\ got[2].of = Source(got)
          BY DEF Source, Whole
        <4> QED
          BY <4>1, <4>2
      <3>3. got \in Seq(Good)
        <4>1. c \in Good /\ feed \in Seq(Good)
          BY <1>d, <2>1, HeadTailProperties DEF MessagesOK
        <4> QED
          BY <4>1, AppendProperties
      <3> HIDE DEF c, got
      <3>4. /\ h \in Good /\ t \in Good /\ h \in Tells(led') /\ t \in Tells(led')
            /\ h.of = Source(got) /\ t.of = Source(got) /\ h.part = "head"
        BY <3>1, <3>3, AnswerOK DEF Chunk
      <3>5. toHost' = toHost \o <<h, t>>
        BY <3>1
      <3> HIDE DEF h, t
      <3>6. /\ h \in Chunks /\ t \in Chunks
            /\ <<h, t>> \in Seq(Chunks) /\ Ordered(<<h, t>>)
            /\ <<h, t>> \in Seq(Tells(led'))
        BY <3>4, ReplyLine DEF Good
      <3>7. /\ toHost \in Seq(Tells(led')) /\ input \in Seq(Tells(led'))
            /\ line \in Seq(Tells(led'))
            /\ toHost \in Seq(Own(n)) /\ input \in Seq(Own(n)) /\ line \in Seq(Own(n))
            /\ input \in Seq(Unended) /\ line \in Seq(Unended)
            /\ Ordered(input)
        BY <2>3, NobodysQueue
      <3>8. LedOK'
        BY <2>1, <3>5, <3>6, <3>7, ConcatProperties DEF LedOK
      <3>9. CASE Source(got) = 0
        <4>1. h \in Nobodys /\ t \in Nobodys
          BY <3>4, <3>6, <3>9 DEF Nobodys
        <4>2. toHost' \in Seq(Nobodys)
          BY <2>3, <3>5, <4>1, ReplyLine, ConcatProperties
        <4>3. toHost' \in Seq(Own(n)) /\ Ordered(toHost')
          BY <4>2, NobodysQueue
        <4>4. RequestLine'
          BY <2>1, <2>3, <2>4, <2>6, <2>7, <3>7, <4>2, <4>3 DEF RequestLine
        <4> QED
          BY <2>1, <2>2, <3>8, <4>4
      <3>10. CASE Source(got) # 0
        <4>1. c.of = n /\ c.of = Source(got) /\ c \notin Unended
          BY <2>4, <2>9, <3>2, <3>10 DEF Own, Unended
        <4>2. toDev' = <<>> /\ ~(sent < 2)
          BY <2>1, <2>6, <2>7, <4>1
        <4>3. h \in Own(n) /\ t \in Own(n)
          BY <3>4, <3>6, <4>1 DEF Own
        <4>4. toHost' \in Seq(Own(n))
          BY <3>5, <3>7, <4>3, ReplyLine, ConcatProperties
        <4>5. Ordered(toHost')
          BY <2>3, <3>5, <3>6, OrderedBehind
        <4>6. RequestLine'
          BY <2>1, <3>7, <4>2, <4>4, <4>5, EmptyQueue DEF RequestLine
        <4> QED
          BY <2>1, <2>2, <3>8, <4>6
      <3> QED
        BY <3>9, <3>10
    <2> QED
      BY <2>8, <2>9
  <1>8. CASE DevRestart \/ Close
    <2>1. /\ pc = "idle" /\ UNCHANGED <<pc, suspect, deceived, input>>
          /\ toDev' \in {toDev, <<>>} /\ toHost' \in {toHost, <<>>}
      BY <1>8, <1>d DEF DevRestart, Close, ControlOK
    <2> QED
      BY <1>e, <2>1 DEF QuietLine
  <1>9. CASE Arrive
    <2> DEFINE c == Head(toHost)
    <2>1. /\ toHost # <<>> /\ toHost' = Tail(toHost) /\ input' = Append(input, c)
          /\ UNCHANGED <<pc, n, sent, line, toDev, led, suspect, deceived>>
      BY <1>9 DEF Arrive
    <2>2. pc # "idle" /\ RequestLine /\ LedOK
      BY <1>e, <2>1 DEF QuietLine
    <2>3. input \in Seq(Unended) /\ line \in Seq(Unended)
      BY <2>1, <2>2 DEF RequestLine
    <2>4. /\ c \in Own(n) /\ Tail(toHost) \in Seq(Own(n))
          /\ c \in Tells(led) /\ Tail(toHost) \in Seq(Tells(led))
      BY <2>1, <2>2, HeadTailProperties DEF RequestLine, LedOK
    <2>5. c \in Chunks /\ toHost \in Seq(Chunks)
      BY <1>d, <2>1, HeadTailProperties DEF TypeOK
    <2>6. Ordered(Tail(toHost)) /\ (Tail(toHost) # <<>> => c \in Unended)
      BY <2>1, <2>2, <2>5, OrderedPop DEF RequestLine
    <2>7. (sent < 2 \/ toDev # <<>>) =>
             Tail(toHost) \in Seq(Nobodys) /\ c \in Nobodys
               /\ input \in Seq(Nobodys) /\ line \in Seq(Nobodys)
      BY <2>1, <2>2, HeadTailProperties DEF RequestLine
    <2> HIDE DEF c
    <2>8. /\ Append(input, c) \in Seq(Own(n)) /\ Append(input, c) \in Seq(Tells(led))
          /\ c \in Unended => Append(input, c) \in Seq(Unended)
          /\ c \in Nobodys /\ input \in Seq(Nobodys) => Append(input, c) \in Seq(Nobodys)
          /\ Ordered(Append(input, c))
      BY <2>2, <2>3, <2>4, <2>5, AppendProperties, OrderedPush DEF RequestLine, LedOK
    <2>9. RequestLine'
      BY <2>1, <2>2, <2>3, <2>4, <2>6, <2>7, <2>8 DEF RequestLine
    <2>10. LedOK'
      BY <2>1, <2>2, <2>4, <2>8 DEF LedOK
    <2> QED
      BY <2>1, <2>2, <2>9, <2>10
  <1>10. CASE Fault
    <2>1. UNCHANGED <<pc, n, sent, line, input, led, suspect, deceived>>
      BY <1>10 DEF Fault
    <2>2. CASE toDev # <<>> /\ toDev' \in Damaged(toDev) /\ UNCHANGED toHost
      <3>1. pc # "idle" /\ RequestLine /\ LedOK
        BY <1>e, <2>1, <2>2 DEF QuietLine
      <3>2. /\ toDev' \in Seq(Own(n)) /\ Ordered(toDev')
            /\ sent < 2 => toDev' \in Seq(Unended)
        BY <1>d, <1>f, <2>2, <3>1, DamagedQueue, DamagedOrdered, DamageTypes
        DEF RequestLine, TypeOK
      <3> QED
        BY <2>1, <2>2, <3>1, <3>2 DEF RequestLine, LedOK
    <2>3. CASE toHost # <<>> /\ toHost' \in Damaged(toHost) /\ UNCHANGED toDev
      <3>1. pc # "idle" /\ RequestLine /\ LedOK
        BY <1>e, <2>1, <2>3 DEF QuietLine
      <3>2. /\ toHost' \in Seq(Own(n)) /\ Ordered(toHost') /\ toHost' \in Seq(Tells(led))
            /\ toHost \in Seq(Nobodys) => toHost' \in Seq(Nobodys)
        BY <1>d, <1>f, <2>3, <3>1, DamagedQueue, DamagedOrdered, DamageTypes
        DEF RequestLine, LedOK, TypeOK
      <3> QED
        BY <2>1, <2>3, <3>1, <3>2 DEF RequestLine, LedOK
    <2> QED
      BY <1>10, <2>2, <2>3 DEF Fault
  <1>11. CASE Open
    <2>1. pc = "idle" /\ UNCHANGED <<pc, toDev, toHost>> /\ input' = <<>>
      BY <1>11, <1>d DEF Open, ControlOK, TcFlush
    <2>2. toDev = <<>> /\ toHost = <<>>
      BY <1>11, <1>e, <2>1 DEF Open, QuietLine
    <2> QED
      BY <2>1, <2>2 DEF QuietLine
  <1>12. CASE UNCHANGED vars
    BY <1>12, <1>e DEF vars, link, QuietLine, RequestLine, LedOK
  <1> QED
    BY <1>1, <1>2, <1>3, <1>4, <1>5, <1>6, <1>7, <1>8, <1>9, <1>10, <1>11, <1>12
    DEF Next, Step

---------------------------------------------------------------------------
(* Replies.                                                                *)

RepliesOK == OwnReply /\ LedConfirmed /\ HeartbeatOwn

\* No reply is nobody's reply.
LEMMA NoReplyOK == reply = NoReply => RepliesOK
  BY DEF RepliesOK, OwnReply, LedConfirmed, HeartbeatOwn, NoReply, Word

\* Of HEARTBEATs validate_reply accepts only one with its own number.
LEMMA ValidText ==
    ASSUME NEW k, NEW c \in Commands(k), NEW text, Valid(c, text)
    PROVE  text.name = "HEARTBEAT" => text.arg = k
  BY DEF Valid, Commands, Word, Numbered

\* A reply that is accepted is right, and it stays right while it is kept.
LEMMA NextReplies ==
    ASSUME Basics, Basics', CarefulOK, RepliesOK, [Next]_vars
    PROVE  RepliesOK'
  <1> USE DEF host, port, device
  <1>a. Careful' = Careful
    BY DEF Next, vars, Careful, RecoverAfter
  <1>b. TypeOK /\ MessagesOK /\ ControlOK
    BY DEF Basics
  <1>e. MaxRequests \in Nat
    BY <1>b, OperatorType
  <1>c. reply' = NoReply => RepliesOK'
    BY DEF RepliesOK, OwnReply, LedConfirmed, HeartbeatOwn, NoReply, Word
  <1>d. (UNCHANGED <<reply, n, led, deceived>>) => RepliesOK'
    BY <1>a DEF RepliesOK, OwnReply, LedConfirmed, HeartbeatOwn
  <1>1. CASE Request \/ Close
    BY <1>1, <1>c DEF Request, Close
  <1>2. CASE HostCheck
    <2>1. CASE UNCHANGED <<reply, deceived>>
      BY <1>2, <1>d, <2>1 DEF HostCheck, Fail
    <2>2. ASSUME NEW text \in Readings(line), Valid(cmd, text),
                 reply' = [of |-> Source(line), text |-> text],
                 deceived' = (deceived \/ Source(line) = 0)
          PROVE  RepliesOK'
      <3>1. UNCHANGED <<n, led>> /\ cmd \in Commands(n) /\ ~suspect /\ pc = "check"
        BY <1>2, <1>b DEF HostCheck, ControlOK, Fail
      <3>2. text.name = "HEARTBEAT" => text.arg = n
        BY <2>2, <3>1, ValidText
      <3>3. Source(line) # 0 =>
              /\ Len(line) = 2 /\ text = line[1].text
              /\ line[1].of = Source(line) /\ line[1] \in Good
        BY <1>b, <1>e, ReadingType DEF MessagesOK
      <3>4. HeartbeatOwn'
        BY <2>2, <3>1, <3>2, <3>3 DEF HeartbeatOwn, Good
      <3>5. ASSUME Careful, ~deceived'
            PROVE  /\ Source(line) # 0
                   /\ line[1] \in Own(n) /\ line[1] \in Tells(led)
        <4>1. Source(line) # 0 /\ ~deceived
          BY <2>2, <3>5
        <4>2. line \in Seq(Own(n)) /\ line \in Seq(Tells(led))
          BY <3>1, <3>5, <4>1 DEF CarefulOK, RequestLine, LedOK
        <4>3. 1 \in 1..Len(line)
          BY <4>1 DEF Source, Whole
        <4> QED
          BY <4>1, <4>2, <4>3, ElementOfSeq
      <3>6. OwnReply' /\ LedConfirmed'
        BY <1>a, <2>2, <3>1, <3>3, <3>5 DEF OwnReply, LedConfirmed, Own, Tells
      <3> QED
        BY <3>4, <3>6 DEF RepliesOK
    <2> QED
      BY <1>2, <2>1, <2>2 DEF HostCheck, Fail
  <1>3. CASE DevFeed
    <2>1. UNCHANGED <<reply, n, deceived>> /\ toDev # <<>>
      BY <1>3 DEF DevFeed
    <2>2. ASSUME Careful, ~deceived, reply # NoReply
          PROVE  FALSE
      <3>1. pc = "idle" /\ ~suspect
        BY <1>b, <2>2 DEF ControlOK
      <3> QED
        BY <2>1, <2>2, <3>1 DEF CarefulOK, QuietLine
    <2> QED
      BY <1>a, <1>c, <2>1, <2>2 DEF RepliesOK, OwnReply, LedConfirmed, HeartbeatOwn
  <1>4. CASE DevRestart \/ Open
    BY <1>4, <1>b, <1>c DEF DevRestart, Open, ControlOK
  <1>5. CASE Deadline \/ HostWrite \/ HostRead \/ HostTimeout \/ HostError
             \/ Arrive \/ Fault
    BY <1>5, <1>d DEF Deadline, HostWrite, HostRead, HostTimeout, HostError, Fail,
                      Arrive, Fault
  <1>6. CASE UNCHANGED vars
    BY <1>6, <1>d DEF vars, link
  <1> QED
    BY <1>1, <1>2, <1>3, <1>4, <1>5, <1>6 DEF Next, Step

---------------------------------------------------------------------------
(* The theorems.                                                           *)

\* A link nobody has opened yet.
LEMMA Initial == Init => IndInv
  <1> SUFFICES ASSUME Init PROVE IndInv
    OBVIOUS
  <1>1. NoReply \in [of : Nat, text : Texts] /\ cmd \in Texts
    BY TextTypes DEF Init, NoReply
  <1>2. MaxRequests \in Nat /\ MaxFaults \in Nat
    BY OperatorsAssumption DEF Init, MaxRequests, MaxFaults
  <1>3. n \in 0..MaxRequests /\ faults \in 0..MaxFaults
    BY <1>2 DEF Init
  <1>4. TypeOK
    <2>1. /\ late \in BOOLEAN /\ opened \in BOOLEAN /\ broken \in BOOLEAN
          /\ suspect \in BOOLEAN /\ deceived \in BOOLEAN
          /\ reply \in [of : Nat, text : Texts]
      BY <1>1, Zenon DEF Init
    <2>2. sent \in 0..2 /\ led \in {0, 1}
      BY DEF Init
    <2> QED
      BY <1>1, <1>3, <2>1, <2>2 DEF Init, TypeOK
  <1>5. MessagesOK /\ ControlOK /\ CarefulOK
    BY DEF Init, MessagesOK, ControlOK, CarefulOK, QuietLine
  <1>6. RepliesOK
    BY NoReplyOK DEF Init
  <1> QED
    BY <1>4, <1>5, <1>6 DEF IndInv, RepliesOK

\* The invariant holds in every behaviour of host, line, firmware and operator.
THEOREM Inductive == Spec => []IndInv
  <1>1. IndInv /\ [Next]_vars => IndInv'
    <2> SUFFICES ASSUME IndInv, [Next]_vars
                 PROVE  IndInv'
      OBVIOUS
    <2>1. Basics /\ CarefulOK /\ RepliesOK
      BY DEF IndInv, Basics, RepliesOK
    <2>2. Basics'
      BY <2>1, NextBasics
    <2>3. CarefulOK' /\ RepliesOK'
      BY <2>1, <2>2, NextCareful, NextReplies
    <2> QED
      BY <2>2, <2>3 DEF IndInv, Basics, RepliesOK
  <1> QED
    BY <1>1, Initial, PTL DEF Spec

\* The variables of the link keep their types.
THEOREM TypeCorrect == Spec => []TypeOK
  <1>1. IndInv => TypeOK
    BY DEF IndInv
  <1> QED
    BY <1>1, Inductive, PTL

\* uart_protocol_request accepts its own reply only, if the link is recovered
\* after every failure and until it accepts a line that nobody sent: nothing of
\* an earlier request is left on the link.
THEOREM RepliesAreOwn == Spec => []OwnReply
  <1>1. IndInv => OwnReply
    BY DEF IndInv
  <1> QED
    BY <1>1, Inductive, PTL

\* With the same procedure, and as long, a reply about the LED is true while it
\* is kept: a set_led or get_led that fails is answered with ERR.
THEOREM LedTruth == Spec => []LedConfirmed
  <1>1. IndInv => LedConfirmed
    BY DEF IndInv
  <1> QED
    BY <1>1, Inductive, PTL

\* A HEARTBEAT takes no undamaged reply to another one, recovered link or not,
\* deceived or not: validate_reply compares the number that was echoed.
THEOREM HeartbeatsAreOwn == Spec => []HeartbeatOwn
  <1>1. IndInv => HeartbeatOwn
    BY DEF IndInv
  <1> QED
    BY <1>1, Inductive, PTL

---------------------------------------------------------------------------
(* The deadline.  RequestReturns is a matter of fairness; what follows is  *)
(* the part of it that is not.                                             *)

\* A reply was accepted in time, and a request in progress has none yet.
InTime == reply # NoReply => ~late /\ pc = "idle"

\* Writing and reading are under one deadline, which nothing puts off; once
\* it has passed, the request writes nothing, takes nothing from the port
\* and can only return, without a reply.
OneDeadline ==
    pc # "idle" =>
      /\ n' = n /\ cmd' = cmd
      /\ late => /\ late'
                 /\ reply' = NoReply
                 /\ UNCHANGED <<sent, line>>
                 /\ pc' \in {pc, "idle"}
                 /\ Len(input') >= Len(input)

LEMMA InTimeKept == InTime /\ [Next]_vars => InTime'
<1> USE DEF InTime
<1>1. ASSUME InTime, UNCHANGED <<reply, late, pc>> PROVE InTime'
  BY <1>1
<1>2. ASSUME InTime, Step PROVE InTime'
  <2>1. CASE Request
    BY <2>1 DEF Request
  <2>2. CASE Deadline
    BY <1>2, <2>2 DEF Deadline
  <2>3. CASE HostWrite
    BY <1>2, <2>3 DEF HostWrite
  <2>4. CASE HostRead
    BY <1>2, <2>4 DEF HostRead, Fail
  <2>5. CASE HostCheck
    BY <1>2, <2>5 DEF HostCheck, Fail, Expired
  <2>6. CASE HostTimeout
    BY <1>2, <2>6 DEF HostTimeout, Fail
  <2>7. CASE HostError
    BY <1>2, <2>7 DEF HostError, Fail
  <2>8. CASE DevFeed \/ DevRestart \/ Arrive \/ Fault \/ Open
    BY <1>1, <1>2, <2>8 DEF DevFeed, DevRestart, Arrive, Fault, Open, host
  <2>9. CASE Close
    BY <2>9 DEF Close
  <2> QED
    BY <1>2, <2>1, <2>2, <2>3, <2>4, <2>5, <2>6, <2>7, <2>8, <2>9 DEF Step
<1> QED
  BY <1>1, <1>2 DEF Next, vars, link, host

LEMMA DeadlineFinal == IndInv /\ [Next]_vars => OneDeadline
<1> SUFFICES ASSUME TypeOK, ControlOK, [Next]_vars, pc # "idle"
             PROVE  OneDeadline
  BY DEF OneDeadline, IndInv
<1> USE DEF OneDeadline
<1>1. reply = NoReply /\ opened
  BY DEF ControlOK
<1>2. input \in Seq(Chunks) /\ toHost \in Seq(Chunks) /\ Len(input) \in Nat
  BY DEF TypeOK
<1>3. CASE UNCHANGED vars
  BY <1>1, <1>2, <1>3 DEF vars, link, host
<1>4. CASE Deadline
  BY <1>4 DEF Deadline
<1>5. CASE HostWrite
  BY <1>5 DEF HostWrite, Expired
<1>6. CASE HostRead
  BY <1>6 DEF HostRead, Expired, Fail
<1>7. CASE HostCheck
  <2>1. n' = n /\ cmd' = cmd /\ input' = input
    BY <1>7 DEF HostCheck, Fail
  <2>2. ASSUME late
        PROVE  /\ late' = late /\ reply' = reply
               /\ UNCHANGED <<sent, line>> /\ pc' = "idle"
    BY <1>7, <2>2 DEF HostCheck, Expired, Fail
  <2> QED
    BY <1>1, <1>2, <2>1, <2>2
<1>8. CASE HostTimeout
  BY <1>1, <1>2, <1>8 DEF HostTimeout, Fail
<1>9. CASE HostError
  BY <1>1, <1>2, <1>9 DEF HostError, Fail
<1>10. CASE DevFeed \/ DevRestart \/ Fault
  BY <1>1, <1>2, <1>10 DEF DevFeed, DevRestart, Fault, host
<1>11. CASE Arrive
  <2>1. Head(toHost) \in Chunks
    BY <1>2, <1>11 DEF Arrive
  <2>2. Len(input') = Len(input) + 1
    BY <1>2, <1>11, <2>1 DEF Arrive
  <2> QED
    BY <1>1, <1>2, <1>11, <2>2 DEF Arrive, host
<1>12. CASE Open
  BY <1>1, <1>12 DEF Open
<1> QED
  BY <1>3, <1>4, <1>5, <1>6, <1>7, <1>8, <1>9, <1>10, <1>11, <1>12
  DEF Next, Step, Request, Close

\* uart_protocol_request computes one deadline before it writes: no step puts it
\* off, and with it past the loops of serial_port_write_all and of the reply do
\* nothing more than return ETIMEDOUT or an error, whatever the peer sends.
THEOREM DeadlineIsFinal == Spec => [][OneDeadline]_vars
  BY DeadlineFinal, Inductive, PTL DEF Spec

\* A reply that arrives complete after the deadline is not accepted: HostCheck
\* looks at the clock once more before it looks at the reply.
THEOREM RepliesInTime == Spec => []InTime
<1>1. Init => InTime
  BY DEF Init, InTime
<1> QED
  BY <1>1, InTimeKept, PTL DEF Spec
=============================================================================
