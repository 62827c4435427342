---------------------------- MODULE ThreadProofs ----------------------------
(***************************************************************************)
(* Proofs about three threads of the gateway, apart from what they do to   *)
(* books and chains: the multicast consumer and its parser (module         *)
(* ItchParser), for datagrams of every length; the frames that the         *)
(* broadcaster writes and a subscriber reads (Framing), for any number of  *)
(* them; and the counters that the writer and the monitor share            *)
(* (WriterThread), for every capacity of the queues, every batch size and  *)
(* every width of the counters.                                            *)
(***************************************************************************)
EXTENDS ItchParser, Framing, WriterThread, SequenceTheorems, FiniteSetTheorems, TLAPS

-----------------------------------------------------------------------------
(* The bytes of a datagram. *)

LEMMA MessageType ==
  ASSUME NEW m \in Messages
  PROVE  m.type \in Types \cup {"unknown"} /\ m.len \in Nat
<1>1. PICK t \in Types \cup {"unknown"} :
        m \in [type : {t}, len : Lengths[t], side_ok : IF t \in AddTypes THEN BOOLEAN ELSE {TRUE}]
  BY DEF Messages
<1>2. m.type = t /\ m.len \in Lengths[t]
  BY <1>1
<1>3. Lengths[t] \subseteq Nat
  BY <1>1, ParserAssumption DEF ParserAssumption
<1>4. QED
  BY <1>1, <1>2, <1>3

LEMMA PacketType ==
  ASSUME NEW msgs \in Seq(Messages), NEW n \in 1 .. Len(msgs)
  PROVE  msgs[n] \in Messages /\ msgs[n].len \in Nat
BY MessageType

\* The bytes of one message, and their number.
Own(msgs, n) == {n} \X (1 .. 2 + msgs[n].len)

LEMMA OwnSize ==
  ASSUME NEW msgs \in Seq(Messages), NEW n \in 1 .. Len(msgs)
  PROVE  IsFiniteSet(Own(msgs, n)) /\ Cardinality(Own(msgs, n)) = 2 + msgs[n].len
<1>1. PICK k \in Nat : k = 2 + msgs[n].len
  BY PacketType
<1>2. IsFiniteSet(1 .. k) /\ Cardinality(1 .. k) = k
  <2>1. 1 \in Int /\ k \in Int
    OBVIOUS
  <2>2. IsFiniteSet(1 .. k) /\ Cardinality(1 .. k) = IF 1 > k THEN 0 ELSE k - 1 + 1
    BY <2>1, FS_Interval, Zenon
  <2>3. QED
    BY <2>2
<1>3. IsFiniteSet({n}) /\ Cardinality({n}) = 1
  BY FS_Singleton
<1>4. /\ IsFiniteSet({n} \X (1 .. k))
      /\ Cardinality({n} \X (1 .. k)) = Cardinality({n}) * Cardinality(1 .. k)
  BY <1>2, <1>3, FS_Product, Zenon
<1>5. Own(msgs, n) = {n} \X (1 .. k)
  BY <1>1 DEF Own
<1>6. QED
  BY <1>1, <1>2, <1>3, <1>4, <1>5

LEMMA BeforeFinite ==
  ASSUME NEW msgs \in Seq(Messages), NEW n \in 1 .. Len(msgs) + 1
  PROVE  IsFiniteSet(Before(msgs, n)) /\ Start(msgs, n) \in Nat
<1> DEFINE A == 1 .. n - 1
           T == {Own(msgs, i) : i \in A}
           f == [i \in A |-> Own(msgs, i)]
<1>1. IsFiniteSet(A)
  <2>1. 1 \in Int /\ n - 1 \in Int
    OBVIOUS
  <2>2. QED
    BY <2>1, FS_Interval
<1>2. f \in Surjection(A, T)
  BY DEF Surjection
<1>3. IsFiniteSet(T)
  BY <1>1, <1>2, FS_Surjection
<1>4. \A t \in T : IsFiniteSet(t)
  BY OwnSize
<1>5. Before(msgs, n) = UNION T
  BY DEF Before, Own
<1>6. IsFiniteSet(Before(msgs, n))
  BY <1>3, <1>4, <1>5, FS_UNION
<1>7. QED
  BY <1>6, FS_CardinalityType DEF Start

LEMMA StartFirst ==
  ASSUME NEW msgs
  PROVE  Start(msgs, 1) = 0
<1>1. Before(msgs, 1) = {}
  BY DEF Before
<1>2. QED
  BY <1>1, FS_EmptySet DEF Start

\* A message starts where the one before it ends.
LEMMA StartNext ==
  ASSUME NEW msgs \in Seq(Messages), NEW n \in 1 .. Len(msgs)
  PROVE  Start(msgs, n + 1) = End(msgs, n)
<1>1. /\ IsFiniteSet(Before(msgs, n)) /\ IsFiniteSet(Own(msgs, n))
      /\ Start(msgs, n) \in Nat
  BY BeforeFinite, OwnSize
<1>2. Before(msgs, n + 1) = Before(msgs, n) \cup Own(msgs, n)
  <2>1. \A i : i \in 1 .. (n + 1) - 1 <=> i \in 1 .. n - 1 \/ i = n
    OBVIOUS
  <2>2. \A u : u \in Before(msgs, n + 1) <=>
           \E i \in 1 .. (n + 1) - 1 : u \in {i} \X (1 .. 2 + msgs[i].len)
    BY DEF Before
  <2>3. \A u : u \in Before(msgs, n) <=>
           \E i \in 1 .. n - 1 : u \in {i} \X (1 .. 2 + msgs[i].len)
    BY DEF Before
  <2>4. \A u : u \in Own(msgs, n) <=> u \in {n} \X (1 .. 2 + msgs[n].len)
    BY DEF Own
  <2>5. QED
    BY <2>1, <2>2, <2>3, <2>4, Zenon
<1>3. Before(msgs, n) \cap Own(msgs, n) = {}
  <2>1. \A u \in Own(msgs, n) : u[1] = n
    BY DEF Own
  <2>2. \A u \in Before(msgs, n) : u[1] \in 1 .. n - 1
    BY DEF Before
  <2>3. QED
    BY <2>1, <2>2
<1>4. Cardinality(Before(msgs, n) \cup Own(msgs, n)) =
        Cardinality(Before(msgs, n)) + Cardinality(Own(msgs, n)) - Cardinality({})
  BY <1>1, <1>3, FS_Union
<1>5. Cardinality({}) = 0 /\ Cardinality(Own(msgs, n)) = 2 + msgs[n].len
  BY FS_EmptySet, OwnSize
<1>6. msgs[n].len \in Nat
  BY PacketType
<1>7. Start(msgs, n + 1) = Cardinality(Before(msgs, n)) + (2 + msgs[n].len)
  <2>1. Start(msgs, n + 1) = Cardinality(Before(msgs, n) \cup Own(msgs, n))
    BY <1>2 DEF Start
  <2>2. Cardinality(Before(msgs, n)) \in Nat
    BY <1>1 DEF Start
  <2>3. QED
    BY <1>4, <1>5, <1>6, <2>1, <2>2
<1>8. QED
  BY <1>1, <1>6, <1>7 DEF Start, End

\* Messages do not overlap.
LEMMA StartOrder ==
  ASSUME NEW msgs \in Seq(Messages), NEW j \in 1 .. Len(msgs) + 1, NEW i \in 1 .. j - 1
  PROVE  End(msgs, i) =< Start(msgs, j) /\ Start(msgs, i) < Start(msgs, j)
<1>1. i \in 1 .. Len(msgs) /\ i + 1 \in 1 .. Len(msgs) + 1 /\ i \in 1 .. Len(msgs) + 1
  OBVIOUS
<1>2. Before(msgs, i + 1) \in SUBSET Before(msgs, j)
  <2>1. \A k : k \in 1 .. (i + 1) - 1 => k \in 1 .. j - 1
    OBVIOUS
  <2>2. \A u : u \in Before(msgs, i + 1) <=>
           \E k \in 1 .. (i + 1) - 1 : u \in {k} \X (1 .. 2 + msgs[k].len)
    BY DEF Before
  <2>3. \A u : u \in Before(msgs, j) <=>
           \E k \in 1 .. j - 1 : u \in {k} \X (1 .. 2 + msgs[k].len)
    BY DEF Before
  <2>4. QED
    BY <2>1, <2>2, <2>3, Zenon
<1>3. IsFiniteSet(Before(msgs, j)) /\ Start(msgs, j) \in Nat /\ Start(msgs, i) \in Nat
  BY <1>1, BeforeFinite
<1>4. Start(msgs, i + 1) =< Start(msgs, j)
  BY <1>2, <1>3, FS_Subset DEF Start
<1>5. Start(msgs, i + 1) = End(msgs, i)
  BY <1>1, StartNext
<1>6. msgs[i].len \in Nat
  BY <1>1, PacketType
<1>7. QED
  BY <1>3, <1>4, <1>5, <1>6 DEF End

\* So that a place is the start of one message only.
LEMMA OneStart ==
  ASSUME NEW msgs \in Seq(Messages),
         NEW i \in 1 .. Len(msgs), NEW j \in 1 .. Len(msgs) + 1, Start(msgs, i) = Start(msgs, j)
  PROVE  i = j
<1>1. Start(msgs, i) \in Nat /\ Start(msgs, j) \in Nat
  BY BeforeFinite
<1>2. CASE i < j
  <2>1. i \in 1 .. j - 1
    BY <1>2
  <2>2. QED
    BY <1>1, <2>1, StartOrder
<1>3. CASE j < i
  <2>1. j \in 1 .. i - 1 /\ i \in 1 .. Len(msgs) + 1
    BY <1>3
  <2>2. QED
    BY <1>1, <2>1, StartOrder
<1>4. QED
  BY <1>2, <1>3

\* What a message must have is enough for its parser.
LEMMA NoPanic ==
  ASSUME NEW m \in Messages
  PROVE  parse_message(m) \in {"event", "error"}
<1>1. m.type \in Types \cup {"unknown"} /\ m.len \in Nat
  BY MessageType
<1>2. \A t \in Types : bytes_read(t) \in Nat /\ expected(t) \in Nat /\ bytes_read(t) =< expected(t)
  <2>1. SUFFICES ASSUME NEW t \in Types
                 PROVE  bytes_read(t) \in Nat /\ expected(t) \in Nat /\ bytes_read(t) =< expected(t)
    OBVIOUS
  <2>2. CASE t = "A"
    BY <2>2 DEF bytes_read, expected, time
  <2>3. CASE t = "F"
    BY <2>3 DEF bytes_read, expected, time
  <2>4. CASE t = "E"
    BY <2>4 DEF bytes_read, expected, time
  <2>5. CASE t = "C"
    BY <2>5 DEF bytes_read, expected, time
  <2>6. CASE t = "X"
    BY <2>6 DEF bytes_read, expected, time
  <2>7. CASE t = "D"
    BY <2>7 DEF bytes_read, expected, time
  <2>8. CASE t = "U"
    BY <2>8 DEF bytes_read, expected, time
  <2>9. CASE t = "R"
    BY <2>9 DEF bytes_read, expected, time
  <2>10. CASE t = "S"
    BY <2>10 DEF bytes_read, expected, time
  <2>11. QED
    BY <2>2, <2>3, <2>4, <2>5, <2>6, <2>7, <2>8, <2>9, <2>10 DEF Types, AddTypes
<1>3. CASE m.type \in Types /\ m.len - 1 >= expected(m.type)
  <2>1. ~(m.len - 1 < bytes_read(m.type)) /\ ~(m.len - 1 < expected(m.type))
    BY <1>1, <1>2, <1>3
  <2>2. QED
    BY <1>3, <2>1 DEF parse_message
<1>4. CASE m.type \notin Types
  BY <1>4 DEF parse_message
<1>5. CASE m.type \in Types /\ ~(m.len - 1 >= expected(m.type))
  <2>1. m.len - 1 < expected(m.type)
    BY <1>1, <1>2, <1>5
  <2>2. QED
    BY <1>5, <2>1 DEF parse_message
<1>6. QED
  BY <1>3, <1>4, <1>5

-----------------------------------------------------------------------------
(* The parser has gone through the first messages of a datagram. *)

\* A message that the parser can tell from what follows it.
Fits(n) == packet[n].len >= 2 /\ End(packet, n) =< size

\* What has become of the first k messages, and that no other has been touched.
Outcome(k) ==
  /\ \A n \in 1 .. Len(packet) :
       /\ n \in ToSet(events) <=> n =< k /\ parse_message(packet[n]) = "event"
       /\ n \in errors <=> n =< k /\ parse_message(packet[n]) = "error"
  /\ \A j \in 1 .. Len(events) : events[j] =< k
  /\ \A i, j \in 1 .. Len(events) : i < j => events[i] < events[j]

Through(k) == Outcome(k) /\ \A n \in 1 .. k : Fits(n)

\* There is no message after the first k, or one that cannot be told apart.
NoMore(k) == k = Len(packet) \/ ~Fits(k + 1)

ParserType ==
  /\ packet \in Seq(Messages) /\ size \in Nat /\ events \in Seq(Nat)
  /\ size =< Start(packet, Len(packet) + 1)
  /\ phase \in {"loop", "receiving", "parsing", "stopped"}

ParserInv ==
  /\ ParserType
  /\ IF phase = "parsing"
     THEN \E k \in 0 .. Len(packet) : Through(k) /\ offset = Start(packet, k + 1)
     ELSE \E k \in 0 .. Len(packet) : Through(k) /\ NoMore(k)

LEMMA ParserInvInit == ParserInit => ParserInv
<1> SUFFICES ASSUME ParserInit PROVE ParserInv
  OBVIOUS
<1>1. packet = <<>> /\ events = <<>> /\ size = 0 /\ phase = "loop"
  BY DEF ParserInit
<1>2. Len(packet) = 0 /\ packet \in Seq(Messages) /\ events \in Seq(Nat) /\ Len(events) = 0
  BY <1>1
<1>3. Start(packet, Len(packet) + 1) \in Nat
  BY <1>2, StartFirst
<1>4. Through(0) /\ NoMore(0)
  BY <1>2 DEF Through, Outcome, NoMore
<1>5. QED
  BY <1>1, <1>2, <1>3, <1>4 DEF ParserInv, ParserType

\* Where the parser is, its message is the next one.
LEMMA NextMessage ==
  ASSUME packet \in Seq(Messages), NEW k \in 0 .. Len(packet), offset = Start(packet, k + 1),
         NEW n \in Here
  PROVE  n = k + 1 /\ n \in 1 .. Len(packet)
<1>1. n \in 1 .. Len(packet) /\ Start(packet, n) = offset
  BY DEF Here
<1>2. k + 1 \in 1 .. Len(packet) + 1
  OBVIOUS
<1>3. QED
  BY <1>1, <1>2, OneStart

IsAppended(new, list, e) ==
  /\ Len(new) = Len(list) + 1 /\ new[Len(new)] = e
  /\ \A i \in 1 .. Len(list) : new[i] = list[i]
  /\ \A x : x \in ToSet(new) <=> x \in ToSet(list) \/ x = e

LEMMA Appended ==
  ASSUME NEW S, NEW list \in Seq(S), NEW e \in S, NEW new, new = Append(list, e)
  PROVE  new \in Seq(S) /\ IsAppended(new, list, e)
<1>1. /\ new \in Seq(S) /\ Len(new) = Len(list) + 1 /\ new[Len(new)] = e
      /\ \A i \in 1 .. Len(list) : new[i] = list[i]
  OBVIOUS
<1>2. \A x : x \in ToSet(new) <=> \E i \in 1 .. Len(list) + 1 : new[i] = x
  BY <1>1 DEF ToSet
<1>3. \A x : x \in ToSet(list) <=> \E i \in 1 .. Len(list) : list[i] = x
  BY DEF ToSet
<1>4. \A i : i \in 1 .. Len(list) + 1 <=> i \in 1 .. Len(list) \/ i = Len(list) + 1
  OBVIOUS
<1>5. QED
  BY <1>1, <1>2, <1>3, <1>4 DEF IsAppended

\* One more message.
LEMMA OneMore ==
  ASSUME ParserType, NEW k \in 0 .. Len(packet) - 1, Through(k), Fits(k + 1), packet' = packet,
         size' = size,
         events' = IF parse_message(packet[k + 1]) = "event" THEN Append(events, k + 1) ELSE events,
         errors' = IF parse_message(packet[k + 1]) = "error" THEN errors \cup {k + 1} ELSE errors
  PROVE  events' \in Seq(Nat) /\ Through(k + 1)'
<1>1. packet \in Seq(Messages) /\ events \in Seq(Nat) /\ Len(packet) \in Nat
  BY DEF ParserType
<1>2. k + 1 \in 1 .. Len(packet) /\ k + 1 \in Nat
  BY <1>1
<1>2a. PICK result :
         /\ result = parse_message(packet[k + 1])
         /\ events' = IF result = "event" THEN Append(events, k + 1) ELSE events
         /\ errors' = IF result = "error" THEN errors \cup {k + 1} ELSE errors
  OBVIOUS
<1>3. /\ events' \in Seq(Nat)
      /\ \A x : x \in ToSet(events') <=>
           x \in ToSet(events) \/ (result = "event" /\ x = k + 1)
      /\ Len(events') = IF result = "event" THEN Len(events) + 1 ELSE Len(events)
      /\ result = "event" => events'[Len(events')] = k + 1
      /\ \A i \in 1 .. Len(events) : events'[i] = events[i]
  <2>1. CASE result = "event"
    <3>1. PICK list \in Seq(Nat), e \in Nat : list = events /\ e = k + 1
      BY <1>1, <1>2
    <3>2. PICK new : new = Append(list, e)
      OBVIOUS
    <3>3. new \in Seq(Nat) /\ IsAppended(new, list, e)
      BY <3>2, Appended
    <3>4. events' = new
      BY <1>2a, <2>1, <3>1, <3>2
    <3>5. QED
      BY <2>1, <3>1, <3>3, <3>4 DEF IsAppended
  <2>2. CASE result # "event"
    BY <1>1, <1>2a, <2>2
  <2>3. QED
    BY <2>1, <2>2
<1>4. \A n \in 1 .. Len(packet)' :
         /\ n \in ToSet(events') <=> n =< k + 1 /\ parse_message(packet'[n]) = "event"
         /\ n \in errors' <=> n =< k + 1 /\ parse_message(packet'[n]) = "error"
  <2>1. SUFFICES ASSUME NEW n \in 1 .. Len(packet)
                 PROVE  /\ n \in ToSet(events') <=>
                              n =< k + 1 /\ parse_message(packet[n]) = "event"
                        /\ n \in errors' <=>
                              n =< k + 1 /\ parse_message(packet[n]) = "error"
    BY <1>1
  <2>2. /\ n \in ToSet(events) <=> n =< k /\ parse_message(packet[n]) = "event"
        /\ n \in errors <=> n =< k /\ parse_message(packet[n]) = "error"
    BY DEF Through, Outcome
  <2>3. CASE n = k + 1
    BY <1>1, <1>2a, <1>3, <2>2, <2>3
  <2>4. CASE n # k + 1
    <3>1. n =< k <=> n =< k + 1
      BY <1>1, <2>4
    <3>2. n \in errors' <=> n \in errors
      BY <1>2a, <2>4
    <3>3. QED
      BY <1>3, <2>2, <2>4, <3>1, <3>2
  <2>5. QED
    BY <2>3, <2>4
<1>5. \A j \in 1 .. Len(events)' : events'[j] =< k + 1
  <2>1. SUFFICES ASSUME NEW j \in 1 .. Len(events')
                 PROVE  events'[j] =< k + 1
    OBVIOUS
  <2>2. CASE j \in 1 .. Len(events)
    <3>1. events[j] =< k /\ events[j] \in Nat
      BY <1>1, <2>2 DEF Through, Outcome
    <3>2. QED
      BY <1>3, <2>2, <3>1
  <2>3. CASE j \notin 1 .. Len(events)
    <3>1. j = Len(events') /\ result = "event"
      BY <1>1, <1>3, <2>3
    <3>2. QED
      BY <1>1, <1>3, <3>1
  <2>4. QED
    BY <2>2, <2>3
<1>6. \A i, j \in 1 .. Len(events)' : i < j => events'[i] < events'[j]
  <2>1. SUFFICES ASSUME NEW i \in 1 .. Len(events'), NEW j \in 1 .. Len(events'), i < j
                 PROVE  events'[i] < events'[j]
    OBVIOUS
  <2>2. i \in 1 .. Len(events)
    BY <1>1, <1>3, <2>1
  <2>3. events[i] =< k /\ events[i] \in Nat
    BY <1>1, <2>2 DEF Through, Outcome
  <2>4. CASE j \in 1 .. Len(events)
    <3>1. events[i] < events[j]
      BY <2>1, <2>2, <2>4 DEF Through, Outcome
    <3>2. QED
      BY <1>3, <2>2, <2>4, <3>1
  <2>5. CASE j \notin 1 .. Len(events)
    <3>1. j = Len(events') /\ result = "event"
      BY <1>1, <1>3, <2>5
    <3>2. QED
      BY <1>1, <1>3, <2>2, <2>3, <3>1
  <2>6. QED
    BY <2>4, <2>5
<1>7. \A n \in 1 .. k + 1 : packet[n].len >= 2 /\ End(packet, n) =< size
  <2>1. \A n : n \in 1 .. k + 1 => n \in 1 .. k \/ n = k + 1
    OBVIOUS
  <2>2. QED
    BY <2>1 DEF Through, Fits
<1>8. QED
  BY <1>3, <1>4, <1>5, <1>6, <1>7 DEF Through, Outcome, Fits

\* The messages that have gone by stay what they are while the datagram does.
LEMMA SameDatagram ==
  ASSUME NEW k, Through(k), UNCHANGED <<packet, size, events, errors>>
  PROVE  Through(k)' /\ (NoMore(k) => NoMore(k)')
BY DEF Through, Outcome, NoMore, Fits, End

LEMMA ParserStep == ParserInv /\ [ParserNext]_parser_vars => ParserInv'
<1> SUFFICES ASSUME ParserInv, [ParserNext]_parser_vars PROVE ParserInv'
  OBVIOUS
<1>1. /\ packet \in Seq(Messages) /\ size \in Nat /\ events \in Seq(Nat) /\ Len(packet) \in Nat
      /\ size =< Start(packet, Len(packet) + 1)
      /\ phase \in {"loop", "receiving", "parsing", "stopped"}
  BY DEF ParserInv, ParserType
<1>2. ASSUME UNCHANGED <<packet, size, events, errors>>, phase # "parsing",
             phase' \in {"loop", "receiving", "stopped"}
      PROVE  ParserInv'
  <2>1. PICK k \in 0 .. Len(packet) : Through(k) /\ NoMore(k)
    BY <1>2 DEF ParserInv
  <2>2. Through(k)' /\ NoMore(k)'
    BY <1>2, <2>1, SameDatagram
  <2>3. ParserType'
    BY <1>1, <1>2 DEF ParserType
  <2>4. k \in 0 .. Len(packet)' /\ phase' # "parsing"
    BY <1>2
  <2>5. QED
    BY <2>2, <2>3, <2>4 DEF ParserInv
<1>3. CASE Loop
  BY <1>1, <1>2, <1>3 DEF Loop
<1>4. CASE ReceiveError
  BY <1>1, <1>2, <1>4 DEF ReceiveError
<1>5. CASE Receive
  <2>1. PICK msgs \in BoundedSeq(Messages, MaxMessages), lost \in Lost :
          packet' = msgs /\ size' = Max({0, Start(msgs, Len(msgs) + 1) - lost})
    BY <1>5 DEF Receive
  <2>2. msgs \in Seq(Messages) /\ Len(msgs) \in Nat
    BY DEF BoundedSeq, SeqOf
  <2>3. Start(msgs, Len(msgs) + 1) \in Nat /\ Start(msgs, 0 + 1) = 0
    <3>1. Len(msgs) + 1 \in 1 .. Len(msgs) + 1
      BY <2>2
    <3>2. QED
      BY <2>2, <3>1, BeforeFinite, StartFirst
  <2>4. size' \in Nat /\ size' =< Start(msgs, Len(msgs) + 1)
    <3>1. PICK a \in Nat, d \in Nat : a = Start(msgs, Len(msgs) + 1) /\ d = lost
      BY <2>3, ParserAssumption DEF ParserAssumption
    <3>2. PICK m \in {0, a - d} : m = Max({0, a - d}) /\ m >= 0 /\ m >= a - d
      BY DEF Max
    <3>3. QED
      BY <2>1, <3>1, <3>2
  <2>5. /\ phase' = "parsing" /\ offset' = 0 /\ events' = <<>> /\ errors' = {}
    BY <1>5 DEF Receive
  <2>6. Through(0)'
    BY <2>2, <2>5 DEF Through, Outcome, ToSet
  <2>7. ParserType'
    BY <2>1, <2>2, <2>4, <2>5 DEF ParserType
  <2>8. 0 \in 0 .. Len(packet)' /\ offset' = Start(packet', 0 + 1)
    BY <2>1, <2>2, <2>3, <2>5
  <2>9. QED
    BY <2>5, <2>6, <2>7, <2>8 DEF ParserInv
<1>6. CASE EndOfPacket
  <2>1. /\ phase = "parsing" /\ phase' = "loop"
        /\ UNCHANGED <<packet, size, events, errors>>
    BY <1>6 DEF EndOfPacket
  <2>2. PICK k \in 0 .. Len(packet) : Through(k) /\ offset = Start(packet, k + 1)
    BY <2>1 DEF ParserInv
  <2>3. NoMore(k)
    <3>1. SUFFICES ASSUME k # Len(packet) PROVE ~Fits(k + 1)
      BY DEF NoMore
    <3>2. k + 1 \in 1 .. Len(packet) /\ k + 1 \in 1 .. Len(packet) + 1
      BY <1>1, <3>1
    <3>3. packet[k + 1].len \in Nat /\ Start(packet, k + 1) \in Nat
      BY <1>1, <3>2, PacketType, BeforeFinite
    <3>4. CASE offset + 2 > size
      BY <1>1, <2>2, <3>3, <3>4 DEF Fits, End
    <3>5. CASE \E n \in Here : cut_short(offset, packet[n].len)
      <4>1. PICK n \in Here : cut_short(offset, packet[n].len)
        BY <3>5
      <4>2. n = k + 1
        BY <1>1, <2>2, NextMessage
      <4>3. QED
        BY <1>1, <2>2, <3>3, <4>1, <4>2 DEF cut_short, Fits, End
    <3>6. QED
      BY <1>6, <3>4, <3>5 DEF EndOfPacket
  <2>4. Through(k)' /\ NoMore(k)'
    BY <2>1, <2>2, <2>3, SameDatagram
  <2>5. ParserType'
    BY <1>1, <2>1 DEF ParserType
  <2>6. k \in 0 .. Len(packet)' /\ phase' # "parsing"
    BY <2>1
  <2>7. QED
    BY <2>4, <2>5, <2>6 DEF ParserInv
<1>7. CASE Parse
  <2>1. phase = "parsing" /\ UNCHANGED <<packet, size>>
    BY <1>7 DEF Parse
  <2>2. PICK k \in 0 .. Len(packet) : Through(k) /\ offset = Start(packet, k + 1)
    BY <2>1 DEF ParserInv
  <2>3. PICK n \in Here :
          /\ ~cut_short(offset, packet[n].len)
          /\ offset' = after(parse_message(packet[n]), offset, packet[n].len)
          /\ phase' = IF parse_message(packet[n]) = "panic" THEN "panicked" ELSE phase
          /\ events' = IF parse_message(packet[n]) = "event" THEN Append(events, n) ELSE events
          /\ errors' = IF parse_message(packet[n]) = "error" THEN errors \cup {n} ELSE errors
    BY <1>7 DEF Parse
  <2>4. n = k + 1 /\ n \in 1 .. Len(packet)
    BY <1>1, <2>2, NextMessage
  <2>5. k \in 0 .. Len(packet) - 1 /\ k + 1 \in 0 .. Len(packet)
        /\ k + 1 \in 1 .. Len(packet) /\ k + 1 \in 1 .. Len(packet) + 1
    BY <1>1, <2>4
  <2>6. /\ packet[k + 1] \in Messages /\ packet[k + 1].len \in Nat
        /\ Start(packet, k + 1) \in Nat
    BY <1>1, <2>5, PacketType, BeforeFinite
  <2>7. Fits(k + 1)
    BY <1>1, <2>2, <2>3, <2>4, <2>6 DEF cut_short, Fits, End
  <2>8. events' \in Seq(Nat) /\ Through(k + 1)'
    <3>1. ParserType
      BY DEF ParserInv
    <3>2. /\ events' = IF parse_message(packet[k + 1]) = "event"
                       THEN Append(events, k + 1) ELSE events
          /\ errors' = IF parse_message(packet[k + 1]) = "error"
                       THEN errors \cup {k + 1} ELSE errors
      BY <2>3, <2>4
    <3>3. packet' = packet /\ size' = size
      BY <2>1
    <3>4. QED
      BY <2>2, <2>5, <2>7, <3>1, <3>2, <3>3, OneMore
  <2>9. phase' = "parsing"
    <3>1. parse_message(packet[k + 1]) \in {"event", "error"}
      BY <2>6, NoPanic
    <3>2. QED
      BY <2>1, <2>3, <2>4, <3>1
  <2>10. offset' = Start(packet', k + 1 + 1)
    <3>1. offset' = End(packet, k + 1)
      BY <2>2, <2>3, <2>4 DEF after, End
    <3>2. Start(packet, k + 1 + 1) = End(packet, k + 1)
      BY <1>1, <2>5, StartNext
    <3>3. QED
      BY <2>1, <3>1, <3>2
  <2>11. ParserType'
    BY <1>1, <2>1, <2>8, <2>9 DEF ParserType
  <2>12. k + 1 \in 0 .. Len(packet)'
    BY <2>1, <2>5
  <2>13. QED
    BY <2>8, <2>9, <2>10, <2>11, <2>12 DEF ParserInv
<1>8. CASE CtrlC \/ UNCHANGED parser_vars
  <2>1. UNCHANGED <<phase, packet, size, offset, events, errors>>
    BY <1>8 DEF CtrlC, parser_vars
  <2>2. CASE phase # "parsing"
    BY <1>1, <1>2, <2>1, <2>2
  <2>3. CASE phase = "parsing"
    <3>1. PICK k \in 0 .. Len(packet) : Through(k) /\ offset = Start(packet, k + 1)
      BY <2>3 DEF ParserInv
    <3>2. Through(k)' /\ offset' = Start(packet', k + 1) /\ k \in 0 .. Len(packet)'
      BY <2>1, <3>1, SameDatagram
    <3>3. ParserType'
      BY <1>1, <2>1 DEF ParserType
    <3>4. QED
      BY <2>1, <2>3, <3>2, <3>3 DEF ParserInv
  <2>4. QED
    BY <2>2, <2>3
<1>9. QED
  BY <1>3, <1>4, <1>5, <1>6, <1>7, <1>8 DEF ParserNext, Consumer

LEMMA ParserInvHolds == ParserSpec => []ParserInv
<1>1. QED
  BY ParserInvInit, ParserStep, PTL DEF ParserSpec

\* Of every datagram, however many messages it has, of whatever length, cut at its end
\* or not, exactly the messages that can be told apart and read become events, once and
\* in order, and exactly those that can be told apart and not read are reported.
THEOREM EventsAreExact == ParserSpec => []DeliveredExactly
<1>1. ParserInv => DeliveredExactly
  <2>1. SUFFICES ASSUME ParserInv, phase = "loop"
                 PROVE  /\ \A n \in DOMAIN packet :
                             /\ n \in ToSet(events) <=> Framed(n) /\ parse_message(packet[n]) = "event"
                             /\ n \in errors <=> Framed(n) /\ parse_message(packet[n]) = "error"
                        /\ \A i, j \in DOMAIN events : i < j => events[i] < events[j]
    BY DEF DeliveredExactly
  <2>2. PICK k \in 0 .. Len(packet) : Through(k) /\ NoMore(k)
    BY <2>1 DEF ParserInv
  <2>3. packet \in Seq(Messages) /\ events \in Seq(Nat) /\ Len(packet) \in Nat
    BY <2>1 DEF ParserInv, ParserType
  <2>4. ASSUME NEW n \in 1 .. Len(packet)
        PROVE  Framed(n) <=> n =< k
    <3>1. CASE n =< k
      <4>1. \A i \in 1 .. n : i \in 1 .. k
        BY <2>3, <3>1
      <4>2. QED
        BY <2>2, <3>1, <4>1 DEF Through, Fits, Framed
    <3>2. CASE ~(n =< k)
      <4>1. k # Len(packet) /\ k + 1 \in 1 .. n
        BY <2>3, <3>2
      <4>2. ~Fits(k + 1)
        BY <2>2, <4>1 DEF NoMore
      <4>3. QED
        BY <3>2, <4>1, <4>2 DEF Fits, Framed
    <3>3. QED
      BY <3>1, <3>2
  <2>5. DOMAIN packet = 1 .. Len(packet) /\ DOMAIN events = 1 .. Len(events)
    BY <2>3
  <2>6. QED
    BY <2>2, <2>4, <2>5 DEF Through, Outcome
<1>2. QED
  BY <1>1, ParserInvHolds, PTL

\* No message makes the parser panic, and it never loses the boundaries of messages.
THEOREM ParserKeepsPlace == ParserSpec => []AtBoundary
<1>1. ParserInv => AtBoundary
  <2>1. SUFFICES ASSUME ParserInv
                 PROVE  /\ phase # "panicked"
                        /\ phase = "parsing" /\ offset + 2 =< size => Here # {}
    BY DEF AtBoundary
  <2>2. phase # "panicked" /\ packet \in Seq(Messages) /\ size \in Nat /\ Len(packet) \in Nat
        /\ size =< Start(packet, Len(packet) + 1)
    BY <2>1 DEF ParserInv, ParserType
  <2>3. ASSUME phase = "parsing", offset + 2 =< size
        PROVE  Here # {}
    <3>1. PICK k \in 0 .. Len(packet) : offset = Start(packet, k + 1)
      BY <2>1, <2>3 DEF ParserInv
    <3>2. Start(packet, k + 1) \in Nat
      BY <2>2, BeforeFinite
    <3>3. k # Len(packet)
      BY <2>2, <2>3, <3>1, <3>2
    <3>4. k + 1 \in DOMAIN packet
      BY <2>2, <3>3
    <3>5. QED
      BY <3>1, <3>4 DEF Here
  <2>4. QED
    BY <2>2, <2>3
<1>2. QED
  BY <1>1, ParserInvHolds, PTL

-----------------------------------------------------------------------------
(* The frames of the TCP stream. *)

\* A frame of a BBO has no contracts.
IsFrame(f) ==
  \/ f.kind = "BBO" /\ f.contracts = 0
  \/ f.kind = "Options" /\ f.contracts \in ContractCounts

Content == [kind : Kind, contracts : Nat]
Sent    == [kind : Kind, contracts : Nat, start : Nat]

ContentOf(f) == [kind |-> f.kind, contracts |-> f.contracts]

\* To a subscriber that knows which length counts the whole frame, a frame ends
\* where it ends, and has the contracts it has: its length fits into 16 bits.
LEMMA FrameSize ==
  ASSUME CountsAll = {"Options"}, NEW f, IsFrame(f)
  PROVE  /\ Bytes(f) \in Nat /\ Bytes(f) > 3
         /\ RestOf(f) = Bytes(f) - 3
         /\ Read(f, RestOf(f)) = ContentOf(f)
<1>1. CASE f.kind = "BBO"
  <2>1. f.contracts = 0
    BY <1>1 DEF IsFrame
  <2>2. Bytes(f) = 219
    BY <1>1, SMT DEF Bytes, TypeAndLength, BBO_SERIALIZED_SIZE
  <2>3. LengthField(f) = 216
    BY <1>1, SMT DEF LengthField, BBO_SERIALIZED_SIZE
  <2>4. RestOf(f) = 216
    BY <1>1, <2>3, SMT DEF RestOf
  <2>5. Read(f, RestOf(f)) = ContentOf(f)
    BY <1>1, <2>1 DEF Read, ContentOf
  <2>6. QED
    BY <2>2, <2>4, <2>5, SMT
<1>2. CASE f.kind = "Options"
  <2>1. PICK c \in 1 .. 128 : f.contracts = c
    BY <1>2, FramingAssumption DEF FramingAssumption, IsFrame
  <2>2. Bytes(f) = 53 + c * 121
    BY <1>2, <2>1, SMT DEF Bytes, option_bytes, TypeAndLength, OPTION_CONTRACT_SERIALIZED_SIZE
  <2>3. serialized_size(c) = 53 + c * 121
    BY SMT DEF serialized_size, OPTION_HEADER_SERIALIZED_SIZE, OPTION_CONTRACT_SERIALIZED_SIZE
  <2>4. LengthField(f) = 53 + c * 121
    BY <1>2, <2>1, <2>3, SMT DEF LengthField
  <2>5. RestOf(f) = 50 + c * 121
    BY <1>2, <2>4, SMT DEF RestOf, TypeAndLength
  <2>6. (RestOf(f) + TypeAndLength - OPTION_HEADER_SERIALIZED_SIZE)
          \div OPTION_CONTRACT_SERIALIZED_SIZE = c
    BY <2>5, SMT DEF TypeAndLength, OPTION_HEADER_SERIALIZED_SIZE, OPTION_CONTRACT_SERIALIZED_SIZE
  <2>7. Read(f, RestOf(f)) = ContentOf(f)
    BY <1>2, <2>1, <2>6 DEF Read, ContentOf
  <2>8. QED
    BY <2>2, <2>5, <2>7, SMT
<1>3. QED
  BY <1>1, <1>2 DEF IsFrame

\* The first byte of frame i, which may be the next one to be written.
Place(i) == IF i =< Len(sent) THEN sent[i].start ELSE written

\* The frames fill the stream, one after the other.
StreamInv ==
  /\ sent \in Seq(Sent) /\ written \in Nat
  /\ \A i \in 1 .. Len(sent) :
       /\ IsFrame(sent[i])
       /\ Place(i + 1) = sent[i].start + Bytes(sent[i])
       /\ sent[i].start < written
       /\ \A j \in 1 .. Len(sent) : i < j => sent[i].start < sent[j].start

\* The subscriber has read whole frames, and perhaps the header of the next one.
SubscriberInv ==
  /\ arrived \in Nat /\ at \in Nat /\ at =< arrived /\ arrived =< written
  /\ got \in Seq(Content) /\ Len(got) =< Len(sent)
  /\ \A i \in 1 .. Len(got) : got[i] = ContentOf(sent[i])
  /\ \/ body = {} /\ at = Place(Len(got) + 1)
     \/ /\ Len(got) < Len(sent)
        /\ \E f \in Sent : /\ f = sent[Len(got) + 1]
                           /\ body = {[frame |-> f, rest |-> RestOf(f)]}
                           /\ at = f.start + 3

FramingInv == StreamInv /\ SubscriberInv

LEMMA FramingTypes ==
  ASSUME FramingInv
  PROVE  /\ sent \in Seq(Sent) /\ Len(sent) \in Nat /\ written \in Nat
         /\ \A i \in 1 .. Len(sent) : sent[i] \in Sent /\ sent[i].start \in Nat
         /\ at \in Nat /\ arrived \in Nat /\ at =< arrived /\ arrived =< written
         /\ got \in Seq(Content) /\ Len(got) \in Nat /\ Len(got) =< Len(sent)
<1>1. /\ sent \in Seq(Sent) /\ written \in Nat
      /\ at \in Nat /\ arrived \in Nat /\ at =< arrived /\ arrived =< written
      /\ got \in Seq(Content) /\ Len(got) =< Len(sent)
  BY DEF FramingInv, StreamInv, SubscriberInv
<1>2. \A i \in 1 .. Len(sent) : sent[i] \in Sent
  BY <1>1
<1>3. \A f \in Sent : f.start \in Nat
  BY DEF Sent
<1>4. QED
  BY <1>1, <1>2, <1>3

LEMMA FramingInvInit == FramingInit => FramingInv
<1> SUFFICES ASSUME FramingInit PROVE FramingInv
  OBVIOUS
<1>1. /\ sent = <<>> /\ got = <<>> /\ written = 0 /\ arrived = 0 /\ at = 0 /\ body = {}
  BY DEF FramingInit
<1>2. StreamInv
  BY <1>1 DEF StreamInv
<1>3. SubscriberInv
  BY <1>1 DEF SubscriberInv, Place
<1>4. QED
  BY <1>2, <1>3 DEF FramingInv

\* What a header is read of is the frame at the subscriber's place.
LEMMA HeaderIsNext ==
  ASSUME FramingInv, HeaderHere
  PROVE  /\ Len(got) + 1 \in 1 .. Len(sent)
         /\ at = sent[Len(got) + 1].start
         /\ \A f \in ToSet(sent) : f.start = at => f = sent[Len(got) + 1]
<1>1. /\ body = {} /\ at + 3 =< arrived
  BY DEF HeaderHere, TypeAndLength
<1>2. /\ at \in Nat /\ arrived \in Nat /\ arrived =< written /\ written \in Nat
      /\ Len(got) \in Nat /\ Len(sent) \in Nat /\ Len(got) =< Len(sent)
  BY FramingTypes
<1>3. at = Place(Len(got) + 1)
  BY <1>1 DEF FramingInv, SubscriberInv
<1>4. Len(got) + 1 \in 1 .. Len(sent) /\ at = sent[Len(got) + 1].start
  BY <1>1, <1>2, <1>3 DEF Place
<1>5. ASSUME NEW i \in 1 .. Len(sent), sent[i].start = at
      PROVE  i = Len(got) + 1
  <2>1. \A k, j \in 1 .. Len(sent) : k < j => sent[k].start < sent[j].start
    BY DEF FramingInv, StreamInv
  <2>2. ~ (i < Len(got) + 1) /\ ~ (Len(got) + 1 < i)
    BY <1>2, <1>4, <1>5, <2>1
  <2>3. QED
    BY <1>2, <2>2
<1>6. QED
  BY <1>4, <1>5 DEF ToSet

LEMMA WriteStep ==
  ASSUME CountsAll = {"Options"}, FramingInv, NEW g \in Frames, Write(g)
  PROVE  FramingInv'
<1>1. /\ sent \in Seq(Sent) /\ written \in Nat /\ Len(sent) \in Nat
      /\ \A i \in 1 .. Len(sent) : sent[i] \in Sent /\ sent[i].start \in Nat
  BY FramingTypes
<1>2. PICK f : f = [kind |-> g.kind, contracts |-> g.contracts, start |-> written]
  OBVIOUS
<1>3. f \in Sent /\ IsFrame(f) /\ Bytes(f) = Bytes(g) /\ f.start = written
  <2>1. CASE g = [kind |-> "BBO", contracts |-> 0]
    <3>1. f = [kind |-> "BBO", contracts |-> 0, start |-> written]
      BY <1>2, <2>1
    <3>2. g.kind = "BBO" /\ f.kind = "BBO" /\ f.contracts = 0 /\ f.start = written
      BY <2>1, <3>1
    <3>3. f \in Sent
      BY <1>1, <3>1 DEF Sent, Kind
    <3>4. QED
      BY <3>2, <3>3 DEF IsFrame, Bytes
  <2>2. CASE g \in [kind : {"Options"}, contracts : ContractCounts]
    <3>1. g.contracts \in ContractCounts /\ g.contracts \in Nat /\ g.kind = "Options"
      <4>1. g.contracts \in ContractCounts /\ g.kind = "Options"
        BY <2>2
      <4>2. g.contracts \in 1 .. 128
        BY <4>1, FramingAssumption, Zenon DEF FramingAssumption
      <4>3. QED
        BY <4>1, <4>2
    <3>2. /\ f.kind = "Options" /\ f.contracts = g.contracts /\ f.start = written
      BY <1>2, <3>1
    <3>3. f \in Sent
      BY <1>1, <1>2, <3>1 DEF Sent, Kind
    <3>4. QED
      BY <3>1, <3>2, <3>3 DEF IsFrame, Bytes
  <2>3. QED
    BY <2>1, <2>2 DEF Frames
<1>4. Bytes(f) \in Nat /\ Bytes(f) > 3
  BY <1>3, FrameSize
<1>5. /\ sent' = Append(sent, f) /\ written' = written + Bytes(f)
      /\ UNCHANGED <<arrived, at, body, got>>
  BY <1>2, <1>3 DEF Write
<1>6. /\ sent' \in Seq(Sent) /\ Len(sent') = Len(sent) + 1 /\ sent'[Len(sent) + 1] = f
      /\ \A i \in 1 .. Len(sent) : sent'[i] = sent[i]
      /\ written' \in Nat
  BY <1>1, <1>3, <1>4, <1>5
<1>7. \A i \in 1 .. Len(sent) + 1 : Place(i)' = Place(i)
  BY <1>1, <1>3, <1>5, <1>6 DEF Place
<1>8. StreamInv'
  <2>1. SUFFICES ASSUME NEW i \in 1 .. Len(sent) + 1
                 PROVE  /\ IsFrame(sent'[i])
                        /\ Place(i + 1)' = sent'[i].start + Bytes(sent'[i])
                        /\ sent'[i].start < written'
                        /\ \A j \in 1 .. Len(sent) + 1 : i < j => sent'[i].start < sent'[j].start
    BY <1>6 DEF StreamInv
  <2>2. CASE i = Len(sent) + 1
    <3>1. sent'[i] = f
      BY <1>6, <2>2
    <3>2. Place(i + 1)' = written'
      BY <1>1, <1>6, <2>2 DEF Place
    <3>3. \A j \in 1 .. Len(sent) + 1 : ~(i < j)
      BY <1>1, <2>2
    <3>4. QED
      BY <1>1, <1>3, <1>4, <1>5, <3>1, <3>2, <3>3
  <2>3. CASE i \in 1 .. Len(sent)
    <3>1. /\ IsFrame(sent[i]) /\ sent[i].start < written /\ sent[i].start \in Nat
          /\ Place(i + 1) = sent[i].start + Bytes(sent[i])
          /\ \A j \in 1 .. Len(sent) : i < j => sent[i].start < sent[j].start
      BY <1>1, <2>3 DEF FramingInv, StreamInv, Sent
    <3>2. Place(i + 1)' = Place(i + 1) /\ sent'[i] = sent[i]
      BY <1>1, <1>6, <1>7, <2>3
    <3>3. \A j \in 1 .. Len(sent) + 1 : j \in 1 .. Len(sent) \/ j = Len(sent) + 1
      BY <1>1
    <3>4. \A j \in 1 .. Len(sent) + 1 : i < j => sent'[i].start < sent'[j].start
      BY <1>3, <1>6, <3>1, <3>2, <3>3
    <3>5. sent'[i].start < written'
      <4>1. written' = written + Bytes(f) /\ written \in Nat
        BY <1>1, <1>5
      <4>2. sent[i].start < written'
        BY <1>4, <3>1, <4>1
      <4>3. QED
        BY <3>2, <4>2
    <3>6. QED
      BY <3>1, <3>2, <3>4, <3>5
  <2>4. QED
    BY <1>1, <2>2, <2>3
<1>9. SubscriberInv'
  <2>1. /\ arrived \in Nat /\ at \in Nat /\ at =< arrived /\ arrived =< written
        /\ got \in Seq(Content) /\ Len(got) \in Nat /\ Len(got) =< Len(sent)
        /\ \A i \in 1 .. Len(got) : got[i] = ContentOf(sent[i])
    BY DEF FramingInv, SubscriberInv
  <2>2. \A i \in 1 .. Len(got) : got[i] = ContentOf(sent'[i])
    <3>1. SUFFICES ASSUME NEW i \in 1 .. Len(got) PROVE got[i] = ContentOf(sent'[i])
      OBVIOUS
    <3>2. sent'[i] = sent[i]
      BY <1>1, <1>6, <2>1
    <3>3. QED
      BY <2>1, <3>2
  <2>3. arrived =< written' /\ Len(got) =< Len(sent')
    BY <1>1, <1>4, <1>5, <1>6, <2>1
  <2>4. CASE body = {} /\ at = Place(Len(got) + 1)
    <3>1. body' = {} /\ at' = at /\ got' = got /\ arrived' = arrived
      BY <1>5, <2>4
    <3>2. at = IF Len(got) + 1 =< Len(sent) THEN sent[Len(got) + 1].start ELSE written
      BY <2>4 DEF Place
    <3>3. at = IF Len(got) + 1 =< Len(sent') THEN sent'[Len(got) + 1].start ELSE written'
      <4>1. CASE Len(got) + 1 =< Len(sent)
        <5>1. Len(got) + 1 \in 1 .. Len(sent)
          BY <1>1, <2>1, <4>1
        <5>2. sent'[Len(got) + 1] = sent[Len(got) + 1]
          BY <1>6, <5>1
        <5>3. Len(got) + 1 =< Len(sent')
          BY <1>1, <1>6, <2>1, <4>1
        <5>4. QED
          BY <3>2, <4>1, <5>2, <5>3
      <4>2. CASE Len(got) = Len(sent)
        <5>1. at = written
          BY <1>1, <3>2, <4>2
        <5>2. sent'[Len(got) + 1] = f /\ Len(got) + 1 =< Len(sent')
          BY <1>1, <1>6, <4>2
        <5>3. QED
          BY <1>3, <5>1, <5>2
      <4>3. QED
        BY <1>1, <2>1, <4>1, <4>2
    <3>4. (at = Place(Len(got) + 1))'
      BY <3>1, <3>3 DEF Place
    <3>5. QED
      BY <2>1, <2>2, <2>3, <3>1, <3>4 DEF SubscriberInv
  <2>5. CASE /\ Len(got) < Len(sent)
             /\ \E h \in Sent : /\ h = sent[Len(got) + 1]
                                /\ body = {[frame |-> h, rest |-> RestOf(h)]}
                                /\ at = h.start + 3
    <3>1. PICK h \in Sent : /\ h = sent[Len(got) + 1]
                            /\ body = {[frame |-> h, rest |-> RestOf(h)]}
                            /\ at = h.start + 3
      BY <2>5
    <3>2. h = sent'[Len(got) + 1] /\ Len(got) < Len(sent')
      <4>1. Len(got) + 1 \in 1 .. Len(sent) /\ Len(got) < Len(sent')
        BY <1>1, <1>6, <2>1, <2>5
      <4>2. sent'[Len(got) + 1] = sent[Len(got) + 1]
        BY <1>6, <4>1
      <4>3. QED
        BY <3>1, <4>1, <4>2
    <3>3. body' = body /\ at' = at /\ got' = got /\ arrived' = arrived
      BY <1>5
    <3>4. \E e \in Sent : /\ e = sent'[Len(got') + 1]
                          /\ body' = {[frame |-> e, rest |-> RestOf(e)]}
                          /\ at' = e.start + 3
      BY <3>1, <3>2, <3>3
    <3>5. QED
      BY <2>1, <2>2, <2>3, <3>2, <3>3, <3>4 DEF SubscriberInv
  <2>6. QED
    BY <2>4, <2>5 DEF FramingInv, SubscriberInv
<1>10. QED
  BY <1>8, <1>9 DEF FramingInv

LEMMA SameStream ==
  ASSUME StreamInv, UNCHANGED <<sent, written>>
  PROVE  StreamInv' /\ \A i : Place(i)' = Place(i)
BY DEF StreamInv, Place

LEMMA FramingStep ==
  ASSUME CountsAll = {"Options"}, FramingInv, [FramingNext]_framing_vars
  PROVE  FramingInv'
<1>1. /\ arrived \in Nat /\ at \in Nat /\ at =< arrived /\ arrived =< written
      /\ written \in Nat /\ sent \in Seq(Sent) /\ Len(sent) \in Nat
      /\ got \in Seq(Content) /\ Len(got) \in Nat /\ Len(got) =< Len(sent)
      /\ \A i \in 1 .. Len(got) : got[i] = ContentOf(sent[i])
      /\ \A i \in 1 .. Len(sent) : sent[i] \in Sent /\ sent[i].start \in Nat
  BY FramingTypes DEF FramingInv, SubscriberInv
<1>2. CASE \E f \in Frames : Write(f)
  BY <1>2, WriteStep
<1>3. CASE Arrive \/ UNCHANGED framing_vars
  <2>1. /\ arrived' \in Nat /\ arrived =< arrived' /\ arrived' =< written
        /\ UNCHANGED <<sent, written, at, body, got>>
    <3>1. CASE Arrive
      <4>1. PICK n \in Cuts : arrived < n /\ n =< written /\ arrived' = n
        BY <3>1 DEF Arrive
      <4>2. n \in Int
        <5>1. \A f \in ToSet(sent) : f.start \in Nat
          BY <1>1 DEF ToSet
        <5>2. CASE n \in {written - 1, written}
          BY <1>1, <5>2
        <5>3. CASE n \in { f.start + d : f \in ToSet(sent), d \in 0 .. 4 }
          <6>1. PICK f \in ToSet(sent), d \in 0 .. 4 : n = f.start + d
            BY <5>3
          <6>2. f.start \in Nat
            BY <5>1, <6>1
          <6>3. QED
            BY <6>1, <6>2
        <5>4. QED
          BY <4>1, <5>2, <5>3 DEF Cuts
      <4>3. QED
        BY <1>1, <3>1, <4>1, <4>2 DEF Arrive
    <3>2. CASE UNCHANGED framing_vars
      BY <1>1, <3>2 DEF framing_vars
    <3>3. QED
      BY <1>3, <3>1, <3>2
  <2>2. StreamInv' /\ \A i : Place(i)' = Place(i)
    BY <2>1, SameStream DEF FramingInv
  <2>3. SubscriberInv'
    BY <1>1, <2>1, <2>2 DEF FramingInv, SubscriberInv
  <2>4. QED
    BY <2>2, <2>3 DEF FramingInv
<1>4. CASE ReadHeader
  <2>1. PICK f \in ToSet(sent) :
          /\ f.start = at /\ body' = {[frame |-> f, rest |-> RestOf(f)]}
          /\ HeaderHere /\ at' = at + 3
          /\ UNCHANGED <<sent, written, arrived, got>>
    BY <1>4 DEF ReadHeader, TypeAndLength
  <2>2. Len(got) + 1 \in 1 .. Len(sent) /\ f = sent[Len(got) + 1] /\ f \in Sent
    BY <1>1, <2>1, HeaderIsNext
  <2>3. StreamInv'
    BY <2>1, SameStream DEF FramingInv
  <2>4. at' \in Nat /\ at' =< arrived /\ Len(got) < Len(sent)
    BY <1>1, <2>1, <2>2 DEF HeaderHere, TypeAndLength
  <2>5. \E h \in Sent : /\ h = sent'[Len(got') + 1]
                        /\ body' = {[frame |-> h, rest |-> RestOf(h)]}
                        /\ at' = h.start + 3
    BY <2>1, <2>2
  <2>6. SubscriberInv'
    BY <1>1, <2>1, <2>4, <2>5 DEF SubscriberInv
  <2>7. QED
    BY <2>3, <2>6 DEF FramingInv
<1>5. CASE ReadBody
  <2>1. PICK b \in body : /\ at + b.rest =< arrived /\ at' = at + b.rest
                          /\ got' = Append(got, Read(b.frame, b.rest))
                          /\ body' = {} /\ UNCHANGED <<sent, written, arrived>>
    BY <1>5 DEF ReadBody
  <2>2. PICK f \in Sent : /\ Len(got) < Len(sent) /\ f = sent[Len(got) + 1]
                          /\ body = {[frame |-> f, rest |-> RestOf(f)]} /\ at = f.start + 3
    BY <2>1 DEF FramingInv, SubscriberInv
  <2>3. b.frame = f /\ b.rest = RestOf(f)
    BY <2>1, <2>2
  <2>4. /\ Len(got) + 1 \in 1 .. Len(sent) /\ IsFrame(f)
        /\ Place(Len(got) + 1 + 1) = f.start + Bytes(f)
    BY <1>1, <2>2 DEF FramingInv, StreamInv
  <2>5. /\ Bytes(f) \in Nat /\ Bytes(f) > 3 /\ RestOf(f) = Bytes(f) - 3
        /\ Read(f, RestOf(f)) = ContentOf(f) /\ ContentOf(f) \in Content /\ f.start \in Nat
    BY <2>4, FrameSize DEF ContentOf, Content, Sent
  <2>6. /\ got' \in Seq(Content) /\ Len(got') = Len(got) + 1
        /\ got'[Len(got) + 1] = ContentOf(f)
        /\ \A i \in 1 .. Len(got) : got'[i] = got[i]
    BY <1>1, <2>1, <2>3, <2>5
  <2>7. StreamInv' /\ \A i : Place(i)' = Place(i)
    BY <2>1, SameStream DEF FramingInv
  <2>8. at' = f.start + Bytes(f) /\ at' \in Nat /\ at' =< arrived
    <3>1. b.rest = Bytes(f) - 3 /\ at = f.start + 3
      BY <2>2, <2>3, <2>5
    <3>2. at' = at + b.rest /\ at + b.rest =< arrived
      BY <2>1
    <3>3. QED
      BY <2>5, <3>1, <3>2
  <2>9. \A i \in 1 .. Len(got') : got'[i] = ContentOf(sent[i])
    <3>1. \A i \in 1 .. Len(got') : i \in 1 .. Len(got) \/ i = Len(got) + 1
      BY <1>1, <2>6
    <3>2. QED
      BY <1>1, <2>2, <2>6, <3>1
  <2>10. (at = Place(Len(got) + 1))'
    BY <1>1, <2>4, <2>6, <2>7, <2>8
  <2>11. SubscriberInv'
    BY <1>1, <2>1, <2>4, <2>6, <2>8, <2>9, <2>10 DEF SubscriberInv
  <2>12. QED
    BY <2>7, <2>11 DEF FramingInv
<1>6. QED
  BY <1>2, <1>3, <1>4, <1>5 DEF FramingNext

\* A subscriber that knows that only the length of an option frame counts the whole
\* frame reads what was sent, whatever the frames, the pieces in which they arrive,
\* and the numbers of contracts that a snapshot may have.
THEOREM SubscriberInStep ==
  ASSUME CountsAll = {"Options"}
  PROVE  FramingSpec => []InStep
<1>1. FramingInv => InStep
  <2>1. SUFFICES ASSUME FramingInv
                 PROVE  /\ \A i \in DOMAIN got : got[i] = ContentOf(sent[i])
                        /\ HeaderHere => \E f \in ToSet(sent) : f.start = at
    BY DEF InStep, ContentOf
  <2>2. \A i \in DOMAIN got : got[i] = ContentOf(sent[i])
    BY <2>1 DEF FramingInv, SubscriberInv
  <2>3. ASSUME HeaderHere
        PROVE  \E f \in ToSet(sent) : f.start = at
    <3>1. Len(got) + 1 \in 1 .. Len(sent) /\ at = sent[Len(got) + 1].start
      BY <2>1, <2>3, HeaderIsNext
    <3>2. sent[Len(got) + 1] \in ToSet(sent)
      BY <2>1, <3>1 DEF ToSet, FramingInv, StreamInv
    <3>3. QED
      BY <3>1, <3>2
  <2>4. QED
    BY <2>2, <2>3
<1>2. FramingInv /\ [FramingNext]_framing_vars => FramingInv'
  BY FramingStep
<1>3. QED
  BY <1>1, <1>2, FramingInvInit, PTL DEF FramingSpec

-----------------------------------------------------------------------------
(* Arithmetic modulo the range of the counters. *)

LEMMA DivMod ==
  ASSUME NEW a \in Int, NEW w \in Nat \ {0}
  PROVE  \E q \in Int, r \in 0 .. w - 1 : a = w * q + r
<1>1. a \div w \in Int
  OBVIOUS
<1>2. a % w \in 0 .. w - 1
  OBVIOUS
<1>3. a = w * (a \div w) + (a % w)
  OBVIOUS
<1>4. QED
  BY <1>1, <1>2, <1>3

LEMMA ModUnique ==
  ASSUME NEW w \in Nat \ {0}, NEW q \in Int, NEW r \in 0 .. w - 1
  PROVE  (w * q + r) % w = r
OBVIOUS

\* A sum may be reduced at any point.
LEMMA ModAdd ==
  ASSUME NEW w \in Nat \ {0}, NEW a \in Int, NEW b \in Int
  PROVE  ((a % w) + b) % w = (a + b) % w
<1>1. PICK q \in Int, r \in 0 .. w - 1 : a = w * q + r
  BY DivMod
<1>2. PICK s \in Int, t \in 0 .. w - 1 : r + b = w * s + t
  <2>1. r + b \in Int
    OBVIOUS
  <2>2. QED
    BY <2>1, DivMod
<1>3. a % w = r
  BY <1>1, ModUnique
<1>4. (r + b) % w = t
  BY <1>2, ModUnique
<1>5. a + b = w * (q + s) + t /\ q + s \in Int
  BY <1>1, <1>2
<1>6. (a + b) % w = t
  BY <1>5, ModUnique
<1>7. QED
  BY <1>3, <1>4, <1>6

LEMMA ModRange ==
  ASSUME NEW w \in Nat \ {0}, NEW a \in Int
  PROVE  a % w \in 0 .. w - 1 /\ (a \in 0 .. w - 1 => a % w = a)
<1>1. a % w \in 0 .. w - 1
  OBVIOUS
<1>2. ASSUME a \in 0 .. w - 1
      PROVE  a % w = a
  <2>1. (w * 0 + a) % w = a
    BY <1>2, ModUnique
  <2>2. QED
    BY <2>1
<1>3. QED
  BY <1>1, <1>2

\* A full turn of the counter is nothing.
LEMMA ModTurn ==
  ASSUME NEW w \in Nat \ {0}, NEW a \in Int
  PROVE  (a + w) % w = a % w
<1>1. PICK q \in Int, r \in 0 .. w - 1 : a = w * q + r
  BY DivMod
<1>2. a + w = w * (q + 1) + r /\ q + 1 \in Int
  BY <1>1
<1>3. QED
  BY <1>1, <1>2, ModUnique

-----------------------------------------------------------------------------
(* The inductive invariant. *)

\* No counter outruns the count of events, and a turn of the writer begins with
\* nothing counted: so the counts that are cleared there are zero.
TurnInv ==
  /\ count \in [Counter -> Nat]
  /\ \A c \in Counter : count[c] =< count["events"]
  /\ writer = "loop" => count = None

TypeInv ==
  /\ total \in [Counter -> 0 .. WordSize - 1]
  /\ due \in [Counter -> 0 .. WordSize - 1]
  /\ writer \in {"loop", "events", "options", "adding", "stopped"}
  /\ adding \in Counter
  /\ monitor \in Counter \cup {"loop", "stopped"}

IInv == TypeInv /\ TurnInv /\ CountedOnce

LEMMA InitIInv == Init => IInv
<1> SUFFICES ASSUME Init PROVE IInv
  OBVIOUS
<1>1. WordSize \in Nat \ {0}
  BY WriterAssumption DEF WriterAssumption
<1>2. TypeInv /\ TurnInv
  BY <1>1 DEF Init, TypeInv, TurnInv, None, Counter
<1>3. CountedOnce
  BY <1>1, ModRange DEF Init, CountedOnce, pending, None
<1>4. QED
  BY <1>2, <1>3 DEF IInv

\* A step that moves none of the shared counters and keeps the counts that are
\* not yet added keeps the invariant.
LEMMA QuietStep ==
  ASSUME IInv, total' = total, due' = due, TurnInv',
         writer' \in {"loop", "events", "options", "adding", "stopped"},
         adding' \in Counter, monitor' \in Counter \cup {"loop", "stopped"},
         \A c \in Counter : pending(c)' = pending(c)
  PROVE  IInv'
BY DEF IInv, TypeInv, CountedOnce

LEMMA WriterLoopInv ==
  ASSUME IInv, WriterLoop
  PROVE  IInv'
<1>1. count = None /\ count' = None
  BY DEF IInv, TurnInv, WriterLoop
<1>2. \A c \in Counter : pending(c)' = pending(c)
  BY <1>1 DEF WriterLoop, pending, None
<1>3. TurnInv'
  BY <1>1 DEF TurnInv, None, Counter
<1>4. QED
  BY <1>2, <1>3, QuietStep DEF WriterLoop, IInv, TypeInv

LEMMA PopInv ==
  ASSUME IInv, NEW q \in Queue, NEW n \in Adds, n.snapshots =< n.bbos \/ n.bbos = 0, Pop(q, n)
  PROVE  IInv'
<1>1. /\ \A c \in Counter : n[c] \in Nat /\ n[c] =< n["events"]
      /\ WordSize \in Nat \ {0}
  BY WriterAssumption DEF WriterAssumption, Adds, Counter
<1>2. writer \in {"events", "options"} /\ writer' = writer /\ total' = total
  BY DEF Pop, Queue
<1>3. /\ count' = [c \in Counter |-> count[c] + n[c]]
      /\ due' = [c \in Counter |-> (due[c] + n[c]) % WordSize]
  BY DEF Pop
<1>4. /\ \A c \in Counter : total[c] \in 0 .. WordSize - 1 /\ count[c] \in Nat
      /\ \A c \in Counter : due[c] \in 0 .. WordSize - 1 /\ count[c] =< count["events"]
      /\ \A c \in Counter : (total[c] + count[c]) % WordSize = due[c]
  BY <1>2 DEF IInv, TypeInv, TurnInv, CountedOnce, pending
<1>5. TurnInv'
  <2>1. "events" \in Counter
    BY DEF Counter
  <2>2. QED
    BY <1>1, <1>2, <1>3, <1>4, <2>1 DEF TurnInv
<1>6. ASSUME NEW c \in Counter
      PROVE  due'[c] \in 0 .. WordSize - 1 /\ (total[c] + count'[c]) % WordSize = due'[c]
  <2>1. /\ total[c] + count[c] \in Int /\ n[c] \in Int
        /\ total[c] + (count[c] + n[c]) = (total[c] + count[c]) + n[c]
        /\ due[c] + n[c] \in Int
    BY <1>1, <1>4
  <2>2. (((total[c] + count[c]) % WordSize) + n[c]) % WordSize
          = ((total[c] + count[c]) + n[c]) % WordSize
    BY <1>1, <2>1, ModAdd
  <2>3. due'[c] \in 0 .. WordSize - 1
    BY <1>1, <1>3, <2>1, ModRange
  <2>4. QED
    BY <1>3, <1>4, <2>1, <2>2, <2>3
<1>7. CountedOnce'
  BY <1>2, <1>6 DEF CountedOnce, pending
<1>8. TypeInv'
  BY <1>2, <1>3, <1>6 DEF Pop, IInv, TypeInv
<1>9. QED
  BY <1>5, <1>7, <1>8 DEF IInv

LEMMA EndOfEventsInv ==
  ASSUME IInv, EndOfEvents
  PROVE  IInv'
<1>1. \A c \in Counter : pending(c)' = pending(c)
  BY DEF EndOfEvents, pending
<1>2. TurnInv'
  BY DEF EndOfEvents, IInv, TurnInv
<1>3. QED
  BY <1>1, <1>2, QuietStep DEF EndOfEvents, IInv, TypeInv

LEMMA EndOfOptionsInv ==
  ASSUME IInv, EndOfOptions
  PROVE  IInv'
<1>1. \A c \in Counter : pending(c)' = pending(c)
  BY DEF EndOfOptions, pending, Added
<1>2. TurnInv'
  <2>1. count["events"] \in Nat
    BY DEF IInv, TurnInv, Counter
  <2>2. ASSUME ~(count["events"] > 0)
        PROVE  count = None
    <3>1. count["events"] = 0
      BY <2>1, <2>2
    <3>2. \A c \in Counter : count[c] = 0
      BY <3>1 DEF IInv, TurnInv
    <3>3. QED
      BY <3>2 DEF IInv, TurnInv, None
  <2>3. QED
    BY <2>2 DEF EndOfOptions, IInv, TurnInv
<1>3. QED
  BY <1>1, <1>2, QuietStep DEF EndOfOptions, IInv, TypeInv, Counter

LEMMA FetchAddInv ==
  ASSUME IInv, FetchAdd
  PROVE  IInv'
<1>1. /\ WordSize \in Nat \ {0}
      /\ writer = "adding" /\ adding \in Counter
      /\ total \in [Counter -> 0 .. WordSize - 1] /\ count \in [Counter -> Nat]
      /\ due' = due
      /\ total' = [total EXCEPT ![adding] = (@ + count[adding]) % WordSize]
  BY WriterAssumption DEF WriterAssumption, FetchAdd, IInv, TypeInv, TurnInv, plus
<1>2. PICK a \in Counter : a = adding
  BY <1>1
\* What is added is no longer pending, and nothing else changes.
<1>3. /\ pending(a) = count[a] /\ pending(a)' = 0
      /\ \A c \in Counter \ {a} : pending(c)' = pending(c)
  <2>1. \/ adding = "events" /\ adding' = "bbos" /\ writer' = "adding" /\ count' = count
        \/ adding = "bbos" /\ adding' = "snapshots" /\ writer' = "adding" /\ count' = count
        \/ adding = "snapshots" /\ adding' = "events" /\ writer' = "loop" /\ count' = None
    BY <1>1 DEF FetchAdd, following, Counter
  <2>2. CASE a = "events"
    <3>1. adding' = "bbos" /\ writer' = "adding" /\ count' = count
      BY <1>2, <2>1, <2>2
    <3>2. QED
      BY <1>1, <1>2, <2>2, <3>1 DEF pending, Added, Counter
  <2>3. CASE a = "bbos"
    <3>1. adding' = "snapshots" /\ writer' = "adding" /\ count' = count
      BY <1>2, <2>1, <2>3
    <3>2. QED
      BY <1>1, <1>2, <2>3, <3>1 DEF pending, Added, Counter
  <2>4. CASE a = "snapshots"
    <3>1. writer' = "loop" /\ \A c \in Counter : count'[c] = 0
      BY <1>2, <2>1, <2>4 DEF None
    <3>2. QED
      BY <1>1, <1>2, <2>4, <3>1 DEF pending, Added, Counter
  <2>5. QED
    BY <1>2, <2>1, <2>2, <2>3, <2>4
<1>4. total' \in [Counter -> 0 .. WordSize - 1]
  <2>1. (total[adding] + count[adding]) % WordSize \in 0 .. WordSize - 1
    <3>1. total[adding] + count[adding] \in Int
      BY <1>1
    <3>2. WordSize \in Nat \ {0}
      BY <1>1
    <3>3. QED
      BY <3>1, <3>2, ModRange
  <2>2. QED
    BY <1>1, <2>1
<1>5. CountedOnce'
  <2>1. SUFFICES ASSUME NEW c \in Counter
                 PROVE  (total'[c] + pending(c)') % WordSize = due'[c]
    BY DEF CountedOnce
  <2>2. (total[c] + pending(c)) % WordSize = due[c]
    BY DEF IInv, CountedOnce
  <2>3. CASE c = a
    <3>1. total'[c] = due[c]
      BY <1>1, <1>2, <1>3, <2>2, <2>3
    <3>2. due[c] \in 0 .. WordSize - 1
      BY DEF IInv, TypeInv
    <3>3. due[c] % WordSize = due[c]
      <4>1. due[c] \in Int /\ WordSize \in Nat \ {0}
        BY <1>1, <3>2
      <4>2. QED
        BY <3>2, <4>1, ModRange
    <3>4. total'[c] + pending(c)' = due[c]
      BY <1>3, <2>3, <3>1, <3>2
    <3>5. QED
      BY <1>1, <3>3, <3>4
  <2>4. CASE c # a
    BY <1>1, <1>2, <1>3, <2>2, <2>4
  <2>5. QED
    BY <2>3, <2>4
<1>6. TurnInv'
  BY DEF FetchAdd, IInv, TurnInv, None, Counter
<1>7. TypeInv'
  BY <1>1, <1>4 DEF FetchAdd, IInv, TypeInv, following, Counter
<1>8. QED
  BY <1>5, <1>6, <1>7 DEF IInv

\* The exchange of the monitor: what the counter held is reported.
LEMMA SwapInv ==
  ASSUME IInv, Swap
  PROVE  IInv'
<1>1. /\ WordSize \in Nat \ {0}
      /\ monitor \in Counter
      /\ total \in [Counter -> 0 .. WordSize - 1] /\ due \in [Counter -> 0 .. WordSize - 1]
      /\ total' = [total EXCEPT ![monitor] = 0]
      /\ due' = [due EXCEPT ![monitor] = (@ + (WordSize - total[monitor])) % WordSize]
      /\ count \in [Counter -> Nat]
  BY WriterAssumption DEF WriterAssumption, Swap, IInv, TypeInv, TurnInv, plus, taken
<1>2. \A c \in Counter : pending(c)' = pending(c) /\ pending(c) \in Nat
  BY <1>1 DEF Swap, turn, pending, Added
<1>3. \A c \in Counter : (total[c] + pending(c)) % WordSize = due[c]
  BY DEF IInv, CountedOnce
<1>4. total'[monitor] = 0
  BY <1>1
<1>5. (0 + pending(monitor)) % WordSize = due'[monitor]
  <2>1. PICK t \in 0 .. WordSize - 1, k \in Nat : t = total[monitor] /\ k = pending(monitor)
    BY <1>1, <1>2
  <2>2. t + k \in Int /\ WordSize - t \in Int
    BY <1>1
  <2>3. (((t + k) % WordSize) + (WordSize - t)) % WordSize
          = ((t + k) + (WordSize - t)) % WordSize
    BY <1>1, <2>2, ModAdd
  <2>4. (t + k) + (WordSize - t) = k + WordSize
    BY <1>1
  <2>5. (k + WordSize) % WordSize = k % WordSize
    <3>1. k \in Int /\ WordSize \in Nat \ {0}
      BY <1>1
    <3>2. QED
      BY <3>1, ModTurn
  <2>6. due'[monitor] = (due[monitor] + (WordSize - t)) % WordSize
    BY <1>1, <2>1
  <2>7. due[monitor] = (t + k) % WordSize
    BY <1>1, <1>3, <2>1
  <2>8. QED
    BY <2>1, <2>3, <2>4, <2>5, <2>6, <2>7
<1>6. CountedOnce'
  BY <1>1, <1>2, <1>3, <1>4, <1>5 DEF CountedOnce
<1>7. due' \in [Counter -> 0 .. WordSize - 1]
  <2>1. (due[monitor] + (WordSize - total[monitor])) % WordSize \in 0 .. WordSize - 1
    <3>1. due[monitor] + (WordSize - total[monitor]) \in Int
      BY <1>1
    <3>2. WordSize \in Nat \ {0}
      BY <1>1
    <3>3. QED
      BY <3>1, <3>2, ModRange
  <2>2. QED
    BY <1>1, <2>1
<1>8. TypeInv'
  BY <1>1, <1>7 DEF Swap, turn, IInv, TypeInv, after_swap, following, Counter
<1>9. TurnInv'
  BY DEF Swap, turn, IInv, TurnInv
<1>10. QED
  BY <1>6, <1>8, <1>9 DEF IInv

LEMMA NextIInv == IInv /\ [Next]_vars => IInv'
<1> SUFFICES ASSUME IInv, [Next]_vars PROVE IInv'
  OBVIOUS
<1>1. ASSUME turn' = turn, total' = total, due' = due,
             monitor' \in Counter \cup {"loop", "stopped"}
      PROVE  IInv'
  <2>1. TurnInv' /\ \A c \in Counter : pending(c)' = pending(c)
    BY <1>1 DEF turn, IInv, TurnInv, pending, Added
  <2>2. QED
    BY <1>1, <2>1, QuietStep DEF turn, IInv, TypeInv
<1>2. ASSUME NEW q \in Queue, Push(q)
      PROVE  IInv'
  BY <1>1, <1>2 DEF Push, IInv, TypeInv
<1>3. CASE Stop
  BY <1>1, <1>3 DEF Stop, Interrupt, IInv, TypeInv
<1>4. CASE Writer
  <2>1. CASE FeedEvent
    BY <2>1, PopInv DEF FeedEvent, Queue
  <2>2. CASE OptionEvent
    BY <2>2, PopInv DEF OptionEvent, Queue
  <2>3. QED
    BY <1>4, <2>1, <2>2, WriterLoopInv, EndOfEventsInv, EndOfOptionsInv, FetchAddInv
    DEF Writer
<1>5. CASE MonitorLoop
  BY <1>1, <1>5 DEF MonitorLoop, following, Counter
<1>6. CASE Swap
  BY <1>6, SwapInv
<1>7. CASE UNCHANGED vars
  BY <1>1, <1>7 DEF vars, IInv, TypeInv
<1>8. QED
  BY <1>2, <1>3, <1>4, <1>5, <1>6, <1>7 DEF Next, Monitor

\* However the additions of the writer and the exchanges of the monitor fall
\* together, and however often a counter wraps round, the reports of the monitor
\* and what the counters hold add up to what the writer has done.
THEOREM EachIsCountedOnce == Spec => []CountedOnce
<1>1. Init => IInv
  BY InitIInv
<1>2. IInv /\ [Next]_vars => IInv'
  BY NextIInv
<1>3. IInv => CountedOnce
  BY DEF IInv
<1>4. QED
  BY <1>1, <1>2, <1>3, PTL DEF Spec

=============================================================================
