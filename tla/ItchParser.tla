----------------------------- MODULE ItchParser -----------------------------
(***************************************************************************)
(* The multicast consumer thread (main.rs), its socket (network/mod.rs)    *)
(* and the parser of a datagram (protocol/mod.rs).                         *)
(*                                                                         *)
(* A datagram is a sequence of messages, each behind a length of two       *)
(* bytes, which may have lost its end.  Of a message the type, the length, *)
(* and whether the side is 'B' or 'S' are kept: nothing else decides what  *)
(* becomes of it.  A message is known by its number in the datagram.       *)
(***************************************************************************)
EXTENDS Integers, FiniteSetsExt, SequencesExt, RunningFlag

CONSTANTS
  Lengths,       \* message type -> the lengths that datagrams give it
  MaxMessages,   \* bound on the messages of a datagram
  Lost           \* the numbers of bytes that a datagram may lose at its end

AddTypes == {"A", "F"}
Types    == AddTypes \cup {"E", "C", "X", "D", "U", "R", "S"}

\* "unknown" stands for all the types the parser does not know.
Messages == UNION { [type : {t}, len : Lengths[t], side_ok : IF t \in AddTypes THEN BOOLEAN ELSE {TRUE}]
                      : t \in Types \cup {"unknown"} }

MaxLength == 2^16 - 1   \* a length is a u16

ASSUME ParserAssumption ==
  /\ \A t \in Types \cup {"unknown"} : Lengths[t] \subseteq 0 .. MaxLength
  /\ MaxMessages \in Nat /\ Lost \subseteq Nat

VARIABLES
  phase,    \* "loop", "receiving", "parsing", "stopped" or "panicked"
  packet,   \* the messages of the datagram
  size,     \* its bytes
  offset,   \* where the parser is
  events,   \* the messages it has delivered as events, in order
  errors    \* the messages it has reported as errors

parser_vars == <<running, phase, packet, size, offset, events, errors>>

\* The bytes before message n of a datagram, each named by its message and its place
\* there: the length takes two.
Before(msgs, n) == UNION {{i} \X (1 .. 2 + msgs[i].len) : i \in 1 .. n - 1}

\* The first byte of message n, and the first one after it.
Start(msgs, n) == Cardinality(Before(msgs, n))
End(msgs, n)   == Start(msgs, n) + 2 + msgs[n].len

-----------------------------------------------------------------------------
(* Mutated forms used by the mutation runs; no specification uses them. *)

\* A message that is not understood is tried again.
Mut_after(result, from, len) == IF result = "error" THEN from ELSE from + 2 + len

\* A cancel only needs its time and its reference.
Mut_expected(type) ==
  CASE type = "A" -> 32 [] type = "F" -> 36 [] type = "E" -> 26 [] type = "C" -> 31
    [] type = "X" -> 14 [] type = "D" -> 18 [] type = "U" -> 34 [] type = "R" -> 39
    [] type = "S" -> 11

\* Any length the datagram has room for will do.
Mut_cut_short(from, len) == from + 2 + len > size

-----------------------------------------------------------------------------
(* parse_message: lengths are those of the message without its type. *)

\* What a message must have, and the bytes its parser then reads: less, for most.
expected(type) ==
  CASE type = "A" -> 32 [] type = "F" -> 36 [] type = "E" -> 26 [] type = "C" -> 31
    [] type = "X" -> 22 [] type = "D" -> 18 [] type = "U" -> 34 [] type = "R" -> 39
    [] type = "S" -> 11

time == 2 + 4
bytes_read(type) ==
  CASE type = "A" -> time + 8 + 1 + 4 + 8 + 4
    [] type = "F" -> time + 8 + 1 + 4 + 8 + 4 + 4
    [] type = "E" -> time + 8 + 4 + 8
    [] type = "C" -> time + 8 + 4 + 8 + 1 + 4
    [] type = "X" -> time + 8 + 4
    [] type = "D" -> time + 8
    [] type = "U" -> time + 8 + 8 + 4 + 4
    [] type = "R" -> time + 8 + 1 + 1 + 4 + 1 + 1
    [] type = "S" -> time + 1

\* Reading beyond the end of the message is an unwrap of an error.
parse_message(m) ==
  CASE m.type \notin Types               -> "error"
    [] m.type \in Types /\ m.len - 1 < expected(m.type) -> "error"
    [] OTHER -> CASE m.len - 1 < bytes_read(m.type) -> "panic"
                  [] ~m.side_ok                     -> "error"
                  [] OTHER                          -> "event"

\* Where the parser goes on after a message.
after(result, from, len) == from + 2 + len

\* The lengths with which the parser gives up the rest of the datagram: no room
\* for a type and anything else, or more than the datagram has.
cut_short(from, len) == len < 2 \/ from + 2 + len > size

-----------------------------------------------------------------------------
ParserInit ==
  /\ Started /\ phase = "loop"
  /\ packet = <<>> /\ size = 0 /\ offset = 0 /\ events = <<>> /\ errors = {}

Loop ==
  /\ phase = "loop"
  /\ phase' = IF running THEN "receiving" ELSE "stopped"
  /\ UNCHANGED <<running, packet, size, offset, events, errors>>

\* The thread waits in recv, whatever the flag says, until a datagram arrives or
\* the socket fails.
Receive ==
  /\ phase = "receiving"
  /\ \E msgs \in BoundedSeq(Messages, MaxMessages), lost \in Lost :
        /\ packet' = msgs
        /\ size' = Max({0, Start(msgs, Len(msgs) + 1) - lost})
  /\ phase' = "parsing" /\ offset' = 0 /\ events' = <<>> /\ errors' = {}
  /\ UNCHANGED running

ReceiveError ==
  /\ phase = "receiving" /\ phase' = "loop"
  /\ UNCHANGED <<running, packet, size, offset, events, errors>>

\* The message at the parser's place.  There is none where a parser that has lost
\* the boundaries may look.
Here == {n \in DOMAIN packet : Start(packet, n) = offset}

\* The end of the datagram, or what the parser takes for it.
EndOfPacket ==
  /\ phase = "parsing"
  /\ \/ offset + 2 > size
        /\ UNCHANGED offset
     \/ /\ offset + 2 =< size
        /\ \E n \in Here : cut_short(offset, packet[n].len)
        /\ offset' = size
  /\ phase' = "loop"
  /\ UNCHANGED <<running, packet, size, events, errors>>

\* One message; an error is logged and an event is pushed to the pipeline, whose
\* queue may be full (Gateway).
Parse ==
  /\ phase = "parsing" /\ offset + 2 =< size
  /\ \E n \in Here :
       LET result == parse_message(packet[n])
       IN  /\ ~cut_short(offset, packet[n].len)
           /\ offset' = after(result, offset, packet[n].len)
           /\ phase' = IF result = "panic" THEN "panicked" ELSE phase
           /\ events' = IF result = "event" THEN Append(events, n) ELSE events
           /\ errors' = IF result = "error" THEN errors \cup {n} ELSE errors
  /\ UNCHANGED <<running, packet, size>>

CtrlC ==
  /\ Interrupt
  /\ UNCHANGED <<phase, packet, size, offset, events, errors>>

Consumer == Loop \/ EndOfPacket \/ Parse

ParserNext == Consumer \/ Receive \/ ReceiveError \/ CtrlC

-----------------------------------------------------------------------------
\* Message n can be told apart: it and all before it have a length that fits.
Framed(n) == \A i \in 1 .. n : packet[i].len >= 2 /\ End(packet, i) =< size

\* Of a datagram that has been gone through, exactly the messages before the first
\* one with a bad length have been delivered, once and in order, or reported: one
\* that is not understood costs nothing but itself.
DeliveredExactly ==
  phase = "loop" =>
    /\ \A n \in DOMAIN packet :
         /\ n \in ToSet(events) <=> Framed(n) /\ parse_message(packet[n]) = "event"
         /\ n \in errors <=> Framed(n) /\ parse_message(packet[n]) = "error"
    /\ \A i, j \in DOMAIN events : i < j => events[i] < events[j]

ParserSpec == ParserInit /\ [][ParserNext]_parser_vars

\* The parser never reads beyond a message, which would panic, and never takes the
\* inside of one for a length.
AtBoundary ==
  /\ phase # "panicked"
  /\ phase = "parsing" /\ offset + 2 =< size => Here # {}

\* Whatever a datagram holds, the thread gets through it: it neither stops at a
\* message nor reads beyond one, which would panic.
PacketDone == phase = "parsing" ~> phase = "loop"
=============================================================================
