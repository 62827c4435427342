------------------------------ MODULE Framing -------------------------------
(***************************************************************************)
(* The bytes of the TCP stream: how the broadcaster frames a batch of BBO  *)
(* updates and option snapshots (tcp_broadcast.rs, options/mod.rs,         *)
(* orderbook/mod.rs), and a subscriber that takes the stream apart again.  *)
(*                                                                         *)
(* A frame is a type, a length field of two bytes and fields of fixed      *)
(* width.  The contents of a field are left out; its width, and where it   *)
(* ends up in the stream, are kept.  The connection delivers the bytes in  *)
(* pieces that need not end with a frame.  Cut and failed writes are in    *)
(* TcpBroadcast.                                                           *)
(*                                                                         *)
(* The two length fields differ: that of a BBO frame counts what follows   *)
(* it, that of an option frame counts the type and itself too.  CountsAll  *)
(* is the subscriber's belief about this.                                  *)
(***************************************************************************)
EXTENDS Integers, Sequences, SequencesExt

CONSTANTS
  ContractCounts,  \* the numbers of contracts of a snapshot, 1 .. 128 in the code
  MaxFrames,       \* bound on the frames sent
  CountsAll        \* the kinds whose length, to the subscriber, counts the whole frame

Kind == {"BBO", "Options"}

ASSUME FramingAssumption ==
  ContractCounts \subseteq 1 .. 128 /\ MaxFrames \in Nat /\ CountsAll \subseteq Kind

VARIABLES
  sent,     \* the frames written, each with the position of its first byte
  written,  \* the number of bytes written
  arrived,  \* the number of them that the subscriber's socket has
  at,       \* the number of them that the subscriber has read
  body,     \* the rest of a frame that it waits for: {} or {frame with its rest}
  got       \* the frames it has read

framing_vars == <<sent, written, arrived, at, body, got>>

TypeAndLength == 3                    \* one byte and a u16
BBO_SERIALIZED_SIZE == 216
OPTION_HEADER_SERIALIZED_SIZE == 1 + 2 + 6 * 8 + 2
OPTION_CONTRACT_SERIALIZED_SIZE == 121

-----------------------------------------------------------------------------
(* Mutated forms used by the mutation runs; no specification uses them. *)

\* The length of an option frame counts its payload, as that of a BBO frame does.
Mut_serialized_size(contracts) ==
  OPTION_HEADER_SERIALIZED_SIZE - TypeAndLength + contracts * OPTION_CONTRACT_SERIALIZED_SIZE

\* A contract takes the bytes of its fields, and nothing for the rest of its buffer.
Mut_option_bytes(contracts) ==
  TypeAndLength + 6 * 8 + 2 + contracts * (4 + 8 + 1 + 4 * 8 + 7 * 8)

-----------------------------------------------------------------------------
\* What the length field of an option frame says, before it is cut to a u16.
serialized_size(contracts) ==
  OPTION_HEADER_SERIALIZED_SIZE + contracts * OPTION_CONTRACT_SERIALIZED_SIZE

\* What AggregatedOptionSnapshot::serialize appends: type and length, six fields
\* of the stock, the number of contracts, a buffer for each contract.
option_bytes(contracts) ==
  TypeAndLength + 6 * 8 + 2 + contracts * OPTION_CONTRACT_SERIALIZED_SIZE

LengthField(f) ==
  (IF f.kind = "BBO" THEN BBO_SERIALIZED_SIZE ELSE serialized_size(f.contracts)) % 2^16

Bytes(f) ==
  IF f.kind = "BBO" THEN TypeAndLength + BBO_SERIALIZED_SIZE ELSE option_bytes(f.contracts)

FramingInit ==
  /\ sent = <<>> /\ written = 0
  /\ arrived = 0 /\ at = 0 /\ body = {} /\ got = <<>>

\* The BBO frames of a batch come before its option frames (broadcast_loop); a
\* frame more or less in a batch makes no difference to the stream.
Write(f) ==
  /\ Len(sent) < MaxFrames
  /\ sent' = Append(sent, [kind |-> f.kind, contracts |-> f.contracts, start |-> written])
  /\ written' = written + Bytes(f)
  /\ UNCHANGED <<arrived, at, body, got>>

\* The places where a piece may end: around the boundaries of the frames.
Cuts == { f.start + d : f \in ToSet(sent), d \in 0 .. 4 } \cup {written - 1, written}

Arrive ==
  /\ \E n \in Cuts : arrived < n /\ n =< written /\ arrived' = n
  /\ UNCHANGED <<sent, written, at, body, got>>

\* The subscriber reads type and length, and then what it takes for the rest of
\* the frame, as the test client of tcp_broadcast.rs does.
HeaderHere == body = {} /\ at + TypeAndLength =< arrived

RestOf(f) ==
  IF f.kind \in CountsAll THEN LengthField(f) - TypeAndLength ELSE LengthField(f)

\* Away from the start of a frame a type and a length are bytes of something else,
\* and the subscriber never gets on.
ReadHeader ==
  /\ HeaderHere
  /\ \E f \in ToSet(sent) : f.start = at /\ body' = {[frame |-> f, rest |-> RestOf(f)]}
  /\ at' = at + TypeAndLength
  /\ UNCHANGED <<sent, written, arrived, got>>

\* It takes the number of contracts from the length.
Read(f, rest) ==
  [kind |-> f.kind,
   contracts |-> IF f.kind = "BBO" THEN 0
                 ELSE (rest + TypeAndLength - OPTION_HEADER_SERIALIZED_SIZE)
                        \div OPTION_CONTRACT_SERIALIZED_SIZE]

ReadBody ==
  /\ \E b \in body : /\ at + b.rest =< arrived
                     /\ at' = at + b.rest
                     /\ got' = Append(got, Read(b.frame, b.rest))
  /\ body' = {}
  /\ UNCHANGED <<sent, written, arrived>>

Frames == {[kind |-> "BBO", contracts |-> 0]}
            \cup [kind : {"Options"}, contracts : ContractCounts]

FramingNext == (\E f \in Frames : Write(f)) \/ Arrive \/ ReadHeader \/ ReadBody

\* The pieces come until all bytes are there, and the subscriber reads on.
ArriveAll == Arrive /\ arrived' = written
Subscriber == ReadHeader \/ ReadBody

FramingSpec == FramingInit /\ [][FramingNext]_framing_vars

-----------------------------------------------------------------------------
\* What the subscriber has read is what was sent, in order and with the contracts
\* it had, and it never takes the inside of a frame for a header.
InStep ==
  /\ \A i \in DOMAIN got : got[i] = [kind |-> sent[i].kind, contracts |-> sent[i].contracts]
  /\ HeaderHere => \E f \in ToSet(sent) : f.start = at

\* Every frame that was written is read in the end: the subscriber does not wait
\* for bytes that belong to the next frame.
AllRead == \A n \in 1 .. MaxFrames : Len(sent) >= n ~> Len(got) >= n
=============================================================================
