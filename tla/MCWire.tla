------------------------------- MODULE MCWire -------------------------------
(***************************************************************************)
(* Instances for TLC of the two ends of the gateway: ItchParser, where the *)
(* bytes of the feed come in, and Framing, where those of the subscribers  *)
(* go out.  The two share no state, so that a run in which one of them     *)
(* rests finds whatever an interleaving would.                             *)
(***************************************************************************)
EXTENDS ItchParser, Framing

\* For each type just enough; for some a byte too few, none at all, a length of one
\* and one between what is read and what is required.
MCLengths ==
  [t \in Types \cup {"unknown"} |->
     CASE t = "unknown" -> {0, 20}
       [] t = "X" -> {1, 16, expected(t) + 1}
       [] t \in AddTypes -> {expected(t), expected(t) + 1}
       [] OTHER -> {expected(t) + 1}]

ParserAlone(action)  == FramingInit /\ action /\ UNCHANGED framing_vars
FramingAlone(action) == ParserInit /\ action /\ UNCHANGED parser_vars

wire_vars == <<parser_vars, framing_vars>>

WireInit == ParserInit /\ FramingInit

WireSpec ==
  /\ WireInit
  /\ [][ParserAlone(ParserNext) \/ FramingAlone(FramingNext)]_wire_vars
  /\ WF_wire_vars(ParserAlone(Consumer))
  /\ WF_wire_vars(FramingAlone(ArriveAll)) /\ WF_wire_vars(FramingAlone(Subscriber))
=============================================================================
