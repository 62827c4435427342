---------------------------- MODULE WriterThread ----------------------------
(***************************************************************************)
(* The control of the writer thread and of the statistics monitor          *)
(* (main.rs).  The writer takes a batch of feed events, then a batch of    *)
(* option events, then adds what it has counted to three atomic counters;  *)
(* the monitor takes the counters and sets them to zero, one at a time.    *)
(*                                                                         *)
(* What the events do to books and chains is in OrderBook, OptionChain and *)
(* Gateway: here a feed event makes a BBO update or not, and a snapshot    *)
(* with it or not; an option event makes a snapshot or not.  Of a queue    *)
(* its length is kept, and the place of one event that is watched on its   *)
(* way to the writer.                                                      *)
(***************************************************************************)
EXTENDS Integers, RunningFlag

CONSTANTS
  QueueCap,    \* the capacity of the two queues
  BATCH_SIZE,
  WordSize     \* the range of the counters, 2^64 in the code

ASSUME WriterAssumption ==
  QueueCap \in Nat \ {0} /\ BATCH_SIZE \in Nat \ {0} /\ WordSize \in Nat \ {0}

Queue   == {"events", "options"}
Counter == {"events", "bbos", "snapshots"}

VARIABLES
  queue,      \* queue -> the number of events in it
  watched,    \* {} or {[queue, place]}: one event and its place in its queue
  writer,     \* "loop", "events", "options", "adding" or "stopped"
  left,       \* the iterations left of the batch
  count,      \* the counts of the present turn
  adding,     \* the counter that is added to next
  total,      \* the atomic counters
  monitor,    \* "loop", "stopped", or the counter that is taken next
  due         \* history: what the writer has done and no report has shown

turn    == <<writer, left, count, adding>>
feeding == <<queue, watched>>
vars    == <<running, feeding, turn, total, monitor, due>>

None == [c \in Counter |-> 0]

\* The order in which both threads go through the counters.
following == [loop |-> "events", events |-> "bbos", bbos |-> "snapshots", snapshots |-> "loop"]

plus(f, c, n) == [f EXCEPT ![c] = (@ + n) % WordSize]

-----------------------------------------------------------------------------
(* Mutated forms used by the mutation runs; no specification uses them. *)

\* A counter that is taken is not set to zero.
Mut_taken(c) == total[c]

\* The monitor goes round its counters without looking at the flag.
Mut_after_swap(c) == IF c = "snapshots" THEN "events" ELSE following[c]

-----------------------------------------------------------------------------
Init ==
  /\ Started
  /\ queue = [q \in Queue |-> 0] /\ watched = {}
  /\ writer = "loop" /\ left = 0 /\ count = None /\ adding = "events"
  /\ total = None /\ due = None
  /\ monitor = "loop"

\* A producer; what meets a full queue is lost.
Push(q) ==
  /\ queue[q] < QueueCap
  /\ queue' = [queue EXCEPT ![q] = @ + 1]
  /\ \/ UNCHANGED watched
     \/ watched = {} /\ watched' = {[queue |-> q, place |-> queue[q] + 1]}
  /\ UNCHANGED <<running, turn, total, monitor, due>>

Stop ==
  /\ Interrupt
  /\ UNCHANGED <<feeding, turn, total, monitor, due>>

-----------------------------------------------------------------------------
(* run_orderbook_writer. *)

WriterLoop ==
  /\ writer = "loop"
  /\ \/ /\ ~running
        /\ writer' = "stopped" /\ UNCHANGED <<left, count>>
     \/ /\ running
        /\ writer' = "events" /\ left' = BATCH_SIZE /\ count' = None
  /\ UNCHANGED <<running, feeding, adding, total, monitor, due>>

\* Whether the loop over queue q goes on.
more(q) == left > 0 /\ queue[q] > 0

\* One event, with what it adds to the counters.
Pop(q, n) ==
  /\ writer = q /\ more(q)
  /\ queue' = [queue EXCEPT ![q] = @ - 1]
  /\ watched' = { [w EXCEPT !.place = IF w.queue = q THEN @ - 1 ELSE @] :
                    w \in {v \in watched : v.queue # q \/ v.place > 1} }
  /\ left' = left - 1
  /\ count' = [c \in Counter |-> count[c] + n[c]]
  /\ due' = [c \in Counter |-> (due[c] + n[c]) % WordSize]
  /\ UNCHANGED <<running, writer, adding, total, monitor>>

\* A feed event without a BBO update makes no snapshot.
Adds == [events : {1}, bbos : 0 .. 1, snapshots : 0 .. 1]
FeedEvent   == \E n \in Adds : n.snapshots =< n.bbos /\ Pop("events", n)
OptionEvent == \E n \in Adds : n.bbos = 0 /\ Pop("options", n)

\* Mutated form: as long as there are feed events, they come first.
Mut_EndOfEvents ==
  /\ writer = "events" /\ ~more("events")
  /\ writer' = IF queue["events"] > 0 THEN "loop" ELSE "options"
  /\ left' = BATCH_SIZE
  /\ UNCHANGED <<running, feeding, count, adding, total, monitor, due>>

EndOfEvents ==
  /\ writer = "events" /\ ~more("events")
  /\ writer' = "options" /\ left' = BATCH_SIZE
  /\ UNCHANGED <<running, feeding, count, adding, total, monitor, due>>

\* The writer sleeps a little when it had nothing to do.
EndOfOptions ==
  /\ writer = "options" /\ ~more("options")
  /\ writer' = IF count["events"] > 0 THEN "adding" ELSE "loop"
  /\ adding' = "events"
  /\ UNCHANGED <<running, feeding, left, count, total, monitor, due>>

FetchAdd ==
  /\ writer = "adding"
  /\ total' = plus(total, adding, count[adding])
  /\ \/ /\ following[adding] # "loop"
        /\ adding' = following[adding] /\ UNCHANGED <<writer, count>>
     \/ /\ following[adding] = "loop"
        /\ writer' = "loop" /\ adding' = "events" /\ count' = None
  /\ UNCHANGED <<running, feeding, left, monitor, due>>

Writer == WriterLoop \/ FeedEvent \/ OptionEvent \/ EndOfEvents \/ EndOfOptions \/ FetchAdd

-----------------------------------------------------------------------------
(* The monitor. *)

\* What is left of a counter that is taken.
taken(c) == 0

\* The counter that is taken after c.
after_swap(c) == following[c]

MonitorLoop ==
  /\ monitor = "loop"
  /\ monitor' = IF running THEN following["loop"] ELSE "stopped"
  /\ UNCHANGED <<running, feeding, turn, total, due>>

Swap ==
  /\ monitor \in Counter
  /\ due' = plus(due, monitor, WordSize - total[monitor])
  /\ total' = [total EXCEPT ![monitor] = taken(monitor)]
  /\ monitor' = after_swap(monitor)
  /\ UNCHANGED <<running, feeding, turn>>

Monitor == MonitorLoop \/ Swap

Next == (\E q \in Queue : Push(q)) \/ Stop \/ Writer \/ Monitor

Spec == Init /\ [][Next]_vars /\ WF_vars(Writer) /\ WF_vars(Monitor)

-----------------------------------------------------------------------------
Added(c) == (c = "events" /\ adding # "events") \/ (c = "bbos" /\ adding = "snapshots")

\* What the writer has counted in its turn and not yet added to counter c.
pending(c) == IF writer = "adding" /\ Added(c) THEN 0 ELSE count[c]

\* However the additions of the writer and the exchanges of the monitor fall
\* together, everything the writer does is reported once: what no report has shown
\* is in a counter or in the counts of the present turn.
CountedOnce ==
  \A c \in Counter : (total[c] + pending(c)) % WordSize = due[c]

\* An event in either queue reaches the books or chains, although the producers of
\* the other queue, or of its own, never pause: batches are bounded.
Served == watched # {} ~> watched = {} \/ ~running

\* After Ctrl-C both threads come to their end, whatever the producers do.
ThreadsStop == ~running ~> writer = "stopped" /\ monitor = "stopped"
=============================================================================
