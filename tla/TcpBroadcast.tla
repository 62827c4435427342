---------------------------- MODULE TcpBroadcast ----------------------------
(***************************************************************************)
(* The TCP broadcast server (network/tcp_broadcast.rs).  The order book    *)
(* writer puts BBO updates and option snapshots into two bounded queues;   *)
(* the broadcaster thread takes batches from them and writes each batch to *)
(* every client, holding the lock of the client list; the acceptor thread  *)
(* adds clients to the list under the same lock; shutdown may be called by *)
(* the main thread and again by Drop.  A step is one atomic operation on a *)
(* queue, on the running flag, on a socket, or one locked section.         *)
(*                                                                         *)
(* A frame is its kind and its place in the order of production.  Sockets  *)
(* fail in the ways write_all reports; on Unix the write timeout of 100 ms *)
(* appears as WouldBlock, after any part of the batch has been sent.       *)
(***************************************************************************)
EXTENDS Integers, SequencesExt

CONSTANTS
  Conns,        \* the connections that clients may make
  MaxClients,   \* MAX_CLIENTS
  RemoveCap,    \* the capacity of to_remove, 64 in the code
  QueueCap,     \* kind -> BROADCAST_QUEUE_CAP, OPTION_QUEUE_CAP
  BatchCap,     \* kind -> BATCH_SIZE, MAX_OPTION_BATCH
  MaxFrames     \* kind -> bound on the frames the writer produces

Kind == {"bbo", "opt"}

ASSUME BroadcastAssumption ==
  /\ MaxClients \in Nat \ {0} /\ RemoveCap \in Nat \ {0}
  /\ QueueCap \in [Kind -> Nat \ {0}]
  /\ BatchCap \in [Kind -> Nat \ {0}]
  /\ MaxFrames \in [Kind -> Nat]

Frame == {f \in [kind : Kind, n : Nat \ {0}, whole : BOOLEAN] : f.n =< MaxFrames[f.kind]}

VARIABLES
  running,      \* the running flag
  shutdown,     \* the caller of shutdown: "idle" or "draining"
  queue,        \* kind -> broadcast_queue, option_queue
  dropped,      \* kind -> dropped_count, option_dropped_count
  clients,      \* the list of connected clients
  lock,         \* the holder of its lock: "none" or "broadcaster"
  acceptor,     \* the acceptor's place
  bc,           \* the broadcaster's place and local variables
  sock,         \* connection -> its state, and the frames sent to it
  produced,     \* history: kind -> the frames produced so far
  reported,     \* history: kind -> the drops reported so far
  log           \* history: the frames broadcast so far

vars == <<running, shutdown, queue, dropped, clients, lock, acceptor, bc, sock,
          produced, reported, log>>

producer == <<queue, dropped, produced>>
history  == <<produced, reported, log>>

-----------------------------------------------------------------------------
Init ==
  /\ running = TRUE
  /\ shutdown = "idle"
  /\ queue = [k \in Kind |-> <<>>]
  /\ dropped = [k \in Kind |-> 0]
  /\ clients = <<>>
  /\ lock = "none"
  /\ acceptor = "top"
  /\ bc = [at |-> "top", batch |-> [k \in Kind |-> <<>>], idx |-> 1, to_remove |-> <<>>]
  /\ sock = [c \in Conns |-> [state |-> "absent", sent |-> <<>>, joined |-> 0, missed |-> FALSE]]
  /\ produced = [k \in Kind |-> 0]
  /\ reported = [k \in Kind |-> 0]
  /\ log = <<>>

\* The bytes of a batch: all BBO frames, then all option frames.
Data == bc.batch["bbo"] \o bc.batch["opt"]

\* ArrayVec::swap_remove: the last element takes the place of the removed one.
swap_remove(list, i) ==
  IF i = Len(list) THEN Front(list) ELSE [Front(list) EXCEPT ![i] = Last(list)]

-----------------------------------------------------------------------------
\* Mutated forms used by the mutation runs; no specification uses them.

\* The failed clients are removed from the first to the last.
Mut_RemoveFailed ==
  /\ bc.at = "write" /\ bc.idx > Len(clients) /\ bc.to_remove # <<>>
  /\ LET i == Head(bc.to_remove)
     IN  IF i > Len(clients) THEN UNCHANGED <<clients, sock>>
         ELSE /\ clients' = swap_remove(clients, i)
              /\ sock' = [sock EXCEPT ![clients[i]].state = "closed"]
  /\ bc' = [bc EXCEPT !.to_remove = Tail(@)]
  /\ UNCHANGED <<running, shutdown, queue, dropped, lock, acceptor, history>>

\* A full queue overwrites its newest element and counts nothing.
Mut_enqueue(k) ==
  /\ produced[k] < MaxFrames[k]
  /\ produced' = [produced EXCEPT ![k] = @ + 1]
  /\ queue' = [queue EXCEPT ![k] =
                 Append(IF Len(@) < QueueCap[k] THEN @ ELSE Front(@),
                        [kind |-> k, n |-> produced[k] + 1, whole |-> TRUE])]
  /\ UNCHANGED <<running, shutdown, dropped, clients, lock, acceptor, bc, sock,
                 reported, log>>

\* The acceptor adds a client without taking the lock.
Mut_Admit ==
  /\ acceptor = "lock" /\ Len(clients) < MaxClients
  /\ acceptor' = "top"
  /\ \E c \in Conns :
       /\ sock[c].state = "accepted"
       /\ clients' = Append(clients, c)
       /\ sock' = [sock EXCEPT ![c].state = "open", ![c].joined = Len(log)]
  /\ UNCHANGED <<running, shutdown, queue, dropped, lock, bc, history>>

\* One client more than the list has room for.
Mut_Admit_full ==
  /\ acceptor = "lock" /\ lock = "none"
  /\ acceptor' = "top"
  /\ \E c \in Conns :
       /\ sock[c].state = "accepted"
       /\ clients' = Append(clients, c)
       /\ sock' = [sock EXCEPT ![c].state = "open", ![c].joined = Len(log)]
  /\ UNCHANGED <<running, shutdown, queue, dropped, lock, bc, history>>

\* The broadcaster keeps the lock of the list.
Mut_EndBroadcast ==
  /\ bc.at = "write" /\ bc.idx > Len(clients) /\ bc.to_remove = <<>>
  /\ bc' = [bc EXCEPT !.at = "report", !.batch = [k \in Kind |-> <<>>]]
  /\ UNCHANGED <<running, shutdown, queue, dropped, clients, lock, acceptor, sock, history>>

\* shutdown closes the connections, and leaves them in the list.
Mut_Drain ==
  /\ shutdown = "draining" /\ lock = "none"
  /\ shutdown' = "idle"
  /\ sock' = [c \in Conns |-> IF \E i \in 1 .. Len(clients) : clients[i] = c
                              THEN [sock[c] EXCEPT !.state = "closed"] ELSE sock[c]]
  /\ UNCHANGED <<running, queue, dropped, clients, lock, acceptor, bc, history>>

\* The acceptor does not look at the running flag.
Mut_AcceptLoop ==
  /\ acceptor = "top"
  /\ acceptor' = "accept"
  /\ UNCHANGED <<running, shutdown, queue, dropped, clients, lock, bc, sock, history>>

\* A frame is put at the front of the batch.
Mut_Fill(k, here, next) ==
  /\ bc.at = here
  /\ \/ /\ Len(bc.batch[k]) < BatchCap[k] /\ queue[k] # <<>>
        /\ bc' = [bc EXCEPT !.batch[k] = <<Head(queue[k])>> \o @]
        /\ queue' = [queue EXCEPT ![k] = Tail(@)]
     \/ /\ Len(bc.batch[k]) = BatchCap[k] \/ queue[k] = <<>>
        /\ bc' = [bc EXCEPT !.at = next]
        /\ UNCHANGED queue
  /\ UNCHANGED <<running, shutdown, dropped, clients, lock, acceptor, sock, history>>

-----------------------------------------------------------------------------
(* The writer: enqueue_bbo and enqueue_option_snapshot. *)

enqueue(k) ==
  /\ produced[k] < MaxFrames[k]
  /\ produced' = [produced EXCEPT ![k] = @ + 1]
  /\ \/ /\ Len(queue[k]) < QueueCap[k]
        /\ queue' = [queue EXCEPT ![k] =
                       Append(@, [kind |-> k, n |-> produced[k] + 1, whole |-> TRUE])]
        /\ UNCHANGED dropped
     \/ /\ Len(queue[k]) = QueueCap[k]
        /\ dropped' = [dropped EXCEPT ![k] = @ + 1]
        /\ UNCHANGED queue
  /\ UNCHANGED <<running, shutdown, clients, lock, acceptor, bc, sock, reported, log>>

-----------------------------------------------------------------------------
(* The acceptor. *)

\* A client connects: the kernel completes the handshake.
Connect(c) ==
  /\ sock[c].state = "absent"
  /\ sock' = [sock EXCEPT ![c].state = "backlog"]
  /\ UNCHANGED <<running, shutdown, queue, dropped, clients, lock, acceptor, bc, history>>

AcceptLoop ==
  /\ acceptor = "top"
  /\ acceptor' = IF running THEN "accept" ELSE "done"
  /\ UNCHANGED <<running, shutdown, queue, dropped, clients, lock, bc, sock, history>>

\* accept on the non-blocking listener: a connection, or nothing and a sleep.
Accept ==
  /\ acceptor = "accept"
  /\ \/ \E c \in Conns :
          /\ sock[c].state = "backlog"
          /\ acceptor' = "lock"
          /\ sock' = [sock EXCEPT ![c].state = "accepted"]
     \/ /\ acceptor' = "top"
        /\ UNCHANGED sock
  /\ UNCHANGED <<running, shutdown, queue, dropped, clients, lock, bc, history>>

\* The locked section: the flag is not looked at again.
Admit ==
  /\ acceptor = "lock" /\ lock = "none"
  /\ acceptor' = "top"
  /\ \E c \in Conns :
       /\ sock[c].state = "accepted"
       /\ \/ /\ Len(clients) < MaxClients
             /\ clients' = Append(clients, c)
             /\ sock' = [sock EXCEPT ![c].state = "open", ![c].joined = Len(log)]
          \/ /\ Len(clients) = MaxClients
             /\ sock' = [sock EXCEPT ![c].state = "closed"]
             /\ UNCHANGED clients
  /\ UNCHANGED <<running, shutdown, queue, dropped, lock, bc, history>>

-----------------------------------------------------------------------------
(* The broadcaster. *)

BroadcastLoop ==
  /\ bc.at = "top"
  /\ bc' = [bc EXCEPT !.at = IF running THEN "bbo" ELSE "done"]
  /\ UNCHANGED <<running, shutdown, queue, dropped, clients, lock, acceptor, sock, history>>

\* One turn of the loop that fills a batch, or its end.
Fill(k, here, next) ==
  /\ bc.at = here
  /\ \/ /\ Len(bc.batch[k]) < BatchCap[k] /\ queue[k] # <<>>
        /\ bc' = [bc EXCEPT !.batch[k] = Append(@, Head(queue[k]))]
        /\ queue' = [queue EXCEPT ![k] = Tail(@)]
     \/ /\ Len(bc.batch[k]) = BatchCap[k] \/ queue[k] = <<>>
        /\ bc' = [bc EXCEPT !.at = next]
        /\ UNCHANGED queue
  /\ UNCHANGED <<running, shutdown, dropped, clients, lock, acceptor, sock, history>>

\* Nothing to send: sleep.  Otherwise the batch is serialised and
\* broadcast_bytes takes the lock.
StartBroadcast ==
  /\ bc.at = "send"
  /\ \/ /\ Data = <<>>
        /\ bc' = [bc EXCEPT !.at = "top"]
        /\ UNCHANGED <<lock, log>>
     \/ /\ Data # <<>> /\ lock = "none"
        /\ lock' = "broadcaster"
        /\ log' = log \o Data
        /\ bc' = [bc EXCEPT !.at = "write", !.idx = 1, !.to_remove = <<>>]
  /\ UNCHANGED <<running, shutdown, queue, dropped, clients, acceptor, sock,
                 produced, reported>>

\* What a client has been sent when write_all gives up: some of the frames of the
\* batch, and perhaps a part of the next one.
Partial ==
  {SubSeq(Data, 1, j) : j \in 0 .. Len(Data) - 1} \cup
  {Append(SubSeq(Data, 1, j), [Data[j + 1] EXCEPT !.whole = FALSE]) : j \in 0 .. Len(Data) - 1}

\* write_all to the next client.  On WouldBlock the client stays in the list.
\* On another error its index is pushed to to_remove; a push beyond the capacity
\* panics, and the unwinding releases the lock.
Write ==
  /\ bc.at = "write" /\ bc.idx =< Len(clients)
  /\ LET c == clients[bc.idx]
     IN  \/ /\ sock' = [sock EXCEPT ![c].sent = @ \o Data]
            /\ bc' = [bc EXCEPT !.idx = @ + 1]
            /\ UNCHANGED lock
         \/ /\ \E part \in Partial :
                 sock' = [sock EXCEPT ![c].sent = @ \o part, ![c].missed = TRUE]
            /\ bc' = [bc EXCEPT !.idx = @ + 1]
            /\ UNCHANGED lock
         \/ /\ Len(bc.to_remove) < RemoveCap
            /\ \E part \in Partial :
                 sock' = [sock EXCEPT ![c].sent = @ \o part, ![c].state = "failed"]
            /\ bc' = [bc EXCEPT !.idx = @ + 1, !.to_remove = Append(@, bc.idx)]
            /\ UNCHANGED lock
         \/ /\ Len(bc.to_remove) = RemoveCap
            /\ \E part \in Partial :
                 sock' = [sock EXCEPT ![c].sent = @ \o part, ![c].state = "failed"]
            /\ bc' = [bc EXCEPT !.at = "panicked"]
            /\ lock' = "none"
  /\ UNCHANGED <<running, shutdown, queue, dropped, clients, acceptor, history>>

\* After the writes the failed clients leave the list, the last index first.
RemoveFailed ==
  /\ bc.at = "write" /\ bc.idx > Len(clients) /\ bc.to_remove # <<>>
  /\ LET i == Last(bc.to_remove)
     IN  /\ clients' = swap_remove(clients, i)
         /\ sock' = [sock EXCEPT ![clients[i]].state = "closed"]
  /\ bc' = [bc EXCEPT !.to_remove = Front(@)]
  /\ UNCHANGED <<running, shutdown, queue, dropped, lock, acceptor, history>>

\* The end of the locked section.  The batches are cleared.
EndBroadcast ==
  /\ bc.at = "write" /\ bc.idx > Len(clients) /\ bc.to_remove = <<>>
  /\ lock' = "none"
  /\ bc' = [bc EXCEPT !.at = "report", !.batch = [k \in Kind |-> <<>>]]
  /\ UNCHANGED <<running, shutdown, queue, dropped, clients, acceptor, sock, history>>

\* The drop counters are swapped with zero.
Report ==
  /\ bc.at = "report"
  /\ bc' = [bc EXCEPT !.at = "top"]
  /\ dropped' = [k \in Kind |-> 0]
  /\ reported' = [k \in Kind |-> reported[k] + dropped[k]]
  /\ UNCHANGED <<running, shutdown, queue, clients, lock, acceptor, sock, produced, log>>

-----------------------------------------------------------------------------
(* shutdown: the flag, then the list. *)

Shutdown ==
  /\ shutdown = "idle"
  /\ running' = FALSE
  /\ shutdown' = "draining"
  /\ UNCHANGED <<queue, dropped, clients, lock, acceptor, bc, sock, history>>

Drain ==
  /\ shutdown = "draining" /\ lock = "none"
  /\ shutdown' = "idle"
  /\ clients' = <<>>
  /\ sock' = [c \in Conns |-> IF c \in Range(clients)
                              THEN [sock[c] EXCEPT !.state = "closed"] ELSE sock[c]]
  /\ UNCHANGED <<running, queue, dropped, lock, acceptor, bc, history>>

-----------------------------------------------------------------------------
Acceptor == AcceptLoop \/ Accept \/ Admit

Broadcaster ==
  \/ BroadcastLoop
  \/ Fill("bbo", "bbo", "opt")
  \/ Fill("opt", "opt", "send")
  \/ StartBroadcast
  \/ Write
  \/ RemoveFailed
  \/ EndBroadcast
  \/ Report

Next ==
  \/ \E k \in Kind : enqueue(k)
  \/ \E c \in Conns : Connect(c)
  \/ Acceptor
  \/ Broadcaster
  \/ Shutdown
  \/ Drain

Spec == Init /\ [][Next]_vars

\* The threads are scheduled, and a call of shutdown runs to its end.  The lock
\* is handed over fairly (parking_lot), so a thread that waits for it gets it.
FairSpec == Spec /\ WF_vars(AcceptLoop \/ Accept) /\ SF_vars(Admit)
                 /\ WF_vars(Broadcaster) /\ SF_vars(StartBroadcast) /\ SF_vars(Drain)

-----------------------------------------------------------------------------
TypeOK ==
  /\ running \in BOOLEAN /\ shutdown \in {"idle", "draining"}
  /\ \A k \in Kind : /\ queue[k] \in Seq(Frame) /\ Len(queue[k]) =< QueueCap[k]
                     /\ bc.batch[k] \in Seq(Frame) /\ Len(bc.batch[k]) =< BatchCap[k]
                     /\ dropped[k] \in Nat /\ reported[k] \in Nat
                     /\ produced[k] \in 0 .. MaxFrames[k]
  /\ clients \in Seq(Conns) /\ Len(clients) =< MaxClients
  /\ lock \in {"none", "broadcaster"}
  /\ acceptor \in {"top", "accept", "lock", "done"}
  /\ bc.at \in {"top", "bbo", "opt", "send", "write", "report", "done", "panicked"}
  /\ bc.idx \in 1 .. MaxClients + 1
  /\ bc.to_remove \in Seq(1 .. MaxClients) /\ Len(bc.to_remove) =< RemoveCap
  /\ \A c \in Conns :
       /\ sock[c].state \in {"absent", "backlog", "accepted", "open", "failed", "closed"}
       /\ sock[c].sent \in Seq(Frame) /\ sock[c].joined \in Nat /\ sock[c].missed \in BOOLEAN
  /\ log \in Seq(Frame)

\* Between broadcasts the list has exactly the open connections, each once: the
\* swap_removes of broadcast_bytes take out the clients whose write failed and
\* no others, and no client is lost between the threads.
ListExact ==
  lock = "none" /\ bc.at # "panicked" =>
    /\ IsInjective(clients)
    /\ Range(clients) = {c \in Conns : sock[c].state = "open"}

\* A client on whose socket no write was cut short has been sent, between
\* broadcasts, exactly the frames broadcast since it joined: the lock keeps a
\* client from joining in the middle of one.
Gapless ==
  \A c \in Range(clients) :
     lock = "none" /\ bc.at # "panicked" /\ ~sock[c].missed =>
        sock[c].sent = SubSeq(log, sock[c].joined + 1, Len(log))

\* Frames of one kind reach every client in the order in which they were
\* produced, whatever was dropped or cut short.
InOrder ==
  \A c \in Conns : \A i, j \in 1 .. Len(sock[c].sent) :
     LET f == sock[c].sent[i]
         g == sock[c].sent[j]
     IN  i < j /\ f.kind = g.kind => f.n < g.n

\* No frame disappears silently: each one produced is queued, in the batch,
\* broadcast, or counted as dropped.
Accounted ==
  \A k \in Kind :
     produced[k] = Len(queue[k]) + dropped[k] + reported[k]
       + Cardinality({i \in DOMAIN log : log[i].kind = k})
       + (IF bc.at \in {"bbo", "opt", "send"} THEN Len(bc.batch[k]) ELSE 0)

\* After shutdown has drained the list and the acceptor has stopped, at most one
\* client, accepted before the flag was cleared, is left behind.
LateClient ==
  ~running /\ shutdown = "idle" /\ acceptor = "done" => Len(clients) =< 1

\* The log line of broadcast_bytes says that a client whose write would block is
\* skipped.  Then a client would never be sent anything after a part of a frame,
\* and could always tell where a frame begins.
FramesIntact ==
  \A c \in Range(clients) : \A i \in 1 .. Len(sock[c].sent) - 1 : sock[c].sent[i].whole

\* A queued frame is eventually broadcast, with two exceptions: the server is
\* shut down before, or more clients fail in one batch than to_remove has room
\* for, whose push then panics and ends the broadcaster.
Delivered ==
  \A k \in Kind : \A n \in 1 .. MaxFrames[k] :
     LET f == [kind |-> k, n |-> n, whole |-> TRUE]
     IN  f \in Range(queue[k]) ~>
           f \in Range(log) \/ ~running \/ bc.at = "panicked"

\* Both threads come to an end after shutdown: the acceptor when it sees the flag,
\* the broadcaster too unless a panic has ended it.
ShutdownStops ==
  ~running ~> acceptor = "done" /\ bc.at \in {"done", "panicked"}
=============================================================================
