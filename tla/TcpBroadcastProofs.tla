------------------------- MODULE TcpBroadcastProofs --------------------------
(***************************************************************************)
(* Proofs about the broadcast server (module TcpBroadcast), for every set  *)
(* of connections and all capacities of the queues, of the batches, of the *)
(* client list and of to_remove.                                           *)
(***************************************************************************)
EXTENDS TcpBroadcast, SequenceTheorems, FiniteSetTheorems, TLAPS

-----------------------------------------------------------------------------
(* Types. *)

Places == {"top", "bbo", "opt", "send", "write", "report", "done", "panicked"}

States == {"absent", "backlog", "accepted", "open", "failed", "closed"}

Socket == [state : States, sent : Seq(Frame), joined : Nat, missed : BOOLEAN]

Local == [at : Places, batch : [Kind -> Seq(Frame)], idx : Nat \ {0},
          to_remove : Seq(Nat \ {0})]

TypeInv ==
  /\ running \in BOOLEAN /\ shutdown \in {"idle", "draining"}
  /\ queue \in [Kind -> Seq(Frame)]
  /\ dropped \in [Kind -> Nat] /\ reported \in [Kind -> Nat] /\ produced \in [Kind -> Nat]
  /\ clients \in Seq(Conns)
  /\ lock \in {"none", "broadcaster"}
  /\ acceptor \in {"top", "accept", "lock", "done"}
  /\ bc \in Local
  /\ sock \in [Conns -> Socket]
  /\ log \in Seq(Frame)

\* What a new state of a socket leaves alone.
LEMMA SocketState ==
  ASSUME NEW f, f \in [Conns -> Socket], NEW c \in Conns, NEW s \in States,
         NEW g, g = [f EXCEPT ![c].state = s]
  PROVE  /\ g \in [Conns -> Socket]
         /\ \A d \in Conns : /\ g[d].state = IF d = c THEN s ELSE f[d].state
                             /\ g[d].sent = f[d].sent /\ g[d].joined = f[d].joined
                             /\ g[d].missed = f[d].missed
<1>1. \A d \in Conns : f[d] \in Socket
  OBVIOUS
<1>2. \A d \in Conns : /\ g[d] \in Socket
                       /\ g[d].state = IF d = c THEN s ELSE f[d].state
                       /\ g[d].sent = f[d].sent /\ g[d].joined = f[d].joined
                       /\ g[d].missed = f[d].missed
  BY <1>1 DEF Socket
<1>3. QED
  BY <1>2

\* A change of what a client has been sent.
LEMMA SocketSent ==
  ASSUME NEW f, f \in [Conns -> Socket], NEW c \in Conns, NEW s \in Seq(Frame),
         NEW g, g = [f EXCEPT ![c].sent = s]
  PROVE  /\ g \in [Conns -> Socket]
         /\ \A d \in Conns : /\ g[d].state = f[d].state /\ g[d].joined = f[d].joined
                             /\ g[d].sent = IF d = c THEN s ELSE f[d].sent
                             /\ g[d].missed = f[d].missed
<1>1. f[c] \in Socket
  BY DEF Socket
<1>2. /\ DOMAIN g = Conns /\ \A d \in Conns \ {c} : g[d] = f[d]
      /\ g[c] = [f[c] EXCEPT !.sent = s]
  OBVIOUS
<1>3. /\ g[c] \in Socket /\ g[c].state = f[c].state /\ g[c].joined = f[c].joined
      /\ g[c].sent = s /\ g[c].missed = f[c].missed
  BY <1>1, <1>2 DEF Socket
<1>4. g \in [Conns -> Socket]
  <2>1. g = [d \in Conns |-> g[d]] /\ \A d \in Conns : g[d] \in Socket
    BY <1>2, <1>3
  <2>2. QED
    BY <2>1
<1>5. QED
  BY <1>2, <1>3, <1>4

-----------------------------------------------------------------------------
(* Sequences. *)

LEMMA FrontProperties ==
  ASSUME NEW S, NEW s \in Seq(S), s # <<>>
  PROVE  /\ Front(s) \in Seq(S) /\ Len(Front(s)) = Len(s) - 1
         /\ \A i \in 1 .. Len(s) - 1 : Front(s)[i] = s[i]
         /\ Last(s) = s[Len(s)] /\ Len(s) \in Nat \ {0} /\ Last(s) \in S
<1>1. Len(s) \in Nat \ {0}
  BY EmptySeq
<1>2. \A i \in 1 .. Len(s) - 1 : s[i] \in S
  BY <1>1, ElementOfSeq
<1>3. /\ 1 \in Int /\ Len(s) - 1 \in Int
      /\ (IF 1 =< Len(s) - 1 THEN (Len(s) - 1) - 1 + 1 ELSE 0) = Len(s) - 1
      /\ (Len(s) - 1) - 1 + 1 = Len(s) - 1
      /\ \A i \in 1 .. Len(s) - 1 : 1 + i - 1 = i
  BY <1>1
<1>4. /\ Front(s) \in Seq(S) /\ Len(Front(s)) = Len(s) - 1
      /\ \A i \in 1 .. Len(s) - 1 : Front(s)[i] = s[i]
  BY <1>2, <1>3, SubSeqProperties DEF Front
<1>5. QED
  BY <1>1, <1>4, ElementOfSeq DEF Last

\* The list without the element at i; the last element has taken its place.
LEMMA SwapRemove ==
  ASSUME NEW S, NEW list \in Seq(S), NEW i \in 1 .. Len(list),
         NEW new, new = swap_remove(list, i)
  PROVE  /\ new \in Seq(S) /\ Len(new) = Len(list) - 1
         /\ \A j \in 1 .. Len(new) : new[j] = IF j = i THEN list[Len(list)] ELSE list[j]
<1>1. Len(list) \in Nat \ {0} /\ list # <<>>
  BY LenProperties, EmptySeq
<1>2. /\ Front(list) \in Seq(S) /\ Len(Front(list)) = Len(list) - 1
      /\ \A j \in 1 .. Len(list) - 1 : Front(list)[j] = list[j]
      /\ Last(list) = list[Len(list)] /\ Last(list) \in S
  BY <1>1, FrontProperties
<1>3. CASE i = Len(list)
  BY <1>1, <1>2, <1>3 DEF swap_remove
<1>4. CASE i # Len(list)
  <2>1. new = [Front(list) EXCEPT ![i] = Last(list)]
    BY <1>4 DEF swap_remove
  <2>2. i \in 1 .. Len(Front(list))
    BY <1>1, <1>2, <1>4
  <2>3. PICK front \in Seq(S), e \in S : front = Front(list) /\ e = Last(list)
    BY <1>2
  <2>4. /\ new \in Seq(S) /\ Len(new) = Len(front)
        /\ \A j \in 1 .. Len(front) : new[j] = IF j = i THEN e ELSE front[j]
    BY <2>1, <2>2, <2>3, ExceptSeq
  <2>5. QED
    BY <1>2, <2>3, <2>4
<1>5. QED
  BY <1>3, <1>4

LEMMA DataType ==
  ASSUME TypeInv
  PROVE  Data \in Seq(Frame)
<1>1. bc.batch["bbo"] \in Seq(Frame) /\ bc.batch["opt"] \in Seq(Frame)
  BY DEF TypeInv, Local, Kind
<1>2. QED
  BY <1>1, ConcatProperties DEF Data

\* A write that was cut short has sent a prefix of the batch, and perhaps a part
\* of the frame after it.
LEMMA PartialFacts ==
  ASSUME TypeInv, NEW part \in Partial
  PROVE  /\ part \in Seq(Frame) /\ Len(part) =< Len(Data)
         /\ \A i \in 1 .. Len(part) : part[i].kind = Data[i].kind /\ part[i].n = Data[i].n
<1>1. PICK data \in Seq(Frame) : data = Data
  BY DataType
<1>2. Len(data) \in Nat /\ \A i \in 1 .. Len(data) : data[i] \in Frame
  BY ElementOfSeq
<1>3. PICK j \in 0 .. Len(data) - 1 :
         \/ part = SubSeq(data, 1, j)
         \/ part = Append(SubSeq(data, 1, j), [data[j + 1] EXCEPT !.whole = FALSE])
  BY <1>1 DEF Partial
<1>4. PICK p : p = SubSeq(data, 1, j)
  OBVIOUS
<1>5. /\ p \in Seq(Frame) /\ Len(p) = j
      /\ \A i \in 1 .. j : p[i] = data[i]
  <2>1. 1 \in Int /\ j \in Int /\ \A i \in 1 .. j : data[i] \in Frame
    BY <1>2
  <2>2. /\ SubSeq(data, 1, j) \in Seq(Frame)
        /\ Len(SubSeq(data, 1, j)) = IF 1 =< j THEN j - 1 + 1 ELSE 0
        /\ \A i \in 1 .. j - 1 + 1 : SubSeq(data, 1, j)[i] = data[1 + i - 1]
    BY <2>1, SubSeqProperties
  <2>3. j - 1 + 1 = j /\ \A i \in 1 .. j : 1 + i - 1 = i
    BY <1>2
  <2>4. QED
    BY <1>2, <1>4, <2>2, <2>3
<1>6. CASE part = p
  BY <1>1, <1>2, <1>5, <1>6
<1>7. CASE part = Append(p, [data[j + 1] EXCEPT !.whole = FALSE])
  <2>1. PICK f : f = [data[j + 1] EXCEPT !.whole = FALSE]
    OBVIOUS
  <2>2. f \in Frame /\ f.kind = data[j + 1].kind /\ f.n = data[j + 1].n
    <3>1. data[j + 1] \in Frame
      BY <1>2
    <3>2. QED
      BY <2>1, <3>1 DEF Frame
  <2>3. /\ part \in Seq(Frame) /\ Len(part) = j + 1
        /\ \A i \in 1 .. j : part[i] = p[i]
        /\ part[j + 1] = f
    BY <1>5, <1>7, <2>1, <2>2, AppendProperties
  <2>4. QED
    BY <1>1, <1>2, <1>5, <2>2, <2>3
<1>8. QED
  BY <1>3, <1>4, <1>6, <1>7

-----------------------------------------------------------------------------
(* What the actions do, and that they keep the types. *)

LEMMA EnqueueFacts ==
  ASSUME TypeInv, NEW k \in Kind, enqueue(k)
  PROVE  /\ TypeInv'
         /\ produced[k] < MaxFrames[k] /\ produced' = [produced EXCEPT ![k] = @ + 1]
         /\ \A j \in Kind \ {k} : queue'[j] = queue[j]
         /\ \/ /\ Len(queue[k]) < QueueCap[k] /\ dropped' = dropped
               /\ \E f \in Frame : /\ f.kind = k /\ f.n = produced[k] + 1 /\ f.whole = TRUE
                                   /\ queue'[k] = Append(queue[k], f)
            \/ dropped' = [dropped EXCEPT ![k] = @ + 1] /\ queue' = queue
         /\ UNCHANGED <<running, shutdown, clients, lock, acceptor, bc, sock, reported, log>>
<1>1. produced' = [produced EXCEPT ![k] = @ + 1] /\ produced' \in [Kind -> Nat]
  BY DEF TypeInv, enqueue
<1>2. PICK f : f = [kind |-> k, n |-> produced[k] + 1, whole |-> TRUE]
  OBVIOUS
<1>3. f \in Frame /\ f.kind = k /\ f.n = produced[k] + 1 /\ f.whole = TRUE
  <2>1. produced[k] \in Nat /\ produced[k] < MaxFrames[k] /\ MaxFrames[k] \in Nat
    BY BroadcastAssumption DEF BroadcastAssumption, TypeInv, enqueue
  <2>2. QED
    BY <1>2, <2>1 DEF Frame
<1>4. CASE Len(queue[k]) < QueueCap[k] /\ queue' = [queue EXCEPT ![k] = Append(@, f)] /\ dropped' = dropped
  <2>1. queue[k] \in Seq(Frame) /\ Append(queue[k], f) \in Seq(Frame)
    BY <1>3, AppendProperties DEF TypeInv
  <2>2. queue' \in [Kind -> Seq(Frame)]
    BY <1>4, <2>1 DEF TypeInv
  <2>3. /\ queue'[k] = Append(queue[k], f)
        /\ \A j \in Kind \ {k} : queue'[j] = queue[j]
    BY <1>4 DEF TypeInv
  <2>4. TypeInv'
    BY <1>1, <1>4, <2>2 DEF TypeInv, enqueue
  <2>5. QED
    BY <1>1, <1>3, <1>4, <2>3, <2>4 DEF enqueue
<1>5. CASE dropped' = [dropped EXCEPT ![k] = @ + 1] /\ queue' = queue
  <2>1. dropped' \in [Kind -> Nat]
    BY <1>5 DEF TypeInv
  <2>2. QED
    BY <1>1, <1>5, <2>1 DEF TypeInv, enqueue
<1>6. QED
  BY <1>2, <1>4, <1>5 DEF enqueue

LEMMA FillFacts ==
  ASSUME TypeInv, NEW k \in Kind, NEW here \in Places, NEW next \in Places, Fill(k, here, next)
  PROVE  /\ TypeInv' /\ bc.at = here
         /\ bc'.idx = bc.idx /\ bc'.to_remove = bc.to_remove
         /\ \A j \in Kind \ {k} : queue'[j] = queue[j] /\ bc'.batch[j] = bc.batch[j]
         /\ \/ /\ Len(bc.batch[k]) < BatchCap[k] /\ queue[k] # <<>> /\ bc'.at = here
               /\ bc'.batch[k] = Append(bc.batch[k], Head(queue[k]))
               /\ queue'[k] = Tail(queue[k])
            \/ bc'.at = next /\ queue' = queue /\ bc'.batch = bc.batch
         /\ UNCHANGED <<running, shutdown, dropped, clients, lock, acceptor, sock, history>>
<1>1. /\ bc \in Local /\ queue \in [Kind -> Seq(Frame)]
      /\ bc.batch[k] \in Seq(Frame) /\ queue[k] \in Seq(Frame)
  BY DEF TypeInv, Local
<1>2. CASE /\ Len(bc.batch[k]) < BatchCap[k] /\ queue[k] # <<>>
           /\ bc' = [bc EXCEPT !.batch[k] = Append(@, Head(queue[k]))]
           /\ queue' = [queue EXCEPT ![k] = Tail(@)]
  <2>1. PICK b \in Seq(Frame) : b = Append(bc.batch[k], Head(queue[k]))
    BY <1>1, <1>2, HeadTailProperties, AppendProperties
  <2>2. Tail(queue[k]) \in Seq(Frame)
    BY <1>1, <1>2, HeadTailProperties
  <2>3. /\ queue' \in [Kind -> Seq(Frame)] /\ queue'[k] = Tail(queue[k])
        /\ \A j \in Kind \ {k} : queue'[j] = queue[j]
    BY <1>1, <1>2, <2>2
  <2>4. bc' = [bc EXCEPT !.batch = [bc.batch EXCEPT ![k] = b]]
    BY <1>2, <2>1
  <2>5. PICK bb \in [Kind -> Seq(Frame)] : bb = [bc.batch EXCEPT ![k] = b]
    BY <1>1, <2>1 DEF Local
  <2>6. bb[k] = b /\ \A j \in Kind \ {k} : bb[j] = bc.batch[j]
    BY <1>1, <2>5 DEF Local
  <2>7. /\ bc' \in Local /\ bc'.batch = bb /\ bc'.at = bc.at /\ bc'.idx = bc.idx
        /\ bc'.to_remove = bc.to_remove
    BY <1>1, <2>4, <2>5 DEF Local
  <2>8. TypeInv'
    BY <2>3, <2>7 DEF TypeInv, Fill, history
  <2>9. QED
    BY <1>2, <2>1, <2>3, <2>6, <2>7, <2>8 DEF Fill
<1>3. CASE bc' = [bc EXCEPT !.at = next] /\ queue' = queue
  <2>1. /\ bc' \in Local /\ bc'.batch = bc.batch /\ bc'.at = next /\ bc'.idx = bc.idx
        /\ bc'.to_remove = bc.to_remove
    BY <1>1, <1>3 DEF Local
  <2>2. TypeInv'
    BY <1>3, <2>1 DEF TypeInv, Fill, history
  <2>3. QED
    BY <1>3, <2>1, <2>2 DEF Fill
<1>4. QED
  BY <1>2, <1>3 DEF Fill

LEMMA StartFacts ==
  ASSUME TypeInv, StartBroadcast
  PROVE  /\ TypeInv' /\ bc.at = "send" /\ bc'.batch = bc.batch
         /\ \/ /\ Data = <<>> /\ bc'.at = "top" /\ bc'.idx = bc.idx
               /\ bc'.to_remove = bc.to_remove /\ UNCHANGED <<lock, log>>
            \/ /\ lock = "none" /\ lock' = "broadcaster" /\ log' = log \o Data
               /\ bc'.at = "write" /\ bc'.idx = 1 /\ bc'.to_remove = <<>>
         /\ UNCHANGED <<running, shutdown, queue, dropped, clients, acceptor, sock,
                        produced, reported>>
<1>1. bc \in Local /\ log \in Seq(Frame) /\ Data \in Seq(Frame)
  BY DataType DEF TypeInv
<1>2. CASE Data = <<>> /\ bc' = [bc EXCEPT !.at = "top"] /\ UNCHANGED <<lock, log>>
  <2>1. /\ bc' \in Local /\ bc'.batch = bc.batch /\ bc'.at = "top" /\ bc'.idx = bc.idx
        /\ bc'.to_remove = bc.to_remove
    BY <1>1, <1>2 DEF Local, Places
  <2>2. TypeInv'
    BY <1>2, <2>1 DEF TypeInv, StartBroadcast
  <2>3. QED
    BY <1>2, <2>1, <2>2 DEF StartBroadcast
<1>3. CASE /\ lock = "none" /\ lock' = "broadcaster" /\ log' = log \o Data
           /\ bc' = [bc EXCEPT !.at = "write", !.idx = 1, !.to_remove = <<>>]
  <2>1. /\ bc' \in Local /\ bc'.batch = bc.batch /\ bc'.at = "write" /\ bc'.idx = 1
        /\ bc'.to_remove = <<>>
    <3>1. bc = [at |-> bc.at, batch |-> bc.batch, idx |-> bc.idx, to_remove |-> bc.to_remove]
      BY <1>1 DEF Local
    <3>2. bc' = [at |-> "write", batch |-> bc.batch, idx |-> 1, to_remove |-> <<>>]
      BY <1>3, <3>1
    <3>3. bc.batch \in [Kind -> Seq(Frame)] /\ <<>> \in Seq(Nat \ {0})
      BY <1>1 DEF Local
    <3>4. QED
      BY <3>2, <3>3 DEF Local, Places
  <2>2. log' \in Seq(Frame)
    BY <1>1, <1>3, ConcatProperties
  <2>3. TypeInv'
    BY <1>3, <2>1, <2>2 DEF TypeInv, StartBroadcast
  <2>4. QED
    BY <1>3, <2>1, <2>3 DEF StartBroadcast
<1>4. QED
  BY <1>2, <1>3 DEF StartBroadcast

\* The outcomes of a write to client c, which is at i.
Wrote(i, c) ==
  /\ i = bc.idx /\ c = clients[i]
  /\ sock'[c].joined = sock[c].joined
  /\ \A d \in Conns \ {c} : sock'[d] = sock[d]
  /\ \/ /\ sock'[c].state = sock[c].state
        /\ \/ sock'[c].sent = sock[c].sent \o Data /\ sock'[c].missed = sock[c].missed
           \/ \E part \in Partial : sock'[c].sent = sock[c].sent \o part /\ sock'[c].missed = TRUE
        /\ bc'.at = "write" /\ bc'.idx = i + 1 /\ bc'.to_remove = bc.to_remove
        /\ UNCHANGED lock
     \/ /\ sock'[c].state = "failed"
        /\ \E part \in Partial : sock'[c].sent = sock[c].sent \o part
        /\ \/ /\ Len(bc.to_remove) < RemoveCap
              /\ bc'.at = "write" /\ bc'.idx = i + 1
              /\ bc'.to_remove = Append(bc.to_remove, i) /\ UNCHANGED lock
           \/ /\ bc'.at = "panicked" /\ bc'.idx = i
              /\ bc'.to_remove = bc.to_remove /\ lock' = "none"

LEMMA WriteFacts ==
  ASSUME TypeInv, Write
  PROVE  /\ TypeInv' /\ bc.at = "write" /\ bc'.batch = bc.batch
         /\ \E i \in 1 .. Len(clients), c \in Conns : Wrote(i, c)
         /\ UNCHANGED <<running, shutdown, queue, dropped, clients, acceptor, history>>
<1>1. /\ bc \in Local /\ sock \in [Conns -> Socket] /\ clients \in Seq(Conns)
      /\ Data \in Seq(Frame) /\ Len(clients) \in Nat
  BY DataType, LenProperties DEF TypeInv
<1>2. bc.at = "write" /\ bc.idx \in 1 .. Len(clients)
  <2>1. bc.at = "write" /\ bc.idx =< Len(clients)
    BY Zenon DEF Write
  <2>2. QED
    BY <1>1, <2>1 DEF Local
<1>3. PICK i \in 1 .. Len(clients), c \in Conns : i = bc.idx /\ c = clients[i]
  BY <1>1, <1>2, ElementOfSeq
<1>4. UNCHANGED <<running, shutdown, queue, dropped, clients, acceptor, history>>
  BY DEF Write
<1>5. sock[c] \in Socket /\ sock[c].sent \in Seq(Frame) /\ i + 1 \in Nat \ {0}
  BY <1>1 DEF Socket
<1>6. SUFFICES TypeInv' /\ bc'.batch = bc.batch /\ Wrote(i, c)
  BY <1>2, <1>4
<1>7. ASSUME bc' = [bc EXCEPT !.idx = @ + 1]
      PROVE  /\ bc' \in Local /\ bc'.at = "write" /\ bc'.idx = i + 1
             /\ bc'.batch = bc.batch /\ bc'.to_remove = bc.to_remove
  <2>1. bc' = [bc EXCEPT !.idx = i + 1]
    BY <1>3, <1>7
  <2>2. QED
    BY <1>1, <1>2, <1>5, <2>1 DEF Local
<1>8. CASE /\ sock' = [sock EXCEPT ![c].sent = @ \o Data]
           /\ bc' = [bc EXCEPT !.idx = @ + 1] /\ UNCHANGED lock
  <2>1. PICK s \in Seq(Frame) : s = sock[c].sent \o Data
    BY <1>1, <1>5, ConcatProperties
  <2>2. sock' = [sock EXCEPT ![c].sent = s]
    BY <1>8, <2>1
  <2>3. /\ sock' \in [Conns -> Socket]
        /\ sock'[c].state = sock[c].state /\ sock'[c].joined = sock[c].joined
        /\ sock'[c].sent = s /\ sock'[c].missed = sock[c].missed
    BY <1>1, <2>2, SocketSent
  <2>4. \A d \in Conns \ {c} : sock'[d] = sock[d]
    BY <1>1, <2>2
  <2>5. TypeInv'
    BY <1>4, <1>7, <1>8, <2>3 DEF TypeInv, history
  <2>6. QED
    BY <1>3, <1>7, <1>8, <2>1, <2>3, <2>4, <2>5 DEF Wrote
<1>9. CASE /\ \E part \in Partial :
                sock' = [sock EXCEPT ![c].sent = @ \o part, ![c].missed = TRUE]
           /\ bc' = [bc EXCEPT !.idx = @ + 1] /\ UNCHANGED lock
  <2>1. PICK part \in Partial :
          sock' = [sock EXCEPT ![c].sent = @ \o part, ![c].missed = TRUE]
    BY <1>9
  <2>2. PICK s \in Seq(Frame) : s = sock[c].sent \o part
    BY <1>5, PartialFacts, ConcatProperties
  <2>3. sock' = [sock EXCEPT ![c].sent = s, ![c].missed = TRUE]
    BY <2>1, <2>2
  <2>4. /\ sock' \in [Conns -> Socket]
        /\ sock'[c].state = sock[c].state /\ sock'[c].joined = sock[c].joined
        /\ sock'[c].sent = s /\ sock'[c].missed = TRUE
    <3>1. /\ DOMAIN sock' = Conns /\ \A d \in Conns \ {c} : sock'[d] = sock[d]
          /\ sock'[c] = [sock[c] EXCEPT !.sent = s, !.missed = TRUE]
      BY <1>1, <2>3
    <3>2. /\ sock'[c] \in Socket
          /\ sock'[c].state = sock[c].state /\ sock'[c].joined = sock[c].joined
          /\ sock'[c].sent = s /\ sock'[c].missed = TRUE
      BY <1>5, <3>1 DEF Socket
    <3>3. sock' = [d \in Conns |-> sock'[d]] /\ \A d \in Conns : sock'[d] \in Socket
      BY <1>1, <2>3, <3>1, <3>2
    <3>4. sock' \in [Conns -> Socket]
      BY <3>3
    <3>5. QED
      BY <3>2, <3>4
  <2>5. \A d \in Conns \ {c} : sock'[d] = sock[d]
    BY <1>1, <2>3
  <2>6. TypeInv'
    BY <1>4, <1>7, <1>9, <2>4 DEF TypeInv, history
  <2>7. /\ bc'.at = "write" /\ bc'.idx = i + 1 /\ bc'.to_remove = bc.to_remove
        /\ bc'.batch = bc.batch /\ lock' = lock
    BY <1>7, <1>9
  <2>8. \E x \in Partial : sock'[c].sent = sock[c].sent \o x /\ sock'[c].missed = TRUE
    BY <2>2, <2>4, Zenon
  <2>9. Wrote(i, c)
    BY <1>3, <2>4, <2>5, <2>7, <2>8, Zenon DEF Wrote
  <2>10. QED
    BY <2>6, <2>7, <2>9
<1>10. ASSUME \E part \in Partial :
                sock' = [sock EXCEPT ![c].sent = @ \o part, ![c].state = "failed"]
       PROVE  /\ sock' \in [Conns -> Socket]
              /\ sock'[c].state = "failed" /\ sock'[c].joined = sock[c].joined
              /\ \E part \in Partial : sock'[c].sent = sock[c].sent \o part
              /\ \A d \in Conns \ {c} : sock'[d] = sock[d]
  <2>1. PICK part \in Partial :
          sock' = [sock EXCEPT ![c].sent = @ \o part, ![c].state = "failed"]
    BY <1>10
  <2>2. PICK s \in Seq(Frame) : s = sock[c].sent \o part
    BY <1>5, PartialFacts, ConcatProperties
  <2>3. sock' = [sock EXCEPT ![c].sent = s, ![c].state = "failed"]
    BY <2>1, <2>2
  <2>4. /\ DOMAIN sock' = Conns /\ \A d \in Conns \ {c} : sock'[d] = sock[d]
        /\ sock'[c] = [sock[c] EXCEPT !.sent = s, !.state = "failed"]
    BY <1>1, <2>3
  <2>5. /\ sock'[c] \in Socket
        /\ sock'[c].state = "failed" /\ sock'[c].joined = sock[c].joined
        /\ sock'[c].sent = s
    BY <1>5, <2>4 DEF Socket, States
  <2>6. sock' = [d \in Conns |-> sock'[d]] /\ \A d \in Conns : sock'[d] \in Socket
    BY <1>1, <2>3, <2>4, <2>5
  <2>7. sock' \in [Conns -> Socket]
    BY <2>6
  <2>8. \E x \in Partial : sock'[c].sent = sock[c].sent \o x
    BY <2>2, <2>5, Zenon
  <2>9. QED
    BY <2>4, <2>5, <2>7, <2>8
<1>11. CASE /\ Len(bc.to_remove) < RemoveCap
            /\ \E part \in Partial :
                 sock' = [sock EXCEPT ![c].sent = @ \o part, ![c].state = "failed"]
            /\ bc' = [bc EXCEPT !.idx = @ + 1, !.to_remove = Append(@, bc.idx)]
            /\ UNCHANGED lock
  <2>1. /\ sock' \in [Conns -> Socket]
        /\ sock'[c].state = "failed" /\ sock'[c].joined = sock[c].joined
    BY <1>10, <1>11
  <2>2. /\ \E part \in Partial : sock'[c].sent = sock[c].sent \o part
        /\ \A d \in Conns \ {c} : sock'[d] = sock[d]
    BY <1>10, <1>11
  <2>3. bc.to_remove \in Seq(Nat \ {0}) /\ i \in Nat \ {0}
    BY <1>1, <1>3 DEF Local
  <2>4. PICK t \in Seq(Nat \ {0}) : t = Append(bc.to_remove, i)
    BY <2>3, AppendProperties
  <2>5. bc' = [at |-> "write", batch |-> bc.batch, idx |-> i + 1, to_remove |-> t]
    <3>1. bc = [at |-> "write", batch |-> bc.batch, idx |-> i, to_remove |-> bc.to_remove]
      BY <1>1, <1>2, <1>3 DEF Local
    <3>2. PICK tr, b : tr = bc.to_remove /\ b = bc.batch
      OBVIOUS
    <3>3. bc' = [[at |-> "write", batch |-> b, idx |-> i, to_remove |-> tr]
                   EXCEPT !.idx = @ + 1, !.to_remove = Append(@, i)]
      BY <1>3, <1>11, <3>1, <3>2
    <3>4. QED
      BY <2>4, <3>2, <3>3
  <2>6. bc' \in Local
    BY <1>1, <1>5, <2>4, <2>5 DEF Local, Places
  <2>7. TypeInv'
    BY <1>4, <1>11, <2>1, <2>6 DEF TypeInv, history
  <2>8. /\ bc'.at = "write" /\ bc'.idx = i + 1 /\ bc'.batch = bc.batch
        /\ bc'.to_remove = Append(bc.to_remove, i)
    BY <2>4, <2>5
  <2>9. Len(bc.to_remove) < RemoveCap /\ UNCHANGED lock
    BY <1>11
  <2>10. QED
    BY <1>3, <2>1, <2>2, <2>7, <2>8, <2>9 DEF Wrote
<1>12. CASE /\ \E part \in Partial :
                 sock' = [sock EXCEPT ![c].sent = @ \o part, ![c].state = "failed"]
            /\ bc' = [bc EXCEPT !.at = "panicked"] /\ lock' = "none"
  <2>1. /\ sock' \in [Conns -> Socket]
        /\ sock'[c].state = "failed" /\ sock'[c].joined = sock[c].joined
    BY <1>10, <1>12
  <2>2. /\ \E part \in Partial : sock'[c].sent = sock[c].sent \o part
        /\ \A d \in Conns \ {c} : sock'[d] = sock[d]
    BY <1>10, <1>12
  <2>3. /\ bc' \in Local /\ bc'.at = "panicked" /\ bc'.idx = bc.idx
        /\ bc'.batch = bc.batch /\ bc'.to_remove = bc.to_remove
    BY <1>1, <1>12 DEF Local, Places
  <2>4. TypeInv'
    BY <1>4, <1>12, <2>1, <2>3 DEF TypeInv, history
  <2>5. QED
    BY <1>3, <1>12, <2>1, <2>2, <2>3, <2>4 DEF Wrote
<1>13. QED
  BY <1>3, <1>8, <1>9, <1>11, <1>12 DEF Write

\* The removal of a client; that its index is one of the list is part of ListInv.
LEMMA RemoveFailedFacts ==
  ASSUME TypeInv, RemoveFailed, Last(bc.to_remove) =< Len(clients)
  PROVE  /\ TypeInv' /\ bc.at = "write" /\ bc.idx > Len(clients)
         /\ bc'.at = "write" /\ bc'.batch = bc.batch /\ bc'.idx = bc.idx
         /\ bc.to_remove # <<>> /\ bc'.to_remove = Front(bc.to_remove)
         /\ \E i \in 1 .. Len(clients), c \in Conns :
              /\ i = Last(bc.to_remove) /\ c = clients[i]
              /\ clients' = swap_remove(clients, i)
              /\ \A d \in Conns :
                   /\ sock'[d].state = IF d = c THEN "closed" ELSE sock[d].state
                   /\ sock'[d].sent = sock[d].sent /\ sock'[d].joined = sock[d].joined
                   /\ sock'[d].missed = sock[d].missed
         /\ UNCHANGED <<running, shutdown, queue, dropped, lock, acceptor, history>>
<1>1. bc \in Local /\ sock \in [Conns -> Socket] /\ clients \in Seq(Conns) /\ bc.to_remove # <<>>
  BY DEF TypeInv, RemoveFailed
<1>2. bc.to_remove \in Seq(Nat \ {0})
  BY <1>1 DEF Local
<1>3. PICK i \in Nat \ {0}, t \in Seq(Nat \ {0}) : i = Last(bc.to_remove) /\ t = Front(bc.to_remove)
  BY <1>1, <1>2, FrontProperties
<1>4. i \in 1 .. Len(clients)
  <2>1. Len(clients) \in Nat
    BY <1>1, LenProperties
  <2>2. QED
    BY <1>3, <2>1
<1>5. PICK c \in Conns : c = clients[i]
  BY <1>1, <1>4, ElementOfSeq
<1>6. clients' = swap_remove(clients, i) /\ clients' \in Seq(Conns)
  BY <1>1, <1>3, <1>4, SwapRemove DEF RemoveFailed
<1>7. /\ sock' \in [Conns -> Socket]
      /\ \A d \in Conns : /\ sock'[d].state = IF d = c THEN "closed" ELSE sock[d].state
                          /\ sock'[d].sent = sock[d].sent /\ sock'[d].joined = sock[d].joined
                          /\ sock'[d].missed = sock[d].missed
  <2>1. sock' = [sock EXCEPT ![c].state = "closed"]
    BY <1>3, <1>5 DEF RemoveFailed
  <2>2. QED
    BY <1>1, <2>1, SocketState, SMTT(30) DEF States
<1>8. bc' \in Local /\ bc'.at = "write" /\ bc'.batch = bc.batch /\ bc'.idx = bc.idx
      /\ bc'.to_remove = t
  <2>1. bc.at = "write" /\ bc' = [bc EXCEPT !.to_remove = t]
    BY <1>3 DEF RemoveFailed
  <2>2. QED
    BY <1>1, <2>1 DEF Local
<1>9. TypeInv'
  BY <1>6, <1>7, <1>8 DEF TypeInv, RemoveFailed, history
<1>10. QED
  BY <1>1, <1>3, <1>5, <1>6, <1>7, <1>8, <1>9 DEF RemoveFailed

LEMMA EndFacts ==
  ASSUME TypeInv, EndBroadcast
  PROVE  /\ TypeInv' /\ bc.at = "write" /\ bc.idx > Len(clients) /\ bc.to_remove = <<>>
         /\ lock' = "none" /\ bc'.at = "report" /\ bc'.idx = bc.idx /\ bc'.to_remove = <<>>
         /\ \A k \in Kind : bc'.batch[k] = <<>>
         /\ UNCHANGED <<running, shutdown, queue, dropped, clients, acceptor, sock, history>>
<1>1. bc \in Local /\ bc.to_remove = <<>>
  BY DEF TypeInv, EndBroadcast
<1>2. PICK b \in [Kind -> Seq(Frame)] : b = [k \in Kind |-> <<>>]
  <2>1. <<>> \in Seq(Frame)
    BY EmptySeq
  <2>2. QED
    BY <2>1
<1>3. bc' = [at |-> "report", batch |-> b, idx |-> bc.idx, to_remove |-> bc.to_remove]
  <2>1. bc = [at |-> bc.at, batch |-> bc.batch, idx |-> bc.idx, to_remove |-> bc.to_remove]
    BY <1>1 DEF Local
  <2>2. bc' = [bc EXCEPT !.at = "report", !.batch = b]
    BY <1>2 DEF EndBroadcast
  <2>3. QED
    BY <2>1, <2>2
<1>4. bc' \in Local
  BY <1>1, <1>2, <1>3 DEF Local, Places
<1>5. TypeInv'
  BY <1>4 DEF TypeInv, EndBroadcast, history
<1>6. bc'.at = "report" /\ bc'.idx = bc.idx /\ bc'.to_remove = <<>> /\ bc'.batch = b
  BY <1>1, <1>3
<1>7. QED
  BY <1>2, <1>5, <1>6 DEF EndBroadcast

LEMMA ReportFacts ==
  ASSUME TypeInv, Report
  PROVE  /\ TypeInv' /\ bc.at = "report" /\ bc'.at = "top"
         /\ bc'.idx = bc.idx /\ bc'.to_remove = bc.to_remove /\ bc'.batch = bc.batch
         /\ \A k \in Kind : dropped'[k] = 0 /\ reported'[k] = reported[k] + dropped[k]
         /\ UNCHANGED <<running, shutdown, queue, clients, lock, acceptor, sock, produced, log>>
<1>1. /\ bc' \in Local /\ bc'.at = "top" /\ bc'.idx = bc.idx
      /\ bc'.to_remove = bc.to_remove /\ bc'.batch = bc.batch
  BY DEF TypeInv, Report, Local, Places
<1>2. \A k \in Kind : reported[k] + dropped[k] \in Nat
  BY DEF TypeInv
<1>3. reported' \in [Kind -> Nat] /\ dropped' \in [Kind -> Nat]
  BY <1>2 DEF Report
<1>4. TypeInv'
  BY <1>1, <1>3 DEF TypeInv, Report
<1>5. QED
  BY <1>1, <1>4 DEF Report

LEMMA LoopFacts ==
  ASSUME TypeInv, BroadcastLoop
  PROVE  /\ TypeInv' /\ bc.at = "top" /\ bc'.at \in {"bbo", "done"}
         /\ bc'.idx = bc.idx /\ bc'.to_remove = bc.to_remove /\ bc'.batch = bc.batch
         /\ UNCHANGED <<running, shutdown, queue, dropped, clients, lock, acceptor, sock, history>>
<1>1. PICK at \in {"bbo", "done"} : bc' = [bc EXCEPT !.at = at]
  BY DEF BroadcastLoop
<1>2. /\ bc' \in Local /\ bc'.at = at /\ bc'.idx = bc.idx
      /\ bc'.to_remove = bc.to_remove /\ bc'.batch = bc.batch
  BY <1>1 DEF TypeInv, Local, Places
<1>3. TypeInv'
  BY <1>2 DEF TypeInv, BroadcastLoop, history
<1>4. QED
  BY <1>2, <1>3 DEF BroadcastLoop

\* The steps before a client is in the list.
LEMMA ArrivalFacts ==
  ASSUME TypeInv, Accept \/ AcceptLoop \/ \E c \in Conns : Connect(c)
  PROVE  /\ TypeInv'
         /\ \A d \in Conns :
              /\ \/ sock'[d].state = sock[d].state
                 \/ sock[d].state = "absent" /\ sock'[d].state = "backlog"
                 \/ sock[d].state = "backlog" /\ sock'[d].state = "accepted"
              /\ sock'[d].sent = sock[d].sent /\ sock'[d].joined = sock[d].joined
              /\ sock'[d].missed = sock[d].missed
         /\ \/ UNCHANGED acceptor
            \/ acceptor = "top" /\ acceptor' = IF running THEN "accept" ELSE "done"
            \/ acceptor = "accept" /\ acceptor' \in {"top", "lock"}
         /\ UNCHANGED <<running, shutdown, queue, dropped, clients, lock, bc, history>>
<1>1. sock \in [Conns -> Socket] /\ {"backlog", "accepted"} \subseteq States
  BY DEF TypeInv, States
<1>2. ASSUME NEW c \in Conns, NEW s \in {"backlog", "accepted"},
             sock' = [sock EXCEPT ![c].state = s],
             s = IF sock[c].state = "absent" THEN "backlog" ELSE "accepted",
             sock[c].state \in {"absent", "backlog"}
      PROVE  /\ sock' \in [Conns -> Socket]
             /\ \A d \in Conns :
                  /\ \/ sock'[d].state = sock[d].state
                     \/ sock[d].state = "absent" /\ sock'[d].state = "backlog"
                     \/ sock[d].state = "backlog" /\ sock'[d].state = "accepted"
                  /\ sock'[d].sent = sock[d].sent /\ sock'[d].joined = sock[d].joined
                  /\ sock'[d].missed = sock[d].missed
  <2>1. sock \in [Conns -> Socket] /\ s \in States
    BY <1>1
  <2>2. /\ sock' \in [Conns -> Socket]
        /\ \A d \in Conns : /\ sock'[d].state = IF d = c THEN s ELSE sock[d].state
                            /\ sock'[d].sent = sock[d].sent /\ sock'[d].joined = sock[d].joined
                            /\ sock'[d].missed = sock[d].missed
    <3>1. sock' = [sock EXCEPT ![c].state = s]
      BY <1>2
    <3>2. QED
      BY <2>1, <3>1, SocketState
  <2>3. QED
    BY <1>2, <2>2
<1>3. CASE Accept
  <2>1. CASE UNCHANGED sock
    BY <1>3, <2>1 DEF Accept, TypeInv, history
  <2>2. CASE ~UNCHANGED sock
    <3>1. PICK c \in Conns : sock[c].state = "backlog" /\ sock' = [sock EXCEPT ![c].state = "accepted"]
      BY <1>3, <2>2 DEF Accept
    <3>2. /\ sock' \in [Conns -> Socket]
          /\ \A d \in Conns :
                  /\ \/ sock'[d].state = sock[d].state
                     \/ sock[d].state = "absent" /\ sock'[d].state = "backlog"
                     \/ sock[d].state = "backlog" /\ sock'[d].state = "accepted"
                  /\ sock'[d].sent = sock[d].sent /\ sock'[d].joined = sock[d].joined
                  /\ sock'[d].missed = sock[d].missed
      BY <1>2, <3>1
    <3>3. acceptor = "accept" /\ acceptor' \in {"top", "lock"}
      BY <1>3 DEF Accept
    <3>4. TypeInv'
      BY <1>3, <3>2, <3>3 DEF Accept, TypeInv, history
    <3>5. QED
      BY <1>3, <3>2, <3>3, <3>4 DEF Accept
  <2>3. QED
    BY <2>1, <2>2
<1>4. CASE AcceptLoop
  BY <1>4 DEF AcceptLoop, TypeInv, history
<1>5. ASSUME NEW c \in Conns, Connect(c)
      PROVE  /\ TypeInv'
             /\ \A d \in Conns :
                  /\ \/ sock'[d].state = sock[d].state
                     \/ sock[d].state = "absent" /\ sock'[d].state = "backlog"
                     \/ sock[d].state = "backlog" /\ sock'[d].state = "accepted"
                  /\ sock'[d].sent = sock[d].sent /\ sock'[d].joined = sock[d].joined
                  /\ sock'[d].missed = sock[d].missed
             /\ UNCHANGED <<running, shutdown, queue, dropped, clients, lock, acceptor, bc, history>>
  <2>1. sock[c].state = "absent" /\ sock' = [sock EXCEPT ![c].state = "backlog"]
    BY <1>5 DEF Connect
  <2>2. /\ sock' \in [Conns -> Socket]
        /\ \A d \in Conns :
                  /\ \/ sock'[d].state = sock[d].state
                     \/ sock[d].state = "absent" /\ sock'[d].state = "backlog"
                     \/ sock[d].state = "backlog" /\ sock'[d].state = "accepted"
                  /\ sock'[d].sent = sock[d].sent /\ sock'[d].joined = sock[d].joined
                  /\ sock'[d].missed = sock[d].missed
    BY <1>2, <2>1
  <2>3. QED
    BY <1>5, <2>2 DEF Connect, TypeInv, history
<1>6. QED
  BY <1>3, <1>4, <1>5

LEMMA AdmitFacts ==
  ASSUME TypeInv, Admit
  PROVE  /\ TypeInv' /\ acceptor = "lock" /\ acceptor' = "top" /\ lock = "none"
         /\ \E c \in Conns :
              /\ sock[c].state = "accepted"
              /\ sock'[c].sent = sock[c].sent /\ sock'[c].missed = sock[c].missed
              /\ \A d \in Conns \ {c} : sock'[d] = sock[d]
              /\ \/ /\ Len(clients) < MaxClients /\ clients' = Append(clients, c)
                    /\ sock'[c].state = "open" /\ sock'[c].joined = Len(log)
                 \/ /\ sock'[c].state = "closed" /\ sock'[c].joined = sock[c].joined
                    /\ UNCHANGED clients
         /\ UNCHANGED <<running, shutdown, queue, dropped, lock, bc, history>>
<1>1. /\ sock \in [Conns -> Socket] /\ "closed" \in States /\ clients \in Seq(Conns)
      /\ Len(log) \in Nat
  BY LenProperties DEF TypeInv, States
<1>2. PICK c \in Conns :
        /\ sock[c].state = "accepted"
        /\ \/ /\ Len(clients) < MaxClients /\ clients' = Append(clients, c)
              /\ sock' = [sock EXCEPT ![c].state = "open", ![c].joined = Len(log)]
           \/ sock' = [sock EXCEPT ![c].state = "closed"] /\ UNCHANGED clients
  BY DEF Admit
<1>3. CASE /\ Len(clients) < MaxClients /\ clients' = Append(clients, c)
           /\ sock' = [sock EXCEPT ![c].state = "open", ![c].joined = Len(log)]
  <2>1. sock[c] \in Socket
    BY <1>1
  <2>2. /\ DOMAIN sock' = Conns /\ \A d \in Conns \ {c} : sock'[d] = sock[d]
        /\ sock'[c] = [sock[c] EXCEPT !.state = "open", !.joined = Len(log)]
    BY <1>1, <1>3
  <2>3. /\ sock'[c] \in Socket
        /\ sock'[c].state = "open" /\ sock'[c].joined = Len(log)
        /\ sock'[c].sent = sock[c].sent /\ sock'[c].missed = sock[c].missed
    BY <1>1, <2>1, <2>2 DEF Socket, States
  <2>4. sock' = [d \in Conns |-> sock'[d]] /\ \A d \in Conns : sock'[d] \in Socket
    BY <1>1, <1>3, <2>2, <2>3
  <2>5. sock' \in [Conns -> Socket]
    BY <2>4
  <2>6. clients' \in Seq(Conns)
    BY <1>1, <1>3, AppendProperties
  <2>7. TypeInv'
    BY <2>5, <2>6 DEF TypeInv, Admit, history
  <2>8. QED
    BY <1>2, <1>3, <2>2, <2>3, <2>7 DEF Admit
<1>4. CASE sock' = [sock EXCEPT ![c].state = "closed"] /\ UNCHANGED clients
  <2>1. sock \in [Conns -> Socket] /\ "closed" \in States
    BY <1>1
  <2>2. sock' = [sock EXCEPT ![c].state = "closed"]
    BY <1>4
  <2>3. /\ sock' \in [Conns -> Socket]
        /\ sock'[c].state = "closed" /\ sock'[c].joined = sock[c].joined
        /\ sock'[c].sent = sock[c].sent /\ sock'[c].missed = sock[c].missed
    BY <2>1, <2>2, SocketState
  <2>4. \A d \in Conns \ {c} : sock'[d] = sock[d]
    BY <1>1, <1>4
  <2>5. TypeInv'
    BY <1>4, <2>3 DEF TypeInv, Admit, history
  <2>6. QED
    BY <1>2, <1>4, <2>3, <2>4, <2>5 DEF Admit
<1>5. QED
  BY <1>2, <1>3, <1>4

LEMMA DrainFacts ==
  ASSUME TypeInv, Drain
  PROVE  /\ TypeInv' /\ shutdown = "draining" /\ shutdown' = "idle" /\ lock = "none"
         /\ clients' = <<>>
         /\ \A d \in Conns :
              /\ sock'[d].state = IF d \in Range(clients) THEN "closed" ELSE sock[d].state
              /\ sock'[d].sent = sock[d].sent /\ sock'[d].joined = sock[d].joined
              /\ sock'[d].missed = sock[d].missed
         /\ UNCHANGED <<running, queue, dropped, lock, acceptor, bc, history>>
<1>1. sock \in [Conns -> Socket] /\ \A d \in Conns : sock[d] \in Socket
  BY DEF TypeInv
<1>2. sock' = [c \in Conns |-> IF c \in Range(clients)
                              THEN [sock[c] EXCEPT !.state = "closed"] ELSE sock[c]]
  BY DEF Drain
<1>3. \A d \in Conns :
        /\ sock'[d] \in Socket
        /\ sock'[d].state = IF d \in Range(clients) THEN "closed" ELSE sock[d].state
        /\ sock'[d].sent = sock[d].sent /\ sock'[d].joined = sock[d].joined
        /\ sock'[d].missed = sock[d].missed
  BY <1>1, <1>2 DEF Socket, States
<1>4. sock' \in [Conns -> Socket]
  <2>1. sock' = [d \in Conns |-> sock'[d]]
    BY <1>2
  <2>2. QED
    BY <1>3, <2>1
<1>5. TypeInv'
  BY <1>4 DEF TypeInv, Drain, history
<1>6. QED
  BY <1>3, <1>5 DEF Drain

-----------------------------------------------------------------------------
(* The inductive invariant. *)

Bounds ==
  /\ \A k \in Kind : /\ Len(queue[k]) =< QueueCap[k] /\ Len(bc.batch[k]) =< BatchCap[k]
                     /\ produced[k] =< MaxFrames[k]
  /\ Len(clients) =< MaxClients
  /\ bc.idx =< MaxClients + 1
  /\ Len(bc.to_remove) =< RemoveCap
  /\ \A j \in 1 .. Len(bc.to_remove) : bc.to_remove[j] =< MaxClients

\* The broadcaster holds the lock while it writes, and its batches are empty
\* before they are filled and after they are sent.
LockInv ==
  /\ lock = "broadcaster" <=> bc.at = "write"
  /\ bc.at \in {"top", "report", "done"} => \A k \in Kind : bc.batch[k] = <<>>

Failing(i) == \E j \in 1 .. Len(bc.to_remove) : bc.to_remove[j] = i

\* The list has the open and the failed connections, each once, and to_remove has
\* the places of the failed ones, in rising order: so the last element of the
\* list, which takes the place of the removed one, never is a failed one.
ListInv ==
  /\ \A i, j \in 1 .. Len(clients) : clients[i] = clients[j] => i = j
  /\ \A c \in Conns :
       sock[c].state \in {"open", "failed"} <=> \E i \in 1 .. Len(clients) : clients[i] = c
  /\ bc.at \notin {"write", "panicked"} => bc.to_remove = <<>>
  /\ bc.at = "write" =>
       \A j \in 1 .. Len(bc.to_remove) : bc.to_remove[j] < bc.idx /\ bc.to_remove[j] =< Len(clients)
  /\ \A j, k \in 1 .. Len(bc.to_remove) : j < k => bc.to_remove[j] < bc.to_remove[k]
  /\ bc.at # "panicked" =>
       \A i \in 1 .. Len(clients) : sock[clients[i]].state = "failed" <=> Failing(i)

\* A client that the acceptor has in hand when the flag is cleared may still be
\* added after the list was drained, and no other.
LateInv ==
  ~running /\ shutdown = "idle" =>
    Len(clients) + (IF acceptor \in {"accept", "lock"} THEN 1 ELSE 0) =< 1

\* What client i has been sent, up to the write that is due to it.
Complete(i) ==
  LET c     == clients[i]
      since == SubSeq(log, sock[c].joined + 1, Len(log))
  IN  sock[c].state = "open" /\ ~sock[c].missed =>
        IF bc.at = "write" /\ i >= bc.idx THEN sock[c].sent \o Data = since
                                          ELSE sock[c].sent = since

GapInv ==
  /\ \A c \in Conns : sock[c].joined =< Len(log)
  /\ \A c \in Conns : sock[c].state \in {"absent", "backlog", "accepted"} => sock[c].sent = <<>>
  /\ bc.at # "panicked" => \A i \in 1 .. Len(clients) : Complete(i)

\* In s the frames of a kind rise; and those of s come before those of t.
Rising(s) == \A i, j \in 1 .. Len(s) : i < j /\ s[i].kind = s[j].kind => s[i].n < s[j].n
Before(s, t) ==
  \A i \in 1 .. Len(s), j \in 1 .. Len(t) : s[i].kind = t[j].kind => s[i].n < t[j].n

\* A queue and a batch have frames of their kind.
KindInv ==
  \A k \in Kind : /\ \A i \in 1 .. Len(queue[k]) : queue[k][i].kind = k
                  /\ \A i \in 1 .. Len(bc.batch[k]) : bc.batch[k][i].kind = k

\* From the producer to the sockets, what is ahead is older.
PipeInv ==
  \A k \in Kind :
    /\ Rising(queue[k]) /\ Rising(bc.batch[k]) /\ Before(bc.batch[k], queue[k])
    /\ \A i \in 1 .. Len(queue[k]) : queue[k][i].n =< produced[k]
    /\ \A i \in 1 .. Len(bc.batch[k]) : bc.batch[k][i].n =< produced[k]

\* Whether the batch is still to be written to c.
Awaits(c) ==
  \/ bc.at \notin {"write", "panicked"}
  \/ bc.at = "write" /\ \E i \in 1 .. Len(clients) : i >= bc.idx /\ clients[i] = c

OrderInv ==
  \A c \in Conns :
    /\ Rising(sock[c].sent)
    /\ \A i \in 1 .. Len(sock[c].sent) : sock[c].sent[i].n =< produced[sock[c].sent[i].kind]
    /\ \A k \in Kind : /\ Before(sock[c].sent, queue[k])
                       /\ Awaits(c) => Before(sock[c].sent, bc.batch[k])

IInv ==
  /\ TypeInv /\ Bounds /\ LockInv /\ ListInv /\ LateInv /\ GapInv
  /\ KindInv /\ PipeInv /\ OrderInv /\ Accounted

-----------------------------------------------------------------------------
(* The steps. *)

\* The index that RemoveFailed takes is one of the list.
LEMMA LastFailed ==
  ASSUME TypeInv, ListInv, RemoveFailed
  PROVE  Last(bc.to_remove) =< Len(clients)
<1>1. bc.to_remove \in Seq(Nat \ {0}) /\ bc.to_remove # <<>> /\ bc.at = "write"
  BY DEF TypeInv, Local, RemoveFailed
<1>2. Last(bc.to_remove) = bc.to_remove[Len(bc.to_remove)] /\ Len(bc.to_remove) \in Nat \ {0}
  BY <1>1, FrontProperties
<1>3. QED
  BY <1>1, <1>2 DEF ListInv

LEMMA TypeStep ==
  ASSUME TypeInv, ListInv, Next
  PROVE  TypeInv'
<1>1. CASE RemoveFailed
  BY <1>1, LastFailed, RemoveFailedFacts
<1>2. CASE Shutdown
  BY <1>2 DEF Shutdown, TypeInv, history
<1>3. CASE Fill("bbo", "bbo", "opt") \/ Fill("opt", "opt", "send")
  BY <1>3, FillFacts DEF Kind, Places
<1>4. CASE \E k \in Kind : enqueue(k)
  BY <1>4, EnqueueFacts
<1>5. QED
  BY <1>1, <1>2, <1>3, <1>4, ArrivalFacts, AdmitFacts, LoopFacts, StartFacts, WriteFacts,
     EndFacts, ReportFacts, DrainFacts
  DEF Next, Acceptor, Broadcaster

LEMMA LockStep ==
  ASSUME TypeInv, ListInv, LockInv, Next
  PROVE  LockInv'
<1>1. CASE RemoveFailed
  BY <1>1, LastFailed, RemoveFailedFacts DEF LockInv
<1>2. CASE Shutdown
  BY <1>2 DEF Shutdown, LockInv
<1>3. CASE Fill("bbo", "bbo", "opt") \/ Fill("opt", "opt", "send")
  <2>1. UNCHANGED lock /\ bc.at \in {"bbo", "opt"} /\ bc'.at \in {"bbo", "opt", "send"}
    BY <1>3, FillFacts DEF Kind, Places
  <2>2. QED
    BY <2>1 DEF LockInv
<1>4. ASSUME NEW k \in Kind, enqueue(k)
      PROVE  LockInv'
  BY <1>4, EnqueueFacts DEF LockInv
<1>5. CASE Accept \/ AcceptLoop \/ \E c \in Conns : Connect(c)
  BY <1>5, ArrivalFacts DEF LockInv
<1>6. CASE Admit \/ Drain
  BY <1>6, AdmitFacts, DrainFacts DEF LockInv
<1>7. CASE BroadcastLoop \/ Report
  BY <1>7, LoopFacts, ReportFacts DEF LockInv
<1>8. CASE StartBroadcast
  <2>1. ASSUME Data = <<>>
        PROVE  \A k \in Kind : bc.batch[k] = <<>>
    <3>1. bc.batch["bbo"] \in Seq(Frame) /\ bc.batch["opt"] \in Seq(Frame)
      BY DEF TypeInv, Local, Kind
    <3>2. QED
      BY <2>1, <3>1, ConcatEqualIffEmpty DEF Data, Kind
  <2>2. QED
    BY <1>8, <2>1, StartFacts DEF LockInv
<1>9. CASE Write
  <2>1. PICK i \in 1 .. Len(clients), c \in Conns : Wrote(i, c)
    BY <1>9, WriteFacts
  <2>2. bc.at = "write" /\ \/ bc'.at = "write" /\ lock' = lock
                           \/ bc'.at = "panicked" /\ lock' = "none"
    BY <1>9, <2>1, WriteFacts DEF Wrote
  <2>3. QED
    BY <2>2 DEF LockInv
<1>10. CASE EndBroadcast
  BY <1>10, EndFacts DEF LockInv
<1>11. QED
  BY <1>1, <1>2, <1>3, <1>4, <1>5, <1>6, <1>7, <1>8, <1>9, <1>10
  DEF Next, Acceptor, Broadcaster

LEMMA LateStep ==
  ASSUME TypeInv, ListInv, LateInv, Next
  PROVE  LateInv'
<1> DEFINE n == Len(clients)
<1>1. n \in Nat
  BY LenProperties DEF TypeInv
<1>2. ASSUME UNCHANGED <<running, shutdown, acceptor>>, clients' = clients \/ n' = n - 1
      PROVE  LateInv'
  BY <1>1, <1>2 DEF LateInv
<1>3. CASE RemoveFailed
  <2>1. PICK i \in 1 .. n : clients' = swap_remove(clients, i)
    BY <1>3, LastFailed, RemoveFailedFacts
  <2>2. n' = n - 1
    BY <2>1, SwapRemove DEF TypeInv
  <2>3. QED
    BY <1>2, <1>3, <2>2, LastFailed, RemoveFailedFacts
<1>4. CASE Shutdown
  BY <1>4 DEF Shutdown, LateInv
<1>5. CASE Fill("bbo", "bbo", "opt") \/ Fill("opt", "opt", "send")
  BY <1>2, <1>5, FillFacts DEF Kind, Places
<1>6. CASE \E k \in Kind : enqueue(k)
  BY <1>2, <1>6, EnqueueFacts
<1>7. CASE Accept \/ AcceptLoop \/ \E c \in Conns : Connect(c)
  <2>1. /\ UNCHANGED <<running, shutdown, clients>>
        /\ \/ UNCHANGED acceptor
           \/ acceptor = "top" /\ acceptor' = IF running THEN "accept" ELSE "done"
           \/ acceptor = "accept" /\ acceptor' \in {"top", "lock"}
    BY <1>7, ArrivalFacts
  <2>2. QED
    BY <1>1, <2>1 DEF LateInv
<1>8. CASE Admit
  <2>1. /\ acceptor = "lock" /\ acceptor' = "top" /\ UNCHANGED <<running, shutdown>>
        /\ \/ clients' = clients
           \/ \E c \in Conns : clients' = Append(clients, c)
    BY <1>8, AdmitFacts
  <2>2. n' =< n + 1 /\ n' \in Nat
    BY <1>1, <2>1, AppendProperties DEF TypeInv
  <2>3. QED
    BY <1>1, <2>1, <2>2 DEF LateInv
<1>9. CASE Drain
  <2>1. clients' = <<>> /\ Len(<<>>) = 0
    BY <1>9, DrainFacts
  <2>2. QED
    BY <2>1 DEF LateInv
<1>10. CASE BroadcastLoop \/ StartBroadcast \/ Write \/ EndBroadcast \/ Report
  BY <1>2, <1>10, LoopFacts, StartFacts, WriteFacts, EndFacts, ReportFacts
<1>11. QED
  BY <1>3, <1>4, <1>5, <1>6, <1>7, <1>8, <1>9, <1>10
  DEF Next, Acceptor, Broadcaster

LEMMA BoundsStep ==
  ASSUME TypeInv, ListInv, Bounds, Next
  PROVE  Bounds'
<1>1. /\ MaxClients \in Nat \ {0} /\ RemoveCap \in Nat \ {0}
      /\ \A k \in Kind : QueueCap[k] \in Nat \ {0} /\ BatchCap[k] \in Nat \ {0} /\ MaxFrames[k] \in Nat
  BY BroadcastAssumption DEF BroadcastAssumption
<1>2. /\ Len(clients) \in Nat /\ clients \in Seq(Conns) /\ bc \in Local /\ queue \in [Kind -> Seq(Frame)]
      /\ bc.to_remove \in Seq(Nat \ {0}) /\ Len(bc.to_remove) \in Nat /\ Len(<<>>) = 0
      /\ \A j \in 1 .. Len(bc.to_remove) : bc.to_remove[j] \in Nat
      /\ \A k \in Kind : /\ queue[k] \in Seq(Frame) /\ Len(queue[k]) \in Nat
                         /\ bc.batch[k] \in Seq(Frame) /\ Len(bc.batch[k]) \in Nat
                         /\ produced[k] \in Nat
  <2>1. /\ clients \in Seq(Conns) /\ bc \in Local /\ bc.to_remove \in Seq(Nat \ {0})
        /\ \A k \in Kind : queue[k] \in Seq(Frame) /\ bc.batch[k] \in Seq(Frame) /\ produced[k] \in Nat
    BY DEF TypeInv, Local
  <2>2. QED
    BY <2>1, LenProperties, ElementOfSeq DEF TypeInv
\* The bounds of the queues and those of the list are kept separately.
<1>3. SUFFICES /\ \A k \in Kind : /\ Len(queue'[k]) =< QueueCap[k]
                                  /\ Len(bc'.batch[k]) =< BatchCap[k]
                                  /\ produced'[k] =< MaxFrames[k]
               /\ Len(clients') =< MaxClients
               /\ bc'.idx =< MaxClients + 1
               /\ Len(bc'.to_remove) =< RemoveCap
               /\ \A j \in 1 .. Len(bc'.to_remove) : bc'.to_remove[j] =< MaxClients
  BY DEF Bounds
<1>4. ASSUME NEW k \in Kind, enqueue(k)
      PROVE  Bounds'
  <2>1. produced[k] < MaxFrames[k] /\ produced' = [produced EXCEPT ![k] = @ + 1]
    BY <1>4, EnqueueFacts
  <2>2. \A j \in Kind : produced'[j] =< MaxFrames[j]
    BY <1>1, <1>2, <2>1, SMTT(30) DEF Bounds, TypeInv
  <2>3. Len(queue'[k]) =< QueueCap[k]
    <3>1. CASE queue' = queue
      BY <3>1 DEF Bounds
    <3>2. CASE Len(queue[k]) < QueueCap[k] /\ \E f \in Frame : queue'[k] = Append(queue[k], f)
      <4>1. Len(queue'[k]) = Len(queue[k]) + 1
        BY <1>2, <3>2, AppendProperties
      <4>2. QED
        BY <1>1, <1>2, <3>2, <4>1
    <3>3. QED
      BY <1>4, <3>1, <3>2, EnqueueFacts
  <2>4. (\A j \in Kind \ {k} : queue'[j] = queue[j]) /\ UNCHANGED <<clients, bc>>
    BY <1>4, EnqueueFacts
  <2>5. QED
    BY <2>2, <2>3, <2>4 DEF Bounds
<1>5. ASSUME NEW k \in Kind, NEW here \in Places, NEW next \in Places, Fill(k, here, next)
      PROVE  Bounds'
  <2>1. Len(queue'[k]) =< QueueCap[k] /\ Len(bc'.batch[k]) =< BatchCap[k]
    <3>1. CASE queue' = queue /\ bc'.batch = bc.batch
      BY <3>1 DEF Bounds
    <3>2. CASE /\ Len(bc.batch[k]) < BatchCap[k] /\ queue[k] # <<>>
               /\ bc'.batch[k] = Append(bc.batch[k], Head(queue[k]))
               /\ queue'[k] = Tail(queue[k])
      <4>1. Head(queue[k]) \in Frame /\ Len(Tail(queue[k])) = Len(queue[k]) - 1
        BY <1>2, <3>2, HeadTailProperties
      <4>2. Len(bc'.batch[k]) = Len(bc.batch[k]) + 1
        BY <1>2, <3>2, <4>1, AppendProperties
      <4>3. Len(queue[k]) =< QueueCap[k]
        BY DEF Bounds
      <4>4. QED
        BY <1>1, <1>2, <3>2, <4>1, <4>2, <4>3
    <3>3. QED
      BY <1>5, <3>1, <3>2, FillFacts
  <2>2. /\ \A j \in Kind \ {k} : queue'[j] = queue[j] /\ bc'.batch[j] = bc.batch[j]
        /\ bc'.idx = bc.idx /\ bc'.to_remove = bc.to_remove /\ UNCHANGED <<clients, produced>>
    BY <1>5, FillFacts DEF history
  <2>3. QED
    BY <2>1, <2>2 DEF Bounds
<1>6. CASE StartBroadcast
  <2>1. /\ bc'.idx =< MaxClients + 1
        /\ bc'.to_remove = bc.to_remove \/ bc'.to_remove = <<>>
    BY <1>1, <1>6, StartFacts DEF Bounds
  <2>2. /\ Len(bc'.to_remove) =< RemoveCap
        /\ \A j \in 1 .. Len(bc'.to_remove) : bc'.to_remove[j] =< MaxClients
    BY <1>1, <1>2, <2>1 DEF Bounds
  <2>3. QED
    BY <1>6, <2>1, <2>2, StartFacts DEF Bounds
<1>7. CASE Write
  <2>1. PICK i \in 1 .. Len(clients), c \in Conns : Wrote(i, c)
    BY <1>7, WriteFacts
  <2>2. i \in Nat \ {0} /\ i =< MaxClients
    BY <1>1, <1>2, <2>1 DEF Bounds
  <2>3. bc'.idx =< MaxClients + 1
    <3>1. bc'.idx = i + 1 \/ bc'.idx = i
      BY <2>1 DEF Wrote
    <3>2. QED
      BY <1>1, <2>2, <3>1
  <2>4. /\ Len(bc'.to_remove) =< RemoveCap
        /\ \A j \in 1 .. Len(bc'.to_remove) : bc'.to_remove[j] =< MaxClients
    <3>1. CASE bc'.to_remove = bc.to_remove
      BY <3>1 DEF Bounds
    <3>2. CASE Len(bc.to_remove) < RemoveCap /\ bc'.to_remove = Append(bc.to_remove, i)
      <4>1. /\ Len(bc'.to_remove) = Len(bc.to_remove) + 1
            /\ \A j \in 1 .. Len(bc.to_remove) : bc'.to_remove[j] = bc.to_remove[j]
            /\ bc'.to_remove[Len(bc.to_remove) + 1] = i
        BY <1>2, <2>2, <3>2, AppendProperties
      <4>2. \A j \in 1 .. Len(bc.to_remove) : bc.to_remove[j] =< MaxClients
        BY DEF Bounds
      <4>3. \A j \in 1 .. Len(bc.to_remove) + 1 : j \in 1 .. Len(bc.to_remove) \/ j = Len(bc.to_remove) + 1
        BY <1>2
      <4>4. QED
        BY <1>1, <1>2, <2>2, <3>2, <4>1, <4>2, <4>3
    <3>3. QED
      BY <2>1, <3>1, <3>2 DEF Wrote
  <2>5. UNCHANGED <<queue, produced, clients>> /\ bc'.batch = bc.batch
    BY <1>7, WriteFacts DEF history
  <2>6. QED
    BY <2>3, <2>4, <2>5 DEF Bounds
<1>8. CASE RemoveFailed
  <2>1. PICK i \in 1 .. Len(clients) : clients' = swap_remove(clients, i)
    BY <1>8, LastFailed, RemoveFailedFacts
  <2>2. Len(clients') = Len(clients) - 1
    BY <1>2, <2>1, SwapRemove
  <2>3. Len(clients') =< MaxClients
    BY <1>1, <1>2, <2>2 DEF Bounds
  <2>4. bc.to_remove # <<>> /\ bc'.to_remove = Front(bc.to_remove)
    BY <1>8, LastFailed, RemoveFailedFacts
  <2>5. /\ Len(bc'.to_remove) = Len(bc.to_remove) - 1
        /\ \A j \in 1 .. Len(bc.to_remove) - 1 : bc'.to_remove[j] = bc.to_remove[j]
    <3>1. PICK S, list : list \in Seq(S) /\ list = bc.to_remove /\ list # <<>>
      BY <1>2, <2>4
    <3>2. /\ Len(Front(list)) = Len(list) - 1
          /\ \A j \in 1 .. Len(list) - 1 : Front(list)[j] = list[j]
      BY <3>1, FrontProperties
    <3>3. QED
      BY <2>4, <3>1, <3>2, Zenon
  <2>6. Len(bc'.to_remove) =< RemoveCap
    BY <1>1, <1>2, <2>5 DEF Bounds
  <2>7. \A j \in 1 .. Len(bc'.to_remove) : bc'.to_remove[j] =< MaxClients
    <3>1. \A j \in 1 .. Len(bc.to_remove) : bc.to_remove[j] =< MaxClients
      BY DEF Bounds
    <3>2. \A j \in 1 .. Len(bc.to_remove) - 1 : j \in 1 .. Len(bc.to_remove)
      BY <1>2
    <3>3. SUFFICES ASSUME NEW j \in 1 .. Len(bc'.to_remove)
                   PROVE  bc'.to_remove[j] =< MaxClients
      OBVIOUS
    <3>4. j \in 1 .. Len(bc.to_remove) - 1
      BY <2>5
    <3>5. QED
      BY <2>5, <3>1, <3>2, <3>4
  <2>8. QED
    BY <1>8, <2>3, <2>6, <2>7, LastFailed, RemoveFailedFacts DEF Bounds, history
<1>9. CASE EndBroadcast
  <2>1. /\ UNCHANGED <<queue, produced, clients>> /\ \A k \in Kind : bc'.batch[k] = <<>>
        /\ bc'.idx = bc.idx /\ bc'.to_remove = <<>>
    BY <1>9, EndFacts DEF history
  <2>2. \A k \in Kind : Len(bc'.batch[k]) =< BatchCap[k]
    <3>1. SUFFICES ASSUME NEW k \in Kind PROVE Len(bc'.batch[k]) =< BatchCap[k]
      OBVIOUS
    <3>2. Len(bc'.batch[k]) = 0 /\ BatchCap[k] \in Nat
      BY <1>1, <1>2, <2>1
    <3>3. QED
      BY <3>2
  <2>3. /\ Len(bc'.to_remove) = 0 /\ 0 =< RemoveCap
        /\ \A j \in 1 .. 0 : FALSE
    BY <1>1, <1>2, <2>1
  <2>4. /\ Len(bc'.to_remove) =< RemoveCap
        /\ \A j \in 1 .. Len(bc'.to_remove) : bc'.to_remove[j] =< MaxClients
    BY <2>3
  <2>5. QED
    BY <2>1, <2>2, <2>4 DEF Bounds
<1>10. CASE Admit
  <2>1. \/ UNCHANGED clients
        \/ Len(clients) < MaxClients /\ \E c \in Conns : clients' = Append(clients, c)
    BY <1>10, AdmitFacts
  <2>2. Len(clients') =< MaxClients
    <3>1. CASE UNCHANGED clients
      BY <3>1 DEF Bounds
    <3>2. CASE Len(clients) < MaxClients /\ \E c \in Conns : clients' = Append(clients, c)
      <4>1. Len(clients') = Len(clients) + 1
        BY <1>2, <3>2, AppendProperties
      <4>2. QED
        BY <1>1, <1>2, <3>2, <4>1
    <3>3. QED
      BY <2>1, <3>1, <3>2
  <2>3. QED
    BY <1>10, <2>2, AdmitFacts DEF Bounds, history
<1>11. CASE Drain
  <2>1. Len(clients') =< MaxClients
    BY <1>1, <1>2, <1>11, DrainFacts
  <2>2. QED
    BY <1>11, <2>1, DrainFacts DEF Bounds, history
<1>12. CASE BroadcastLoop \/ Report
  BY <1>12, LoopFacts, ReportFacts DEF Bounds, history
<1>13. CASE Accept \/ AcceptLoop \/ Shutdown \/ \E c \in Conns : Connect(c)
  BY <1>13, ArrivalFacts DEF Shutdown, Bounds, history
<1>14. QED
  BY <1>4, <1>5, <1>6, <1>7, <1>8, <1>9, <1>10, <1>11, <1>12, <1>13
  DEF Next, Acceptor, Broadcaster, Kind, Places, Bounds

\* The steps that leave alone the list, what it says of the connections, and the
\* phase of the broadcast.
LEMMA ListSame ==
  ASSUME ListInv, clients \in Seq(Conns), clients' = clients,
         \A d \in Conns : /\ sock'[d].state \in {"open", "failed"} <=> sock[d].state \in {"open", "failed"}
                          /\ sock'[d].state = "failed" <=> sock[d].state = "failed",
         bc'.to_remove = bc.to_remove, bc'.idx = bc.idx,
         bc'.at = "write" <=> bc.at = "write",
         bc'.at = "panicked" <=> bc.at = "panicked"
  PROVE  ListInv'
<1>1. \A i \in 1 .. Len(clients) : clients[i] \in Conns
  BY ElementOfSeq
<1>2. /\ \A i, j \in 1 .. Len(clients) : clients[i] = clients[j] => i = j
      /\ \A c \in Conns :
           sock[c].state \in {"open", "failed"} <=> \E i \in 1 .. Len(clients) : clients[i] = c
      /\ bc.at \notin {"write", "panicked"} => bc.to_remove = <<>>
      /\ bc.at = "write" =>
           \A j \in 1 .. Len(bc.to_remove) : bc.to_remove[j] < bc.idx /\ bc.to_remove[j] =< Len(clients)
      /\ \A j, k \in 1 .. Len(bc.to_remove) : j < k => bc.to_remove[j] < bc.to_remove[k]
      /\ bc.at # "panicked" =>
           \A i \in 1 .. Len(clients) : sock[clients[i]].state = "failed" <=> Failing(i)
  BY DEF ListInv
<1>3. \A c \in Conns :
        sock'[c].state \in {"open", "failed"} <=> \E i \in 1 .. Len(clients') : clients'[i] = c
  BY <1>2, Zenon
<1>4. bc'.at # "panicked" =>
        \A i \in 1 .. Len(clients') : sock'[clients'[i]].state = "failed" <=> Failing(i)'
  <2>1. \A i : Failing(i)' <=> Failing(i)
    BY Zenon DEF Failing
  <2>2. QED
    BY <1>1, <1>2, <2>1, Zenon
<1>5. /\ \A i, j \in 1 .. Len(clients') : clients'[i] = clients'[j] => i = j
      /\ bc'.at \notin {"write", "panicked"} => bc'.to_remove = <<>>
      /\ \A j, k \in 1 .. Len(bc'.to_remove) : j < k => bc'.to_remove[j] < bc'.to_remove[k]
  BY <1>2, Zenon
<1>6. bc'.at = "write" =>
        \A j \in 1 .. Len(bc'.to_remove) : bc'.to_remove[j] < bc'.idx /\ bc'.to_remove[j] =< Len(clients')
  BY <1>2, Zenon
<1>7. QED
  BY <1>3, <1>4, <1>5, <1>6, Zenon DEF ListInv

LEMMA ListWrite ==
  ASSUME TypeInv, ListInv, Write
  PROVE  ListInv'
<1>1. clients \in Seq(Conns) /\ bc.to_remove \in Seq(Nat \ {0})
  BY DEF TypeInv, Local
<1>2. PICK n \in Nat, m \in Nat : n = Len(clients) /\ m = Len(bc.to_remove)
  BY <1>1, LenProperties
<1>3. PICK i \in 1 .. n, c \in Conns : Wrote(i, c)
  BY <1>2, WriteFacts
<1>4. /\ i = bc.idx /\ c = clients[i] /\ clients' = clients /\ bc.at = "write"
      /\ \A d \in Conns \ {c} : sock'[d] = sock[d]
  BY <1>3, WriteFacts DEF Wrote
<1>5. /\ \A j \in 1 .. n : clients[j] \in Conns
      /\ \A j \in 1 .. m : bc.to_remove[j] \in Nat
      /\ \A j, k \in 1 .. n : clients[j] = clients[k] => j = k
      /\ \A d \in Conns : sock[d].state \in {"open", "failed"} <=> \E j \in 1 .. n : clients[j] = d
      /\ \A j \in 1 .. m : bc.to_remove[j] < i /\ bc.to_remove[j] =< n
      /\ \A j, k \in 1 .. m : j < k => bc.to_remove[j] < bc.to_remove[k]
      /\ \A j \in 1 .. n : sock[clients[j]].state = "failed" <=> Failing(j)
  <2>1. /\ \A j \in 1 .. n : clients[j] \in Conns
        /\ \A j \in 1 .. m : bc.to_remove[j] \in Nat
    BY <1>1, <1>2, ElementOfSeq
  <2>2. /\ \A j, k \in 1 .. n : clients[j] = clients[k] => j = k
        /\ \A d \in Conns : sock[d].state \in {"open", "failed"} <=> \E j \in 1 .. n : clients[j] = d
    BY <1>2 DEF ListInv
  <2>3. /\ \A j \in 1 .. m : bc.to_remove[j] < i /\ bc.to_remove[j] =< n
        /\ \A j, k \in 1 .. m : j < k => bc.to_remove[j] < bc.to_remove[k]
    BY <1>2, <1>4 DEF ListInv
  <2>4. \A j \in 1 .. n : sock[clients[j]].state = "failed" <=> Failing(j)
    BY <1>2, <1>4 DEF ListInv
  <2>5. QED
    BY <2>1, <2>2, <2>3, <2>4
<1>6. sock[c].state \in {"open", "failed"}
  BY <1>4, <1>5
<1>7. CASE /\ sock'[c].state = sock[c].state
           /\ bc'.at = "write" /\ bc'.idx = i + 1 /\ bc'.to_remove = bc.to_remove
  <2>1. \A d \in Conns : sock'[d].state = sock[d].state
    BY <1>4, <1>7
  <2>2. \A j \in 1 .. m : bc.to_remove[j] < i + 1
    BY <1>5
  <2>3. \A j \in 1 .. n : sock'[clients[j]].state = "failed" <=> \E k \in 1 .. m : bc.to_remove[k] = j
    BY <1>2, <1>5, <2>1 DEF Failing
  <2>4. /\ \A d \in Conns : sock'[d].state \in {"open", "failed"} <=> \E j \in 1 .. n : clients[j] = d
        /\ n = Len(clients') /\ m = Len(bc'.to_remove)
    BY <1>2, <1>4, <1>5, <1>7, <2>1
  <2>5. /\ \A j, k \in 1 .. n : clients'[j] = clients'[k] => j = k
        /\ \A d \in Conns : sock'[d].state \in {"open", "failed"} <=> \E j \in 1 .. n : clients'[j] = d
    BY <1>4, <1>5, <2>4
  <2>6. /\ \A j \in 1 .. m : bc'.to_remove[j] < bc'.idx /\ bc'.to_remove[j] =< n
        /\ \A j, k \in 1 .. m : j < k => bc'.to_remove[j] < bc'.to_remove[k]
    BY <1>5, <1>7, <2>2
  <2>7. \A j \in 1 .. n : sock'[clients'[j]].state = "failed" <=> \E k \in 1 .. m : bc'.to_remove[k] = j
    BY <1>4, <1>7, <2>3
  <2>8. n = Len(clients') /\ m = Len(bc'.to_remove) /\ bc'.at = "write"
    BY <1>7, <2>4
  <2>9. QED
    BY <2>5, <2>6, <2>7, <2>8 DEF ListInv, Failing
<1>8. CASE /\ sock'[c].state = "failed"
           /\ bc'.at = "write" /\ bc'.idx = i + 1 /\ bc'.to_remove = Append(bc.to_remove, i)
  <2>1. PICK t : t = bc'.to_remove
    OBVIOUS
  <2>2. /\ Len(t) = m + 1 /\ t[m + 1] = i
        /\ \A j \in 1 .. m : t[j] = bc.to_remove[j]
    <3>1. i \in Nat \ {0}
      BY <1>2
    <3>2. QED
      BY <1>1, <1>2, <1>8, <2>1, <3>1, AppendProperties
  <2>3. \A j \in 1 .. m + 1 : j \in 1 .. m \/ j = m + 1
    BY <1>2
  <2>4. \A d \in Conns : sock'[d].state \in {"open", "failed"} <=> \E j \in 1 .. n : clients[j] = d
    BY <1>4, <1>5, <1>6, <1>8
  <2>5. \A j \in 1 .. m + 1 : t[j] < i + 1 /\ t[j] =< n
    BY <1>2, <1>5, <2>2, <2>3
  <2>6. \A j, k \in 1 .. m + 1 : j < k => t[j] < t[k]
    BY <1>2, <1>5, <2>2, <2>3
  <2>7. \A j \in 1 .. n : sock'[clients[j]].state = "failed" <=> \E k \in 1 .. m + 1 : t[k] = j
    <3>1. SUFFICES ASSUME NEW j \in 1 .. n
                   PROVE  sock'[clients[j]].state = "failed" <=> \E k \in 1 .. m + 1 : t[k] = j
      OBVIOUS
    <3>2. CASE j = i
      <4>1. m + 1 \in 1 .. m + 1
        BY <1>2
      <4>2. t[m + 1] = j /\ sock'[clients[j]].state = "failed"
        BY <1>4, <1>8, <2>2, <3>2
      <4>3. QED
        BY <4>1, <4>2, Zenon
    <3>3. CASE j # i
      <4>1. sock'[clients[j]] = sock[clients[j]]
        BY <1>4, <1>5, <3>3
      <4>2. (\E k \in 1 .. m + 1 : t[k] = j) <=> \E k \in 1 .. m : bc.to_remove[k] = j
        <5>1. \A k \in 1 .. m : k \in 1 .. m + 1
          BY <1>2
        <5>2. QED
          BY <2>2, <2>3, <3>3, <5>1, Zenon
      <4>3. Failing(j) <=> \E k \in 1 .. m : bc.to_remove[k] = j
        BY <1>2, Zenon DEF Failing
      <4>4. sock[clients[j]].state = "failed" <=> Failing(j)
        BY <1>5
      <4>5. QED
        BY <4>1, <4>2, <4>3, <4>4, Zenon
    <3>4. QED
      BY <3>2, <3>3
  <2>8. n = Len(clients') /\ m + 1 = Len(bc'.to_remove)
    BY <1>2, <1>4, <2>1, <2>2
  <2>9. /\ \A j, k \in 1 .. n : clients'[j] = clients'[k] => j = k
        /\ \A d \in Conns : sock'[d].state \in {"open", "failed"} <=> \E j \in 1 .. n : clients'[j] = d
    BY <1>4, <1>5, <2>4
  <2>10. /\ \A j \in 1 .. m + 1 : bc'.to_remove[j] < bc'.idx /\ bc'.to_remove[j] =< n
         /\ \A j, k \in 1 .. m + 1 : j < k => bc'.to_remove[j] < bc'.to_remove[k]
    BY <1>8, <2>1, <2>5, <2>6
  <2>11. \A j \in 1 .. n : sock'[clients'[j]].state = "failed" <=> \E k \in 1 .. m + 1 : bc'.to_remove[k] = j
    BY <1>4, <2>1, <2>7
  <2>12. \A j \in 1 .. Len(clients') : sock'[clients'[j]].state = "failed" <=> Failing(j)'
    BY <2>8, <2>11, Zenon DEF Failing
  <2>13. bc'.at = "write"
    BY <1>8
  <2>14. QED
    BY <2>8, <2>9, <2>10, <2>12, <2>13, Zenon DEF ListInv
<1>9. CASE sock'[c].state = "failed" /\ bc'.at = "panicked" /\ bc'.to_remove = bc.to_remove
  <2>1. \A d \in Conns : sock'[d].state \in {"open", "failed"} <=> \E j \in 1 .. n : clients[j] = d
    BY <1>4, <1>5, <1>6, <1>9
  <2>2. QED
    BY <1>2, <1>4, <1>5, <1>9, <2>1 DEF ListInv
<1>10. QED
  BY <1>3, <1>7, <1>8, <1>9 DEF Wrote

LEMMA ListRemove ==
  ASSUME TypeInv, ListInv, RemoveFailed
  PROVE  ListInv'
<1>1. clients \in Seq(Conns) /\ bc.to_remove \in Seq(Nat \ {0})
  BY DEF TypeInv, Local
<1>2. PICK n \in Nat, m \in Nat : n = Len(clients) /\ m = Len(bc.to_remove)
  BY <1>1, LenProperties
<1>3. PICK i \in 1 .. n, c \in Conns :
        /\ i = Last(bc.to_remove) /\ c = clients[i] /\ clients' = swap_remove(clients, i)
        /\ \A d \in Conns : sock'[d].state = IF d = c THEN "closed" ELSE sock[d].state
  BY <1>2, LastFailed, RemoveFailedFacts
<1>4. /\ bc.at = "write" /\ bc'.at = "write" /\ bc'.idx = bc.idx
      /\ bc.to_remove # <<>> /\ bc'.to_remove = Front(bc.to_remove)
  BY LastFailed, RemoveFailedFacts
<1>5. /\ m \in Nat \ {0} /\ bc.to_remove[m] = i
      /\ Len(bc'.to_remove) = m - 1
      /\ \A j \in 1 .. m - 1 : bc'.to_remove[j] = bc.to_remove[j]
  <2>1. PICK S, list : list \in Seq(S) /\ list = bc.to_remove /\ list # <<>>
    BY <1>1, <1>4
  <2>2. /\ Len(list) = m /\ m \in Nat \ {0}
        /\ Len(Front(list)) = Len(list) - 1
        /\ \A j \in 1 .. Len(list) - 1 : Front(list)[j] = list[j]
        /\ Last(list) = list[Len(list)]
    BY <1>2, <2>1, FrontProperties
  <2>3. QED
    BY <1>3, <1>4, <2>1, <2>2, Zenon
<1>6. /\ Len(clients') = n - 1
      /\ \A j \in 1 .. n - 1 : clients'[j] = IF j = i THEN clients[n] ELSE clients[j]
  <2>1. i \in 1 .. Len(clients) /\ clients' = swap_remove(clients, i)
    BY <1>2, <1>3
  <2>2. /\ Len(clients') = Len(clients) - 1
        /\ \A j \in 1 .. Len(clients') : clients'[j] = IF j = i THEN clients[Len(clients)] ELSE clients[j]
    BY <1>1, <2>1, SwapRemove
  <2>3. QED
    BY <1>2, <2>2
<1>7. /\ \A j \in 1 .. n : clients[j] \in Conns
      /\ \A j \in 1 .. m : bc.to_remove[j] \in Nat
      /\ \A j, k \in 1 .. n : clients[j] = clients[k] => j = k
      /\ \A d \in Conns : sock[d].state \in {"open", "failed"} <=> \E j \in 1 .. n : clients[j] = d
      /\ \A j \in 1 .. m : bc.to_remove[j] < bc.idx /\ bc.to_remove[j] =< n
      /\ \A j, k \in 1 .. m : j < k => bc.to_remove[j] < bc.to_remove[k]
      /\ \A j \in 1 .. n : sock[clients[j]].state = "failed" <=> \E k \in 1 .. m : bc.to_remove[k] = j
  <2>1. /\ \A j \in 1 .. n : clients[j] \in Conns
        /\ \A j \in 1 .. m : bc.to_remove[j] \in Nat
    BY <1>1, <1>2, ElementOfSeq
  <2>2. QED
    BY <1>2, <1>4, <2>1 DEF ListInv, Failing
<1>8. /\ \A j \in 1 .. n - 1 : j \in 1 .. n /\ j # n
      /\ \A j \in 1 .. m - 1 : j \in 1 .. m /\ j < m
      /\ n \in 1 .. n /\ m \in 1 .. m
      /\ \A j \in 1 .. n : j # n => j \in 1 .. n - 1
      /\ \A j \in 1 .. m : j # m => j \in 1 .. m - 1
  BY <1>2, <1>3, <1>5
\* The element that ends up at j was at some other place than i.
<1>9. \A j \in 1 .. n - 1 : clients'[j] # c
  BY <1>3, <1>6, <1>7, <1>8
<1>10. \A j, k \in 1 .. n - 1 : clients'[j] = clients'[k] => j = k
  BY <1>6, <1>7, <1>8
<1>11. \A d \in Conns : sock'[d].state \in {"open", "failed"} <=> \E j \in 1 .. n - 1 : clients'[j] = d
  <2>1. SUFFICES ASSUME NEW d \in Conns
                 PROVE  sock'[d].state \in {"open", "failed"} <=> \E j \in 1 .. n - 1 : clients'[j] = d
    OBVIOUS
  <2>2. CASE d = c
    BY <1>3, <1>9, <2>2
  <2>3. CASE d # c
    <3>1. (\E j \in 1 .. n - 1 : clients'[j] = d) => \E j \in 1 .. n : clients[j] = d
      BY <1>6, <1>8
    <3>2. ASSUME NEW j \in 1 .. n, clients[j] = d
          PROVE  \E k \in 1 .. n - 1 : clients'[k] = d
      <4>1. j # i
        BY <1>3, <2>3, <3>2
      <4>2. CASE j = n
        BY <1>6, <1>8, <3>2, <4>1, <4>2
      <4>3. CASE j # n
        BY <1>6, <1>8, <3>2, <4>1, <4>3
      <4>4. QED
        BY <4>2, <4>3
    <3>3. sock'[d].state = sock[d].state
      BY <1>3, <2>3
    <3>4. QED
      BY <1>7, <3>1, <3>2, <3>3
  <2>4. QED
    BY <2>2, <2>3
<1>12. \A j \in 1 .. m - 1 : bc.to_remove[j] < i /\ bc.to_remove[j] < bc.idx
  BY <1>5, <1>7, <1>8
<1>13. \A j \in 1 .. m - 1 : bc.to_remove[j] =< n - 1
  <2>1. \A j \in 1 .. m - 1 : bc.to_remove[j] \in Nat
    BY <1>7, <1>8
  <2>2. QED
    BY <1>2, <1>12, <2>1
<1>14. \A j \in 1 .. n - 1 :
         sock'[clients'[j]].state = "failed" <=> \E k \in 1 .. m - 1 : bc.to_remove[k] = j
  <2>1. SUFFICES ASSUME NEW j \in 1 .. n - 1
                 PROVE  sock'[clients'[j]].state = "failed" <=> \E k \in 1 .. m - 1 : bc.to_remove[k] = j
    OBVIOUS
  <2>2. clients'[j] \in Conns
    BY <1>6, <1>7, <1>8
  <2>3. sock'[clients'[j]].state = sock[clients'[j]].state
    BY <1>3, <1>9, <2>2
  <2>4. CASE j = i
    <3>1. ~ \E k \in 1 .. m : bc.to_remove[k] = n
      <4>1. SUFFICES ASSUME NEW k \in 1 .. m PROVE bc.to_remove[k] # n
        OBVIOUS
      <4>2. bc.to_remove[k] =< i /\ i < n
        <5>1. i < n
          BY <1>2, <2>4
        <5>2. CASE k = m
          BY <1>2, <1>5, <5>1, <5>2
        <5>3. CASE k # m
          <6>1. k \in 1 .. m - 1
            BY <1>8, <5>3
          <6>2. bc.to_remove[k] < i /\ bc.to_remove[k] \in Nat /\ i \in Nat
            BY <1>2, <1>7, <1>12, <6>1
          <6>3. QED
            BY <5>1, <6>2
        <5>4. QED
          BY <5>2, <5>3
      <4>3. QED
        BY <1>2, <1>7, <4>2
    <3>2. sock[clients[n]].state # "failed"
      BY <1>7, <1>8, <3>1
    <3>3. ~ \E k \in 1 .. m - 1 : bc.to_remove[k] = j
      <4>1. SUFFICES ASSUME NEW k \in 1 .. m - 1 PROVE bc.to_remove[k] # j
        OBVIOUS
      <4>2. bc.to_remove[k] < i /\ bc.to_remove[k] \in Nat /\ i \in Nat
        <5>1. k \in 1 .. m /\ bc.to_remove[k] < i
          BY <1>8, <1>12
        <5>2. QED
          BY <1>2, <1>7, <5>1
      <4>3. QED
        BY <2>4, <4>2
    <3>4. QED
      BY <1>6, <2>3, <2>4, <3>2, <3>3
  <2>5. CASE j # i
    <3>1. (\E k \in 1 .. m - 1 : bc.to_remove[k] = j) <=> \E k \in 1 .. m : bc.to_remove[k] = j
      BY <1>5, <1>8, <2>5
    <3>2. QED
      BY <1>6, <1>7, <1>8, <2>3, <2>5, <3>1
  <2>6. QED
    BY <2>4, <2>5
<1>15. \A j, k \in 1 .. m - 1 : j < k => bc.to_remove[j] < bc.to_remove[k]
  BY <1>7, <1>8
<1>16. QED
  <2>1. \A j \in 1 .. m - 1 : bc'.to_remove[j] < bc'.idx /\ bc'.to_remove[j] =< n - 1
    BY <1>4, <1>5, <1>12, <1>13
  <2>2. /\ \A j, k \in 1 .. m - 1 : j < k => bc'.to_remove[j] < bc'.to_remove[k]
        /\ \A j \in 1 .. n - 1 :
             sock'[clients'[j]].state = "failed" <=> \E k \in 1 .. m - 1 : bc'.to_remove[k] = j
    BY <1>5, <1>14, <1>15
  <2>3. QED
    BY <1>4, <1>5, <1>6, <1>10, <1>11, <2>1, <2>2 DEF ListInv, Failing

LEMMA ListAdmit ==
  ASSUME TypeInv, LockInv, ListInv, Admit
  PROVE  ListInv'
<1>1. clients \in Seq(Conns) /\ bc'.at = bc.at /\ bc.at # "write" /\ UNCHANGED bc
  BY AdmitFacts DEF TypeInv, LockInv
<1>2. PICK n \in Nat : n = Len(clients)
  BY <1>1, LenProperties
<1>3. /\ \A j \in 1 .. n : clients[j] \in Conns
      /\ \A j, k \in 1 .. n : clients[j] = clients[k] => j = k
      /\ \A d \in Conns : sock[d].state \in {"open", "failed"} <=> \E j \in 1 .. n : clients[j] = d
      /\ \A j, k \in 1 .. Len(bc.to_remove) : j < k => bc.to_remove[j] < bc.to_remove[k]
      /\ bc.at # "panicked" => bc.to_remove = <<>>
      /\ bc.at # "panicked" => \A j \in 1 .. n : sock[clients[j]].state = "failed" <=> Failing(j)
  BY <1>1, <1>2, ElementOfSeq DEF ListInv
<1>4. PICK c \in Conns :
        /\ sock[c].state = "accepted"
        /\ \A d \in Conns \ {c} : sock'[d] = sock[d]
        /\ \/ clients' = Append(clients, c) /\ sock'[c].state = "open"
           \/ clients' = clients /\ sock'[c].state = "closed"
  BY AdmitFacts
<1>5. \A j \in 1 .. n : clients[j] # c
  BY <1>3, <1>4
<1>6. ASSUME bc.at # "panicked"
      PROVE  \A j : ~Failing(j)
  <2>1. Len(bc.to_remove) = 0
    BY <1>3, <1>6, EmptySeq
  <2>2. QED
    BY <2>1 DEF Failing
<1>7. CASE clients' = clients /\ sock'[c].state = "closed"
  <2>1. /\ \A d \in Conns : sock'[d].state \in {"open", "failed"} <=> \E j \in 1 .. n : clients[j] = d
        /\ \A j \in 1 .. n : sock'[clients[j]] = sock[clients[j]]
    BY <1>3, <1>4, <1>5, <1>7
  <2>2. QED
    BY <1>1, <1>2, <1>3, <1>7, <2>1 DEF ListInv, Failing
<1>8. CASE clients' = Append(clients, c) /\ sock'[c].state = "open"
  <2>1. /\ Len(clients') = n + 1 /\ clients'[n + 1] = c
        /\ \A j \in 1 .. n : clients'[j] = clients[j]
    BY <1>1, <1>2, <1>8, AppendProperties
  <2>2. /\ \A j \in 1 .. n + 1 : j \in 1 .. n \/ j = n + 1
        /\ \A j \in 1 .. n : j \in 1 .. n + 1 /\ j # n + 1
        /\ n + 1 \in 1 .. n + 1
    BY <1>2
  <2>3. \A j, k \in 1 .. n + 1 : clients'[j] = clients'[k] => j = k
    BY <1>3, <1>5, <2>1, <2>2
  <2>4. \A d \in Conns : sock'[d].state \in {"open", "failed"} <=> \E j \in 1 .. n + 1 : clients'[j] = d
    BY <1>3, <1>4, <1>5, <1>8, <2>1, <2>2
  <2>5. ASSUME bc.at # "panicked"
        PROVE  \A j \in 1 .. n + 1 : sock'[clients'[j]].state = "failed" <=> Failing(j)
    <3>1. \A j \in 1 .. n : sock'[clients'[j]].state # "failed"
      BY <1>3, <1>4, <1>5, <1>6, <2>1, <2>5
    <3>2. sock'[clients'[n + 1]].state # "failed"
      BY <1>8, <2>1
    <3>3. QED
      BY <1>6, <2>2, <2>5, <3>1, <3>2
  <2>6. QED
    BY <1>1, <1>3, <2>1, <2>3, <2>4, <2>5 DEF ListInv, Failing
<1>9. QED
  BY <1>4, <1>7, <1>8

LEMMA ListDrain ==
  ASSUME TypeInv, LockInv, ListInv, Drain
  PROVE  ListInv'
<1>1. /\ clients \in Seq(Conns) /\ UNCHANGED bc /\ bc.at # "write" /\ clients' = <<>>
      /\ \A d \in Conns : sock'[d].state = IF d \in Range(clients) THEN "closed" ELSE sock[d].state
  BY DrainFacts DEF TypeInv, LockInv
<1>2. DOMAIN clients = 1 .. Len(clients)
  BY <1>1, LenProperties
<1>3. \A d \in Conns : d \in Range(clients) <=> \E j \in 1 .. Len(clients) : clients[j] = d
  BY <1>2 DEF Range
<1>4. \A d \in Conns : sock'[d].state \notin {"open", "failed"}
  BY <1>1, <1>3 DEF ListInv
<1>5. Len(clients') = 0 /\ 1 .. 0 = {}
  BY <1>1
<1>6. QED
  BY <1>1, <1>4, <1>5 DEF ListInv

LEMMA ListStep ==
  ASSUME TypeInv, LockInv, ListInv, Next
  PROVE  ListInv'
<1>1. clients \in Seq(Conns)
  BY DEF TypeInv
<1>2. CASE Accept \/ AcceptLoop \/ \E c \in Conns : Connect(c)
  <2>1. /\ clients' = clients /\ bc' = bc
        /\ \A d \in Conns : \/ sock'[d].state = sock[d].state
                            \/ sock[d].state = "absent" /\ sock'[d].state = "backlog"
                            \/ sock[d].state = "backlog" /\ sock'[d].state = "accepted"
    BY <1>2, ArrivalFacts
  <2>2. \A d \in Conns : /\ sock'[d].state \in {"open", "failed"} <=> sock[d].state \in {"open", "failed"}
                         /\ sock'[d].state = "failed" <=> sock[d].state = "failed"
    BY <2>1
  <2>3. QED
    BY <1>1, <2>1, <2>2, ListSame
<1>3. CASE Shutdown \/ \E k \in Kind : enqueue(k)
  <2>1. UNCHANGED <<clients, bc, sock>>
    BY <1>3, EnqueueFacts DEF Shutdown
  <2>2. QED
    BY <1>1, <2>1, ListSame
<1>4. CASE Fill("bbo", "bbo", "opt") \/ Fill("opt", "opt", "send")
  <2>1. /\ UNCHANGED <<clients, sock>> /\ bc'.to_remove = bc.to_remove /\ bc'.idx = bc.idx
        /\ bc.at \in {"bbo", "opt"} /\ bc'.at \in {"bbo", "opt", "send"}
    BY <1>4, FillFacts DEF Kind, Places
  <2>2. QED
    BY <1>1, <2>1, ListSame
<1>5. CASE BroadcastLoop \/ Report
  <2>1. /\ UNCHANGED <<clients, sock>> /\ bc'.to_remove = bc.to_remove /\ bc'.idx = bc.idx
        /\ bc.at \in {"top", "report"} /\ bc'.at \in {"bbo", "done", "top"}
    BY <1>5, LoopFacts, ReportFacts
  <2>2. QED
    BY <1>1, <2>1, ListSame
<1>6. CASE StartBroadcast
  <2>1. CASE bc'.at = "top" /\ bc'.to_remove = bc.to_remove /\ bc'.idx = bc.idx
    <3>1. UNCHANGED <<clients, sock>> /\ bc.at = "send"
      BY <1>6, StartFacts
    <3>2. QED
      BY <1>1, <2>1, <3>1, ListSame
  <2>2. CASE bc'.at = "write" /\ bc'.to_remove = <<>>
    <3>1. UNCHANGED <<clients, sock>> /\ bc.at = "send"
      BY <1>6, StartFacts
    <3>2. bc.to_remove = <<>> /\ Len(<<>>) = 0 /\ 1 .. 0 = {}
      BY <3>1 DEF ListInv
    <3>3. QED
      BY <2>2, <3>1, <3>2 DEF ListInv, Failing
  <2>3. QED
    BY <1>6, <2>1, <2>2, StartFacts
<1>7. CASE EndBroadcast
  <2>1. /\ UNCHANGED <<clients, sock>> /\ bc.at = "write" /\ bc'.at = "report"
        /\ bc.to_remove = <<>> /\ bc'.to_remove = <<>>
    BY <1>7, EndFacts
  <2>2. QED
    BY <2>1 DEF ListInv, Failing
<1>8. QED
  BY <1>2, <1>3, <1>4, <1>5, <1>6, <1>7, ListWrite, ListRemove, ListAdmit, ListDrain
  DEF Next, Acceptor, Broadcaster

-----------------------------------------------------------------------------
(* What a client has been sent since it joined. *)

\* What is left of a sequence behind its first j elements.
LEMMA SuffixProperties ==
  ASSUME NEW S, NEW s \in Seq(S), NEW n \in Nat, n = Len(s), NEW j \in Nat, j =< n,
         NEW new, new = SubSeq(s, j + 1, n)
  PROVE  new \in Seq(S) /\ Len(new) = n - j /\ \A i \in 1 .. n - j : new[i] = s[j + i]
<1>1. PICK from \in Int : from = j + 1
  OBVIOUS
<1>2. n \in Int /\ \A i \in from .. n : s[i] \in S
  BY <1>1, ElementOfSeq
<1>3. /\ SubSeq(s, from, n) \in Seq(S)
      /\ Len(SubSeq(s, from, n)) = IF from =< n THEN n - from + 1 ELSE 0
      /\ \A i \in 1 .. n - from + 1 : SubSeq(s, from, n)[i] = s[from + i - 1]
  BY <1>2, SubSeqProperties
<1>4. /\ (IF from =< n THEN n - from + 1 ELSE 0) = n - j /\ n - from + 1 = n - j
      /\ \A i \in 1 .. n - j : from + i - 1 = j + i
  BY <1>1
<1>5. new = SubSeq(s, from, n)
  BY <1>1
<1>6. QED
  BY <1>3, <1>4, <1>5

LEMMA SinceGrows ==
  ASSUME NEW S, NEW s \in Seq(S), NEW t \in Seq(S), NEW j \in Nat, j =< Len(s)
  PROVE  SubSeq(s \o t, j + 1, Len(s \o t)) = SubSeq(s, j + 1, Len(s)) \o t
<1>1. PICK n \in Nat, m \in Nat : n = Len(s) /\ m = Len(t)
  BY LenProperties
<1>2. PICK u \in Seq(S) : u = s \o t
  BY ConcatProperties
<1>3. /\ Len(u) = n + m
      /\ \A i \in 1 .. n + m : u[i] = IF i =< n THEN s[i] ELSE t[i - n]
  BY <1>1, <1>2, ConcatProperties
<1>4. PICK a : a = SubSeq(s, j + 1, n)
  OBVIOUS
<1>5. a \in Seq(S) /\ Len(a) = n - j /\ \A i \in 1 .. n - j : a[i] = s[j + i]
  BY <1>1, <1>4, SuffixProperties
<1>6. PICK b : b = SubSeq(u, j + 1, n + m)
  OBVIOUS
<1>7. b \in Seq(S) /\ Len(b) = n + m - j /\ \A i \in 1 .. n + m - j : b[i] = u[j + i]
  <2>1. n + m \in Nat /\ j =< n + m
    BY <1>1
  <2>2. QED
    BY <1>3, <1>6, <2>1, SuffixProperties
<1>8. PICK d \in Seq(S) : d = a \o t
  BY <1>5, ConcatProperties
<1>9. /\ Len(d) = (n - j) + m
      /\ \A i \in 1 .. (n - j) + m : d[i] = IF i =< n - j THEN a[i] ELSE t[i - (n - j)]
  <2>1. /\ Len(a \o t) = Len(a) + Len(t)
        /\ \A i \in 1 .. Len(a) + Len(t) : (a \o t)[i] = IF i =< Len(a) THEN a[i] ELSE t[i - Len(a)]
    BY <1>5, ConcatProperties
  <2>2. QED
    BY <1>1, <1>5, <1>8, <2>1
<1>10. \A i \in 1 .. n + m - j : b[i] = d[i]
  <2>1. SUFFICES ASSUME NEW i \in 1 .. n + m - j PROVE b[i] = d[i]
    OBVIOUS
  <2>2. j + i \in 1 .. n + m /\ i \in 1 .. (n - j) + m
    BY <1>1
  <2>3. b[i] = IF j + i =< n THEN s[j + i] ELSE t[(j + i) - n]
    BY <1>3, <1>7, <2>2
  <2>4. CASE i =< n - j
    <3>1. i \in 1 .. n - j /\ j + i =< n
      BY <1>1, <2>4
    <3>2. QED
      BY <1>5, <1>9, <2>2, <2>3, <3>1
  <2>5. CASE ~(i =< n - j)
    <3>1. ~(j + i =< n) /\ (j + i) - n = i - (n - j)
      BY <1>1, <2>5
    <3>2. QED
      BY <1>9, <2>2, <2>3, <2>5, <3>1
  <2>6. QED
    BY <2>4, <2>5
<1>11. Len(b) = Len(d) /\ \A i \in 1 .. Len(b) : b[i] = d[i]
  BY <1>1, <1>7, <1>9, <1>10
<1>12. b = d
  BY <1>7, <1>8, <1>11, SeqEqual
<1>13. QED
  BY <1>1, <1>2, <1>3, <1>4, <1>6, <1>8, <1>12

\* The steps that send nothing, and neither start nor end a broadcast.
LEMMA GapSame ==
  ASSUME GapInv, clients \in Seq(Conns), clients' = clients, log' = log,
         \A d \in Conns :
           /\ sock'[d].sent = sock[d].sent /\ sock'[d].joined = sock[d].joined
           /\ sock'[d].missed = sock[d].missed
           /\ sock'[d].state = "open" => sock[d].state = "open"
           /\ sock'[d].state \in {"absent", "backlog", "accepted"} =>
                sock[d].state \in {"absent", "backlog", "accepted"},
         bc'.idx = bc.idx,
         bc'.at = "write" <=> bc.at = "write",
         bc.at = "panicked" => bc'.at = "panicked",
         bc.at = "write" => Data' = Data
  PROVE  GapInv'
<1>1. \A i \in 1 .. Len(clients) : clients[i] \in Conns
  BY ElementOfSeq
<1>2. ASSUME NEW i \in 1 .. Len(clients), Complete(i)
      PROVE  Complete(i)'
  <2>1. PICK c \in Conns : c = clients[i] /\ c = clients'[i]
    BY <1>1
  <2>2. QED
    BY <1>2, <2>1 DEF Complete
<1>3. QED
  BY <1>2 DEF GapInv

LEMMA GapStart ==
  ASSUME TypeInv, GapInv, StartBroadcast
  PROVE  GapInv'
<1>1. /\ UNCHANGED <<clients, sock>> /\ bc.at = "send" /\ bc'.batch = bc.batch
      /\ \/ bc'.at = "top" /\ bc'.idx = bc.idx /\ UNCHANGED log
         \/ bc'.at = "write" /\ bc'.idx = 1 /\ log' = log \o Data
  BY StartFacts
<1>2. clients \in Seq(Conns) /\ log \in Seq(Frame) /\ Data \in Seq(Frame) /\ Data' = Data
  BY <1>1, DataType DEF TypeInv, Data
<1>3. CASE bc'.at = "top" /\ bc'.idx = bc.idx /\ UNCHANGED log
  BY <1>1, <1>2, <1>3, GapSame
<1>4. CASE bc'.at = "write" /\ bc'.idx = 1 /\ log' = log \o Data
  <2>1. Len(log') = Len(log) + Len(Data) /\ Len(log) \in Nat /\ Len(Data) \in Nat
    BY <1>2, <1>4, ConcatProperties, LenProperties
  <2>2. \A c \in Conns : sock[c].joined \in Nat /\ sock[c].joined =< Len(log)
    BY DEF GapInv, TypeInv, Socket
  <2>3. \A c \in Conns : sock'[c].joined =< Len(log')
    BY <1>1, <2>1, <2>2
  <2>4. ASSUME NEW i \in 1 .. Len(clients')
        PROVE  Complete(i)'
    <3>1. i \in 1 .. Len(clients) /\ Complete(i) /\ i >= 1
      BY <1>1, <2>4 DEF GapInv
    <3>2. PICK c \in Conns : c = clients[i]
      BY <1>2, <3>1, ElementOfSeq
    <3>3. SubSeq(log \o Data, sock[c].joined + 1, Len(log \o Data))
            = SubSeq(log, sock[c].joined + 1, Len(log)) \o Data
      BY <1>2, <2>2, SinceGrows
    <3>4. SubSeq(log', sock'[c].joined + 1, Len(log'))
            = SubSeq(log, sock[c].joined + 1, Len(log)) \o Data
      BY <1>1, <1>4, <3>3
    <3>5. sock[c].state = "open" /\ ~sock[c].missed =>
            sock[c].sent = SubSeq(log, sock[c].joined + 1, Len(log))
      BY <1>1, <3>1, <3>2 DEF Complete
    <3>6. c = clients'[i] /\ i >= bc'.idx /\ sock' = sock
      BY <1>1, <1>4, <3>1, <3>2
    <3>7. QED
      BY <1>2, <1>4, <3>4, <3>5, <3>6 DEF Complete
  <2>5. QED
    BY <1>1, <2>3, <2>4 DEF GapInv
<1>5. QED
  BY <1>1, <1>3, <1>4

LEMMA GapWrite ==
  ASSUME TypeInv, ListInv, GapInv, Write
  PROVE  GapInv'
<1>1. /\ clients \in Seq(Conns) /\ clients' = clients /\ log' = log /\ bc.at = "write"
      /\ Data' = Data
  BY WriteFacts DEF TypeInv, history, Data
<1>2. PICK i \in 1 .. Len(clients), c \in Conns : Wrote(i, c)
  BY WriteFacts
<1>3. /\ i = bc.idx /\ c = clients[i] /\ \A d \in Conns \ {c} : sock'[d] = sock[d]
      /\ sock'[c].joined = sock[c].joined
  BY <1>2 DEF Wrote
<1>4. \A j \in 1 .. Len(clients) : clients[j] \in Conns /\ (clients[j] = c => j = i)
  BY <1>1, <1>3, ElementOfSeq DEF ListInv
<1>5. \A d \in Conns : sock'[d].joined =< Len(log')
  BY <1>1, <1>3 DEF GapInv
<1>6. sock[c].state \in {"open", "failed"}
  BY <1>3 DEF ListInv
<1>7. \A d \in Conns : sock'[d].state \in {"absent", "backlog", "accepted"} => sock'[d].sent = <<>>
  <2>1. sock'[c].state = sock[c].state \/ sock'[c].state = "failed"
    BY <1>2 DEF Wrote
  <2>2. QED
    BY <1>3, <1>6, <2>1 DEF GapInv
<1>8. ASSUME bc'.at = "write", bc'.idx = i + 1, NEW j \in 1 .. Len(clients), j # i
      PROVE  Complete(j)'
  <2>1. PICK d \in Conns : d = clients[j] /\ d # c
    BY <1>4, <1>8
  <2>2. d = clients'[j] /\ sock'[d] = sock[d]
    BY <1>1, <1>3, <2>1
  <2>3. j >= i <=> j >= i + 1
    BY <1>8
  <2>4. Complete(j)
    BY <1>1 DEF GapInv
  <2>5. QED
    BY <1>1, <1>3, <1>8, <2>1, <2>2, <2>3, <2>4 DEF Complete
<1>9. ASSUME bc'.at = "write", bc'.idx = i + 1
      PROVE  Complete(i)'
  <2>1. Complete(i) /\ ~(i >= i + 1) /\ i >= i
    BY <1>1 DEF GapInv
  <2>2. CASE sock'[c].sent = sock[c].sent \o Data /\ sock'[c].missed = sock[c].missed
             /\ sock'[c].state = sock[c].state
    BY <1>1, <1>3, <1>9, <2>1, <2>2 DEF Complete
  <2>3. CASE sock'[c].missed \/ sock'[c].state = "failed"
    BY <1>1, <1>3, <2>3 DEF Complete
  <2>4. QED
    BY <1>2, <2>2, <2>3 DEF Wrote
<1>10. bc'.at = "panicked" \/ (bc'.at = "write" /\ bc'.idx = i + 1)
  BY <1>2 DEF Wrote
<1>11. QED
  BY <1>1, <1>5, <1>7, <1>8, <1>9, <1>10 DEF GapInv

LEMMA GapRemove ==
  ASSUME TypeInv, ListInv, GapInv, RemoveFailed
  PROVE  GapInv'
<1>1. clients \in Seq(Conns) /\ bc.idx \in Nat
  BY DEF TypeInv, Local
<1>2. PICK n \in Nat : n = Len(clients)
  BY <1>1, LenProperties
<1>3. PICK i \in 1 .. n, c \in Conns :
        /\ c = clients[i] /\ clients' = swap_remove(clients, i)
        /\ \A d \in Conns : /\ sock'[d].state = IF d = c THEN "closed" ELSE sock[d].state
                            /\ sock'[d].sent = sock[d].sent /\ sock'[d].joined = sock[d].joined
                            /\ sock'[d].missed = sock[d].missed
  BY <1>2, LastFailed, RemoveFailedFacts
<1>4. bc.at = "write" /\ bc'.at = "write" /\ bc'.idx = bc.idx /\ bc.idx > n /\ log' = log
  BY <1>2, LastFailed, RemoveFailedFacts DEF history
<1>5. /\ Len(clients') = n - 1
      /\ \A j \in 1 .. n - 1 : clients'[j] = IF j = i THEN clients[n] ELSE clients[j]
  <2>1. i \in 1 .. Len(clients) /\ clients' = swap_remove(clients, i)
    BY <1>2, <1>3
  <2>2. /\ Len(clients') = Len(clients) - 1
        /\ \A j \in 1 .. Len(clients') : clients'[j] = IF j = i THEN clients[Len(clients)] ELSE clients[j]
    BY <1>1, <2>1, SwapRemove
  <2>3. QED
    BY <1>2, <2>2
<1>6. ASSUME NEW j \in 1 .. n - 1
      PROVE  Complete(j)'
  <2>1. PICK k \in 1 .. n : clients'[j] = clients[k]
    <3>1. j \in 1 .. n /\ n \in 1 .. n
      BY <1>2, <1>6
    <3>2. QED
      BY <1>5, <1>6, <3>1
  <2>2. PICK d \in Conns : d = clients[k] /\ d = clients'[j]
    BY <1>1, <1>2, <2>1, ElementOfSeq
  <2>3. ~(k >= bc.idx) /\ ~(j >= bc.idx)
    BY <1>1, <1>2, <1>4, <1>6
  <2>4. Complete(k)
    BY <1>2, <1>4 DEF GapInv
  <2>5. sock'[d].state = "open" => sock[d].state = "open"
    BY <1>3
  <2>6. /\ sock'[d].sent = sock[d].sent /\ sock'[d].joined = sock[d].joined
        /\ sock'[d].missed = sock[d].missed
    BY <1>3
  <2>7. sock[d].state = "open" /\ ~sock[d].missed =>
          sock[d].sent = SubSeq(log, sock[d].joined + 1, Len(log))
    BY <2>2, <2>3, <2>4 DEF Complete
  <2>8. QED
    BY <1>4, <2>2, <2>3, <2>5, <2>6, <2>7 DEF Complete
<1>7. /\ \A d \in Conns : sock'[d].joined =< Len(log')
      /\ \A d \in Conns : sock'[d].state \in {"absent", "backlog", "accepted"} => sock'[d].sent = <<>>
  BY <1>3, <1>4 DEF GapInv
<1>8. QED
  BY <1>5, <1>6, <1>7 DEF GapInv

LEMMA GapEnd ==
  ASSUME TypeInv, GapInv, EndBroadcast
  PROVE  GapInv'
<1>1. /\ clients \in Seq(Conns) /\ Len(clients) \in Nat /\ bc.idx \in Nat
      /\ UNCHANGED <<clients, sock, log>> /\ bc.at = "write" /\ bc'.at = "report"
      /\ bc.idx > Len(clients)
  BY EndFacts, LenProperties DEF TypeInv, Local, history
<1>2. ASSUME NEW i \in 1 .. Len(clients), Complete(i)
      PROVE  Complete(i)'
  <2>1. ~(i >= bc.idx)
    BY <1>1
  <2>2. QED
    BY <1>1, <1>2, <2>1 DEF Complete
<1>3. QED
  BY <1>1, <1>2 DEF GapInv

LEMMA GapAdmit ==
  ASSUME TypeInv, LockInv, ListInv, GapInv, Admit
  PROVE  GapInv'
<1>1. /\ clients \in Seq(Conns) /\ log \in Seq(Frame) /\ Len(log) \in Nat
      /\ UNCHANGED <<bc, log>> /\ bc.at # "write"
  BY AdmitFacts, LenProperties DEF TypeInv, LockInv, history
<1>2. PICK n \in Nat : n = Len(clients)
  BY <1>1, LenProperties
<1>3. PICK c \in Conns :
        /\ sock[c].state = "accepted"
        /\ sock'[c].sent = sock[c].sent /\ sock'[c].missed = sock[c].missed
        /\ \A d \in Conns \ {c} : sock'[d] = sock[d]
        /\ \/ /\ clients' = Append(clients, c)
              /\ sock'[c].state = "open" /\ sock'[c].joined = Len(log)
           \/ /\ sock'[c].state = "closed" /\ sock'[c].joined = sock[c].joined
              /\ UNCHANGED clients
  BY AdmitFacts
<1>4. sock[c].sent = <<>>
  BY <1>3 DEF GapInv
<1>5. \A j \in 1 .. n : clients[j] \in Conns /\ clients[j] # c
  BY <1>1, <1>2, <1>3, ElementOfSeq DEF ListInv
<1>6. /\ \A d \in Conns : sock'[d].joined =< Len(log')
      /\ \A d \in Conns : sock'[d].state \in {"absent", "backlog", "accepted"} => sock'[d].sent = <<>>
  <2>1. sock'[c].joined = Len(log) \/ sock'[c].joined = sock[c].joined
    BY <1>3
  <2>2. sock'[c].joined =< Len(log')
    BY <1>1, <2>1 DEF GapInv
  <2>3. QED
    BY <1>1, <1>3, <1>4, <2>2 DEF GapInv
<1>7. ASSUME NEW j \in 1 .. n, Complete(j), clients'[j] = clients[j]
      PROVE  Complete(j)'
  <2>1. PICK d \in Conns : d = clients[j] /\ d = clients'[j] /\ sock'[d] = sock[d]
    BY <1>3, <1>5, <1>7
  <2>2. QED
    BY <1>1, <1>7, <2>1 DEF Complete
<1>8. CASE UNCHANGED clients
  BY <1>1, <1>2, <1>6, <1>7, <1>8 DEF GapInv
<1>9. CASE /\ clients' = Append(clients, c)
           /\ sock'[c].state = "open" /\ sock'[c].joined = Len(log)
  <2>1. /\ Len(clients') = n + 1 /\ clients'[n + 1] = c
        /\ \A j \in 1 .. n : clients'[j] = clients[j]
    BY <1>1, <1>2, <1>9, AppendProperties
  <2>2. SubSeq(log, Len(log) + 1, Len(log)) = <<>>
    <3>1. Len(log) + 1 \in Int /\ Len(log) \in Int /\ Len(log) < Len(log) + 1
      BY <1>1
    <3>2. QED
      BY <3>1, SubSeqEmpty
  <2>3. Complete(n + 1)'
    <3>1. sock'[c].sent = <<>> /\ SubSeq(log', sock'[c].joined + 1, Len(log')) = <<>>
      BY <1>1, <1>3, <1>4, <1>9, <2>2
    <3>2. QED
      BY <1>1, <2>1, <3>1 DEF Complete
  <2>4. \A j \in 1 .. n + 1 : j \in 1 .. n \/ j = n + 1
    BY <1>2
  <2>5. ASSUME bc.at # "panicked", NEW j \in 1 .. Len(clients')
        PROVE  Complete(j)'
    <3>1. CASE j = n + 1
      BY <2>3, <3>1
    <3>2. CASE j \in 1 .. n
      <4>1. Complete(j)
        BY <1>2, <2>5, <3>2 DEF GapInv
      <4>2. QED
        BY <1>7, <2>1, <3>2, <4>1
    <3>3. QED
      BY <2>1, <2>4, <3>1, <3>2
  <2>6. QED
    BY <1>1, <1>6, <2>5 DEF GapInv
<1>10. QED
  BY <1>3, <1>8, <1>9

LEMMA GapStep ==
  ASSUME TypeInv, LockInv, ListInv, GapInv, Next
  PROVE  GapInv'
<1>1. clients \in Seq(Conns)
  BY DEF TypeInv
<1>2. CASE Accept \/ AcceptLoop \/ \E c \in Conns : Connect(c)
  <2>1. /\ clients' = clients /\ bc' = bc /\ log' = log
        /\ \A d \in Conns :
             /\ \/ sock'[d].state = sock[d].state
                \/ sock[d].state = "absent" /\ sock'[d].state = "backlog"
                \/ sock[d].state = "backlog" /\ sock'[d].state = "accepted"
             /\ sock'[d].sent = sock[d].sent /\ sock'[d].joined = sock[d].joined
             /\ sock'[d].missed = sock[d].missed
    BY <1>2, ArrivalFacts DEF history
  <2>2. \A d \in Conns :
           /\ sock'[d].sent = sock[d].sent /\ sock'[d].joined = sock[d].joined
           /\ sock'[d].missed = sock[d].missed
           /\ sock'[d].state = "open" => sock[d].state = "open"
           /\ sock'[d].state \in {"absent", "backlog", "accepted"} =>
                sock[d].state \in {"absent", "backlog", "accepted"}
    BY <2>1
  <2>3. Data' = Data
    BY <2>1 DEF Data
  <2>4. QED
    BY <1>1, <2>1, <2>2, <2>3, GapSame
<1>3. CASE Shutdown \/ \E k \in Kind : enqueue(k)
  <2>1. UNCHANGED <<clients, bc, sock, log>> /\ Data' = Data
    BY <1>3, EnqueueFacts DEF Shutdown, history, Data
  <2>2. QED
    BY <1>1, <2>1, GapSame
<1>4. CASE Fill("bbo", "bbo", "opt") \/ Fill("opt", "opt", "send")
  <2>1. /\ UNCHANGED <<clients, sock, log>> /\ bc'.idx = bc.idx
        /\ bc.at \in {"bbo", "opt"} /\ bc'.at \in {"bbo", "opt", "send"}
    BY <1>4, FillFacts DEF Kind, Places, history
  <2>2. QED
    BY <1>1, <2>1, GapSame
<1>5. CASE BroadcastLoop \/ Report
  <2>1. /\ UNCHANGED <<clients, sock, log>> /\ bc'.idx = bc.idx
        /\ bc.at \in {"top", "report"} /\ bc'.at \in {"bbo", "done", "top"}
    BY <1>5, LoopFacts, ReportFacts DEF history
  <2>2. QED
    BY <1>1, <2>1, GapSame
<1>6. CASE Drain
  <2>1. /\ clients' = <<>> /\ log' = log
        /\ \A d \in Conns : /\ sock'[d].state = sock[d].state \/ sock'[d].state = "closed"
                            /\ sock'[d].sent = sock[d].sent /\ sock'[d].joined = sock[d].joined
    BY <1>6, DrainFacts DEF history
  <2>2. Len(clients') = 0 /\ 1 .. 0 = {}
    BY <2>1
  <2>3. QED
    BY <2>1, <2>2 DEF GapInv
<1>7. QED
  BY <1>2, <1>3, <1>4, <1>5, <1>6, GapStart, GapWrite, GapRemove, GapEnd, GapAdmit
  DEF Next, Acceptor, Broadcaster

-----------------------------------------------------------------------------
(* The order of the frames. *)

LEMMA ConcatOrder ==
  ASSUME NEW s \in Seq(Frame), NEW t \in Seq(Frame), NEW u \in Seq(Frame)
  PROVE  /\ Rising(s) /\ Rising(t) /\ Before(s, t) => Rising(s \o t)
         /\ Before(s, u) /\ Before(t, u) => Before(s \o t, u)
<1>1. PICK n \in Nat, m \in Nat, l \in Nat : n = Len(s) /\ m = Len(t) /\ l = Len(u)
  BY LenProperties
<1>2. PICK d \in Seq(Frame) : d = s \o t
  BY ConcatProperties
<1>3. /\ Len(d) = n + m
      /\ \A i \in 1 .. n + m : d[i] = IF i =< n THEN s[i] ELSE t[i - n]
  BY <1>1, <1>2, ConcatProperties
<1>4. \A i \in 1 .. n + m : \/ i \in 1 .. n /\ d[i] = s[i]
                            \/ i - n \in 1 .. m /\ ~(i =< n) /\ d[i] = t[i - n]
  BY <1>1, <1>3
<1>5. ASSUME Rising(s), Rising(t), Before(s, t)
      PROVE  Rising(d)
  <2>1. SUFFICES ASSUME NEW i \in 1 .. n + m, NEW j \in 1 .. n + m, i < j, d[i].kind = d[j].kind
                 PROVE  d[i].n < d[j].n
    BY <1>3 DEF Rising
  <2>2. /\ \A a, b \in 1 .. n : a < b /\ s[a].kind = s[b].kind => s[a].n < s[b].n
        /\ \A a, b \in 1 .. m : a < b /\ t[a].kind = t[b].kind => t[a].n < t[b].n
        /\ \A a \in 1 .. n, b \in 1 .. m : s[a].kind = t[b].kind => s[a].n < t[b].n
    BY <1>1, <1>5 DEF Rising, Before
  <2>3. CASE j \in 1 .. n /\ d[j] = s[j]
    <3>1. i \in 1 .. n /\ d[i] = s[i]
      BY <1>1, <1>4, <2>1, <2>3
    <3>2. QED
      BY <2>1, <2>2, <2>3, <3>1
  <2>4. CASE j - n \in 1 .. m /\ d[j] = t[j - n]
    <3>1. CASE i \in 1 .. n /\ d[i] = s[i]
      BY <2>1, <2>2, <2>4, <3>1
    <3>2. CASE i - n \in 1 .. m /\ d[i] = t[i - n]
      <4>1. i - n < j - n
        BY <1>1, <2>1
      <4>2. QED
        BY <2>1, <2>2, <2>4, <3>2, <4>1
    <3>3. QED
      BY <1>4, <3>1, <3>2
  <2>5. QED
    BY <1>4, <2>3, <2>4
<1>6. ASSUME Before(s, u), Before(t, u)
      PROVE  Before(d, u)
  <2>1. SUFFICES ASSUME NEW i \in 1 .. n + m, NEW j \in 1 .. l, d[i].kind = u[j].kind
                 PROVE  d[i].n < u[j].n
    BY <1>1, <1>3 DEF Before
  <2>2. /\ \A a \in 1 .. n, b \in 1 .. l : s[a].kind = u[b].kind => s[a].n < u[b].n
        /\ \A a \in 1 .. m, b \in 1 .. l : t[a].kind = u[b].kind => t[a].n < u[b].n
    BY <1>1, <1>6 DEF Before
  <2>3. QED
    BY <1>4, <2>1, <2>2
<1>7. QED
  BY <1>2, <1>5, <1>6

LEMMA AppendOrder ==
  ASSUME NEW s \in Seq(Frame), NEW f \in Frame, NEW u \in Seq(Frame)
  PROVE  /\ Rising(s) /\ (\A i \in 1 .. Len(s) : s[i].kind = f.kind => s[i].n < f.n)
              => Rising(Append(s, f))
         /\ Before(s, u) /\ (\A i \in 1 .. Len(u) : u[i].kind = f.kind => f.n < u[i].n)
              => Before(Append(s, f), u)
         /\ Before(u, s) /\ (\A i \in 1 .. Len(u) : u[i].kind = f.kind => u[i].n < f.n)
              => Before(u, Append(s, f))
<1>1. PICK n \in Nat, l \in Nat : n = Len(s) /\ l = Len(u)
  BY LenProperties
<1>2. PICK d \in Seq(Frame) : d = Append(s, f)
  BY AppendProperties
<1>3. Len(d) = n + 1 /\ d[n + 1] = f /\ \A i \in 1 .. n : d[i] = s[i]
  BY <1>1, <1>2, AppendProperties
<1>4. \A i \in 1 .. n + 1 : i \in 1 .. n \/ i = n + 1
  BY <1>1
<1>5. ASSUME Rising(s), \A i \in 1 .. n : s[i].kind = f.kind => s[i].n < f.n
      PROVE  Rising(d)
  <2>1. SUFFICES ASSUME NEW i \in 1 .. n + 1, NEW j \in 1 .. n + 1, i < j, d[i].kind = d[j].kind
                 PROVE  d[i].n < d[j].n
    BY <1>3 DEF Rising
  <2>2. i \in 1 .. n
    BY <1>1, <2>1
  <2>3. CASE j = n + 1
    BY <1>3, <1>5, <2>1, <2>2, <2>3
  <2>4. CASE j \in 1 .. n
    BY <1>1, <1>3, <1>5, <2>1, <2>2, <2>4 DEF Rising
  <2>5. QED
    BY <1>4, <2>3, <2>4
<1>6. ASSUME Before(s, u), \A i \in 1 .. l : u[i].kind = f.kind => f.n < u[i].n
      PROVE  Before(d, u)
  BY <1>1, <1>3, <1>4, <1>6 DEF Before
<1>7. ASSUME Before(u, s), \A i \in 1 .. l : u[i].kind = f.kind => u[i].n < f.n
      PROVE  Before(u, d)
  BY <1>1, <1>3, <1>4, <1>7 DEF Before
<1>8. QED
  BY <1>1, <1>2, <1>5, <1>6, <1>7

LEMMA TailOrder ==
  ASSUME NEW s \in Seq(Frame), s # <<>>, NEW u \in Seq(Frame)
  PROVE  /\ Rising(s) => /\ Rising(Tail(s))
                         /\ \A i \in 1 .. Len(Tail(s)) :
                              Tail(s)[i].kind = Head(s).kind => Head(s).n < Tail(s)[i].n
         /\ Before(u, s) => /\ Before(u, Tail(s))
                            /\ \A i \in 1 .. Len(u) : u[i].kind = Head(s).kind => u[i].n < Head(s).n
<1>1. PICK n \in Nat : n = Len(s)
  BY LenProperties
<1>2. PICK t \in Seq(Frame), h \in Frame : t = Tail(s) /\ h = Head(s)
  BY HeadTailProperties
<1>3. Len(t) = n - 1 /\ n # 0
  BY <1>1, <1>2, HeadTailProperties, EmptySeq
<1>4. \A i \in 1 .. n - 1 : t[i] = s[i + 1]
  BY <1>1, <1>2, HeadTailProperties
<1>5. h = s[1]
  BY <1>2
<1>6. /\ 1 \in 1 .. n
      /\ \A i \in 1 .. n - 1 : i + 1 \in 1 .. n /\ 1 < i + 1
      /\ \A i, j \in 1 .. n - 1 : i < j => i + 1 < j + 1
  BY <1>1, <1>3
<1>7. ASSUME Rising(s)
      PROVE  Rising(t) /\ \A i \in 1 .. n - 1 : t[i].kind = h.kind => h.n < t[i].n
  BY <1>1, <1>3, <1>4, <1>5, <1>6, <1>7 DEF Rising
<1>8. ASSUME Before(u, s)
      PROVE  Before(u, t) /\ \A i \in 1 .. Len(u) : u[i].kind = h.kind => u[i].n < h.n
  BY <1>1, <1>3, <1>4, <1>5, <1>6, <1>8 DEF Before
<1>9. QED
  BY <1>2, <1>3, <1>7, <1>8

\* What is sent of a batch, as a whole or cut short.
LEMMA DataOrder ==
  ASSUME TypeInv, KindInv, PipeInv, NEW part \in Seq(Frame), Len(part) =< Len(Data),
         \A i \in 1 .. Len(part) : part[i].kind = Data[i].kind /\ part[i].n = Data[i].n
  PROVE  /\ Rising(part)
         /\ \A i \in 1 .. Len(part) : part[i].n =< produced[part[i].kind]
         /\ \A k \in Kind : Before(part, queue[k])
         /\ \A s \in Seq(Frame) : (\A k \in Kind : Before(s, bc.batch[k])) => Before(s, part)
<1>1. PICK b \in Seq(Frame), o \in Seq(Frame), data \in Seq(Frame) :
        b = bc.batch["bbo"] /\ o = bc.batch["opt"] /\ data = Data
  BY DataType DEF TypeInv, Local, Kind
<1>2. PICK n \in Nat, m \in Nat, l \in Nat : n = Len(b) /\ m = Len(o) /\ l = Len(part)
  BY LenProperties
<1>3. data = b \o o
  BY <1>1 DEF Data
<1>4. /\ Len(data) = n + m
      /\ \A i \in 1 .. n + m : data[i] = IF i =< n THEN b[i] ELSE o[i - n]
  BY <1>2, <1>3, ConcatProperties
<1>5. /\ \A i \in 1 .. n : b[i].kind = "bbo" /\ b[i].n =< produced["bbo"]
      /\ \A i \in 1 .. m : o[i].kind = "opt" /\ o[i].n =< produced["opt"]
      /\ Rising(b) /\ Rising(o) /\ Before(b, queue["bbo"]) /\ Before(o, queue["opt"])
  BY <1>1, <1>2 DEF KindInv, PipeInv, Kind
<1>6. \A k \in Kind : \A i \in 1 .. Len(queue[k]) : queue[k][i].kind = k
  BY DEF KindInv
<1>7. \A i \in 1 .. l : /\ part[i].kind = data[i].kind /\ part[i].n = data[i].n
                        /\ i \in 1 .. n + m
  <2>1. l =< n + m /\ \A i \in 1 .. l : part[i].kind = data[i].kind /\ part[i].n = data[i].n
    BY <1>1, <1>2, <1>4
  <2>2. \A i \in 1 .. l : i \in 1 .. n + m
    BY <1>2, <2>1
  <2>3. QED
    BY <2>1, <2>2
<1>8. \A i \in 1 .. l :
        \/ i \in 1 .. n /\ part[i].kind = "bbo" /\ part[i].n = b[i].n
        \/ i - n \in 1 .. m /\ ~(i =< n) /\ part[i].kind = "opt" /\ part[i].n = o[i - n].n
  <2>1. SUFFICES ASSUME NEW i \in 1 .. l
                 PROVE  \/ i \in 1 .. n /\ part[i].kind = "bbo" /\ part[i].n = b[i].n
                        \/ /\ i - n \in 1 .. m /\ ~(i =< n)
                           /\ part[i].kind = "opt" /\ part[i].n = o[i - n].n
    OBVIOUS
  <2>2. CASE i =< n
    <3>1. i \in 1 .. n /\ data[i] = b[i]
      BY <1>2, <1>4, <1>7, <2>2
    <3>2. QED
      BY <1>5, <1>7, <3>1
  <2>3. CASE ~(i =< n)
    <3>1. i - n \in 1 .. m /\ data[i] = o[i - n]
      BY <1>2, <1>4, <1>7, <2>3
    <3>2. QED
      BY <1>5, <1>7, <2>3, <3>1
  <2>4. QED
    BY <2>2, <2>3
<1>9. Rising(part)
  <2>1. SUFFICES ASSUME NEW i \in 1 .. l, NEW j \in 1 .. l, i < j, part[i].kind = part[j].kind
                 PROVE  part[i].n < part[j].n
    BY <1>2 DEF Rising
  <2>2. /\ \A x, y \in 1 .. n : x < y /\ b[x].kind = b[y].kind => b[x].n < b[y].n
        /\ \A x, y \in 1 .. m : x < y /\ o[x].kind = o[y].kind => o[x].n < o[y].n
    BY <1>2, <1>5 DEF Rising
  <2>3. CASE i \in 1 .. n /\ part[i].kind = "bbo" /\ part[i].n = b[i].n
    <3>1. j \in 1 .. n /\ part[j].n = b[j].n
      BY <1>8, <2>1, <2>3
    <3>2. QED
      BY <1>5, <2>1, <2>2, <2>3, <3>1
  <2>4. CASE i - n \in 1 .. m /\ part[i].kind = "opt" /\ part[i].n = o[i - n].n
    <3>1. j - n \in 1 .. m /\ part[j].n = o[j - n].n
      BY <1>8, <2>1, <2>4
    <3>2. i - n < j - n
      BY <1>2, <2>1
    <3>3. QED
      BY <1>5, <2>1, <2>2, <2>4, <3>1, <3>2
  <2>5. QED
    BY <1>8, <2>3, <2>4
<1>10. \A i \in 1 .. l : part[i].n =< produced[part[i].kind]
  BY <1>5, <1>8
<1>11. ASSUME NEW k \in Kind, NEW i \in 1 .. l, NEW j \in 1 .. Len(queue[k]),
              part[i].kind = queue[k][j].kind
       PROVE  part[i].n < queue[k][j].n
  <2>1. part[i].kind = k
    BY <1>6, <1>11
  <2>2. CASE k = "bbo"
    <3>1. PICK x \in 1 .. n : part[i].n = b[x].n
      BY <1>8, <2>1, <2>2
    <3>2. b[x].kind = k /\ queue[k][j].kind = k
      BY <1>5, <1>6, <2>1, <2>2
    <3>3. QED
      BY <1>2, <1>5, <2>2, <3>1, <3>2 DEF Before
  <2>3. CASE k = "opt"
    <3>1. PICK x \in 1 .. m : part[i].n = o[x].n
      BY <1>8, <2>1, <2>3
    <3>2. o[x].kind = k /\ queue[k][j].kind = k
      BY <1>5, <1>6, <2>1, <2>3
    <3>3. QED
      BY <1>2, <1>5, <2>3, <3>1, <3>2 DEF Before
  <2>4. QED
    BY <2>2, <2>3 DEF Kind
<1>12. ASSUME NEW s \in Seq(Frame), Before(s, b), Before(s, o)
       PROVE  Before(s, part)
  <2>1. SUFFICES ASSUME NEW i \in 1 .. Len(s), NEW j \in 1 .. l, s[i].kind = part[j].kind
                 PROVE  s[i].n < part[j].n
    BY <1>2 DEF Before
  <2>2. CASE j \in 1 .. n /\ part[j].kind = "bbo" /\ part[j].n = b[j].n
    <3>1. b[j].kind = s[i].kind
      BY <1>5, <2>1, <2>2
    <3>2. s[i].n < b[j].n
      BY <1>2, <1>12, <2>1, <2>2, <3>1 DEF Before
    <3>3. QED
      BY <2>2, <3>2
  <2>3. CASE j - n \in 1 .. m /\ part[j].kind = "opt" /\ part[j].n = o[j - n].n
    <3>1. o[j - n].kind = s[i].kind
      BY <1>5, <2>1, <2>3
    <3>2. s[i].n < o[j - n].n
      BY <1>2, <1>12, <2>1, <2>3, <3>1, Zenon DEF Before
    <3>3. QED
      BY <2>3, <3>2
  <2>4. QED
    BY <1>8, <2>2, <2>3
<1>13. \A k \in Kind : Before(part, queue[k])
  BY <1>2, <1>11 DEF Before
<1>14. \A s \in Seq(Frame) : (\A k \in Kind : Before(s, bc.batch[k])) => Before(s, part)
  BY <1>1, <1>12 DEF Kind
<1>15. QED
  BY <1>2, <1>9, <1>10, <1>13, <1>14

\* As the queue of kind k, q is in order and behind all that has left the queue;
\* none of its frames was produced after p.
Queued(k, q, p) ==
  /\ Rising(q) /\ Before(bc.batch[k], q)
  /\ \A i \in 1 .. Len(q) : q[i].kind = k /\ q[i].n =< p
  /\ \A c \in Conns : Before(sock[c].sent, q)

\* A frame that enters a queue is newer than all there are of its kind.
LEMMA QueueOrder ==
  ASSUME TypeInv, KindInv, PipeInv, OrderInv, NEW k \in Kind, NEW f \in Frame,
         f.kind = k, f.n = produced[k] + 1,
         NEW q, q = Append(queue[k], f)
  PROVE  Queued(k, q, produced[k] + 1)
<1>1. PICK s \in Seq(Frame), b \in Seq(Frame), p \in Nat :
        s = queue[k] /\ b = bc.batch[k] /\ p = produced[k]
  BY DEF TypeInv, Local
<1>2. PICK n \in Nat : n = Len(s)
  BY LenProperties
<1>3. /\ \A i \in 1 .. n : s[i] \in Frame /\ s[i].kind = k /\ s[i].n =< p
      /\ \A i \in 1 .. Len(b) : b[i] \in Frame /\ b[i].n =< p
      /\ Rising(s) /\ Before(b, s)
  <2>1. (\A i \in 1 .. n : s[i] \in Frame) /\ \A i \in 1 .. Len(b) : b[i] \in Frame
    BY <1>2, ElementOfSeq
  <2>2. QED
    BY <1>1, <1>2, <2>1 DEF KindInv, PipeInv
<1>4. /\ \A i \in 1 .. n : s[i].n < f.n
      /\ \A i \in 1 .. Len(b) : b[i].n < f.n
  <2>1. f.n = p + 1 /\ \A g \in Frame : g.n \in Nat
    BY <1>1 DEF Frame
  <2>2. QED
    BY <1>3, <2>1
<1>5. Rising(q) /\ Before(b, q)
  BY <1>1, <1>2, <1>3, <1>4, AppendOrder
<1>6. \A i \in 1 .. Len(q) : q[i].kind = k /\ q[i].n =< p + 1
  <2>1. Len(q) = n + 1 /\ q[n + 1] = f /\ \A i \in 1 .. n : q[i] = s[i]
    BY <1>1, <1>2, AppendProperties
  <2>2. \A i \in 1 .. n + 1 : i \in 1 .. n \/ i = n + 1
    BY <1>2
  <2>3. \A g \in Frame : g.n =< p => g.n =< p + 1
    BY DEF Frame
  <2>4. f.n =< p + 1
    BY <1>1
  <2>5. QED
    BY <1>3, <2>1, <2>2, <2>3, <2>4
<1>7. ASSUME NEW c \in Conns
      PROVE  Before(sock[c].sent, q)
  <2>1. PICK t \in Seq(Frame) : t = sock[c].sent
    BY DEF TypeInv, Socket
  <2>2. Before(t, s)
    BY <1>1, <2>1 DEF OrderInv
  <2>3. \A i \in 1 .. Len(t) : t[i] \in Frame /\ t[i].n =< produced[t[i].kind]
    BY <2>1, ElementOfSeq DEF OrderInv
  <2>4. \A i \in 1 .. Len(t) : t[i].kind = f.kind => t[i].n < f.n
    <3>1. f.n = p + 1 /\ \A g \in Frame : g.n \in Nat
      BY <1>1 DEF Frame
    <3>2. QED
      BY <1>1, <2>3, <3>1
  <2>5. QED
    BY <1>1, <2>1, <2>2, <2>4, AppendOrder
<1>8. QED
  BY <1>1, <1>5, <1>6, <1>7 DEF Queued

\* Frames of kind k, none produced after p.
Aged(s, k, p) == \A i \in 1 .. Len(s) : s[i].kind = k /\ s[i].n =< p

\* The oldest frame of queue s moves to the end of batch a.
LEMMA BatchOrder ==
  ASSUME NEW k \in Kind, NEW p \in Nat, NEW s \in Seq(Frame), NEW a \in Seq(Frame), s # <<>>,
         Aged(s, k, p), Aged(a, k, p),
         Rising(s), Rising(a), Before(a, s)
  PROVE  \A t, b \in Seq(Frame) : t = Tail(s) /\ b = Append(a, Head(s)) =>
         /\ Rising(t) /\ Rising(b) /\ Before(b, t)
         /\ Aged(t, k, p) /\ Aged(b, k, p)
         /\ \A u \in Seq(Frame) : Before(u, s) =>
              Before(u, t) /\ (Before(u, a) => Before(u, b))
<1> SUFFICES ASSUME NEW t \in Seq(Frame), NEW b \in Seq(Frame), t = Tail(s), b = Append(a, Head(s))
             PROVE  /\ Rising(t) /\ Rising(b) /\ Before(b, t)
                    /\ Aged(t, k, p) /\ Aged(b, k, p)
                    /\ \A u \in Seq(Frame) : Before(u, s) =>
                         Before(u, t) /\ (Before(u, a) => Before(u, b))
  OBVIOUS
<1>1. PICK n \in Nat, m \in Nat : n = Len(s) /\ m = Len(a)
  BY LenProperties
<1>2. PICK h \in Frame : h = Head(s)
  BY HeadTailProperties
<1>3. /\ Len(t) = n - 1 /\ h = s[1]
      /\ \A i \in 1 .. n - 1 : t[i] = s[i + 1]
  BY <1>1, <1>2, HeadTailProperties
<1>4. n \in Nat \ {0}
  BY <1>1, EmptySeq
<1>5. /\ \A i \in 1 .. n - 1 : i + 1 \in 1 .. n
      /\ 1 \in 1 .. n
      /\ \A i \in 1 .. m + 1 : i \in 1 .. m \/ i = m + 1
  BY <1>1, <1>4
<1>6. Aged(t, k, p)
  BY <1>1, <1>3, <1>5 DEF Aged
<1>7. Aged(b, k, p)
  <2>1. Len(b) = m + 1 /\ b[m + 1] = h /\ \A i \in 1 .. m : b[i] = a[i]
    BY <1>1, <1>2, AppendProperties
  <2>2. QED
    BY <1>1, <1>3, <1>5, <2>1 DEF Aged
<1>8. /\ Rising(t) /\ \A i \in 1 .. Len(t) : t[i].kind = h.kind => h.n < t[i].n
      /\ Before(a, t) /\ \A i \in 1 .. Len(a) : a[i].kind = h.kind => a[i].n < h.n
  BY <1>2, TailOrder
<1>9. Rising(b) /\ Before(b, t)
  <2>1. PICK tt \in Seq(Frame) : tt = t
    OBVIOUS
  <2>2. Rising(a) /\ (\A i \in 1 .. Len(a) : a[i].kind = h.kind => a[i].n < h.n)
    BY <1>8
  <2>3. Before(a, tt) /\ (\A i \in 1 .. Len(tt) : tt[i].kind = h.kind => h.n < tt[i].n)
    BY <1>8, <2>1
  <2>4. Rising(Append(a, h))
    BY <2>2, AppendOrder
  <2>5. Before(Append(a, h), tt)
    BY <2>3, AppendOrder
  <2>6. QED
    BY <1>2, <2>1, <2>4, <2>5
<1>10. ASSUME NEW u \in Seq(Frame), Before(u, s)
       PROVE  Before(u, t) /\ (Before(u, a) => Before(u, b))
  <2>1. Before(u, t) /\ \A i \in 1 .. Len(u) : u[i].kind = h.kind => u[i].n < h.n
    BY <1>2, <1>10, TailOrder
  <2>2. ASSUME Before(u, a)
        PROVE  Before(u, Append(a, h))
    BY <2>1, <2>2, AppendOrder
  <2>3. QED
    BY <1>2, <2>1, <2>2
<1>11. QED
  BY <1>6, <1>7, <1>8, <1>9, <1>10

\* The steps that neither fill a queue nor a batch, nor send anything.
LEMMA OrderSame ==
  ASSUME KindInv, PipeInv, OrderInv, queue' = queue, produced' = produced,
         \A d \in Conns : sock'[d].sent = sock[d].sent,
         \/ bc'.batch = bc.batch /\ \A d \in Conns : Awaits(d)' => Awaits(d)
         \/ \A k \in Kind : bc'.batch[k] = <<>>
  PROVE  KindInv' /\ PipeInv' /\ OrderInv'
<1>1. CASE bc'.batch = bc.batch /\ \A d \in Conns : Awaits(d)' => Awaits(d)
  <2>1. KindInv' /\ PipeInv'
    BY <1>1 DEF KindInv, PipeInv
  <2>2. OrderInv'
    BY <1>1 DEF OrderInv
  <2>3. QED
    BY <2>1, <2>2
<1>2. CASE \A k \in Kind : bc'.batch[k] = <<>>
  <2>1. Len(<<>>) = 0 /\ 1 .. 0 = {}
    OBVIOUS
  <2>2. Rising(<<>>) /\ (\A s : Before(s, <<>>) /\ Before(<<>>, s))
    BY <2>1 DEF Rising, Before
  <2>3. KindInv' /\ PipeInv'
    BY <1>2, <2>1, <2>2 DEF KindInv, PipeInv
  <2>4. OrderInv'
    BY <1>2, <2>2 DEF OrderInv
  <2>5. QED
    BY <2>3, <2>4
<1>3. QED
  BY <1>1, <1>2

LEMMA OrderEnqueue ==
  ASSUME TypeInv, KindInv, PipeInv, OrderInv, NEW k \in Kind, enqueue(k)
  PROVE  KindInv' /\ PipeInv' /\ OrderInv'
<1>1. /\ produced' = [produced EXCEPT ![k] = @ + 1] /\ UNCHANGED <<bc, sock, clients>>
      /\ \A j \in Kind \ {k} : queue'[j] = queue[j]
      /\ \/ \E f \in Frame : f.kind = k /\ f.n = produced[k] + 1 /\ queue'[k] = Append(queue[k], f)
         \/ queue' = queue
  BY EnqueueFacts
<1>2. \A j \in Kind : produced'[j] = IF j = k THEN produced[k] + 1 ELSE produced[j]
  BY <1>1 DEF TypeInv
<1>3. \A f \in Frame : f.n \in Nat /\ f.kind \in Kind
  BY DEF Frame
<1>4. \A j \in Kind : produced[j] \in Nat
  BY DEF TypeInv
<1>5. \A f \in Frame : f.n =< produced[f.kind] => f.n =< produced'[f.kind]
  BY <1>2, <1>3, <1>4
<1>6. \A j \in Kind : /\ \A i \in 1 .. Len(queue[j]) : queue[j][i] \in Frame
                      /\ \A i \in 1 .. Len(bc.batch[j]) : bc.batch[j][i] \in Frame
  <2>1. \A j \in Kind : queue[j] \in Seq(Frame) /\ bc.batch[j] \in Seq(Frame)
    BY DEF TypeInv, Local
  <2>2. QED
    BY <2>1, ElementOfSeq
<1>7. /\ Rising(queue'[k]) /\ Before(bc.batch[k], queue'[k])
      /\ \A i \in 1 .. Len(queue'[k]) : queue'[k][i].kind = k /\ queue'[k][i].n =< produced'[k]
      /\ \A c \in Conns : Before(sock[c].sent, queue'[k])
  <2>1. CASE queue' = queue
    <3>1. \A i \in 1 .. Len(queue[k]) : queue[k][i].kind = k /\ queue[k][i].n =< produced[k]
      BY DEF KindInv, PipeInv
    <3>2. QED
      BY <1>5, <1>6, <2>1, <3>1 DEF PipeInv, OrderInv
  <2>2. ASSUME NEW f \in Frame, f.kind = k, f.n = produced[k] + 1, queue'[k] = Append(queue[k], f)
        PROVE  /\ Rising(queue'[k]) /\ Before(bc.batch[k], queue'[k])
               /\ \A i \in 1 .. Len(queue'[k]) : queue'[k][i].kind = k /\ queue'[k][i].n =< produced'[k]
               /\ \A c \in Conns : Before(sock[c].sent, queue'[k])
    <3>1. PICK q : q = queue'[k]
      OBVIOUS
    <3>2. q = Append(queue[k], f) /\ produced'[k] = produced[k] + 1
      BY <1>2, <2>2, <3>1
    <3>3. Queued(k, q, produced[k] + 1)
      <4>1. TypeInv /\ KindInv /\ PipeInv /\ OrderInv /\ f.kind = k /\ f.n = produced[k] + 1
        BY <2>2
      <4>2. q = Append(queue[k], f)
        BY <3>2
      <4>3. QED
        BY <4>1, <4>2, QueueOrder, Zenon
    <3>4. queue'[k] = q /\ produced'[k] = produced[k] + 1
      BY <3>1, <3>2
    <3>5. QED
      BY <2>2, <3>3, <3>4, Zenon DEF Queued
  <2>3. QED
    BY <1>1, <2>1, <2>2
<1>8. KindInv'
  <2>1. SUFFICES ASSUME NEW j \in Kind
                 PROVE  /\ \A i \in 1 .. Len(queue'[j]) : queue'[j][i].kind = j
                        /\ \A i \in 1 .. Len(bc.batch[j]) : bc.batch[j][i].kind = j
    BY <1>1 DEF KindInv
  <2>2. CASE j = k
    BY <1>7, <2>2 DEF KindInv
  <2>3. CASE j # k
    BY <1>1, <2>3 DEF KindInv
  <2>4. QED
    BY <2>2, <2>3
<1>9. PipeInv'
  <2>1. SUFFICES ASSUME NEW j \in Kind
                 PROVE  /\ Rising(queue'[j]) /\ Rising(bc.batch[j]) /\ Before(bc.batch[j], queue'[j])
                        /\ \A i \in 1 .. Len(queue'[j]) : queue'[j][i].n =< produced'[j]
                        /\ \A i \in 1 .. Len(bc.batch[j]) : bc.batch[j][i].n =< produced'[j]
    BY <1>1 DEF PipeInv
  <2>2. /\ \A i \in 1 .. Len(queue[j]) : queue[j][i].kind = j /\ queue[j][i].n =< produced[j]
        /\ \A i \in 1 .. Len(bc.batch[j]) : bc.batch[j][i].kind = j /\ bc.batch[j][i].n =< produced[j]
    BY DEF KindInv, PipeInv
  <2>3. /\ \A i \in 1 .. Len(queue[j]) : queue[j][i].n =< produced'[j]
        /\ \A i \in 1 .. Len(bc.batch[j]) : bc.batch[j][i].n =< produced'[j]
    BY <1>5, <1>6, <2>2
  <2>4. CASE j = k
    BY <1>7, <2>3, <2>4 DEF PipeInv
  <2>5. CASE j # k
    BY <1>1, <2>3, <2>5 DEF PipeInv
  <2>6. QED
    BY <2>4, <2>5
<1>10. OrderInv'
  <2>1. \A c \in Conns : Awaits(c)' <=> Awaits(c)
    BY <1>1 DEF Awaits
  <2>2. SUFFICES ASSUME NEW c \in Conns
                 PROVE  /\ Rising(sock[c].sent)
                        /\ \A i \in 1 .. Len(sock[c].sent) :
                             sock[c].sent[i].n =< produced'[sock[c].sent[i].kind]
                        /\ \A j \in Kind : /\ Before(sock[c].sent, queue'[j])
                                           /\ Awaits(c) => Before(sock[c].sent, bc.batch[j])
    BY <1>1, <2>1 DEF OrderInv
  <2>3. PICK s \in Seq(Frame) : s = sock[c].sent
    BY DEF TypeInv, Socket
  <2>4. /\ Rising(s) /\ \A i \in 1 .. Len(s) : s[i].n =< produced[s[i].kind]
        /\ \A j \in Kind : Before(s, queue[j]) /\ (Awaits(c) => Before(s, bc.batch[j]))
    BY <2>3 DEF OrderInv
  <2>5. \A i \in 1 .. Len(s) : s[i].n =< produced'[s[i].kind]
    BY <1>5, <2>4, ElementOfSeq
  <2>6. \A j \in Kind : Before(s, queue'[j])
    BY <1>1, <1>7, <2>3, <2>4
  <2>7. QED
    BY <2>3, <2>4, <2>5, <2>6
<1>11. QED
  BY <1>8, <1>9, <1>10

LEMMA OrderFill ==
  ASSUME TypeInv, KindInv, PipeInv, OrderInv, NEW k \in Kind,
         NEW here \in {"bbo", "opt"}, NEW next \in {"opt", "send"}, Fill(k, here, next)
  PROVE  KindInv' /\ PipeInv' /\ OrderInv'
<1>1. here \in Places /\ next \in Places
  BY DEF Places
<1>2. /\ bc.at = here /\ UNCHANGED <<sock, produced>>
      /\ \A j \in Kind \ {k} : queue'[j] = queue[j] /\ bc'.batch[j] = bc.batch[j]
      /\ \/ /\ queue[k] # <<>> /\ bc'.at = here
            /\ bc'.batch[k] = Append(bc.batch[k], Head(queue[k]))
            /\ queue'[k] = Tail(queue[k])
         \/ bc'.at = next /\ queue' = queue /\ bc'.batch = bc.batch
  BY <1>1, FillFacts DEF history
<1>3. \A c \in Conns : Awaits(c)
  BY <1>2 DEF Awaits
<1>4. CASE queue' = queue /\ bc'.batch = bc.batch
  BY <1>2, <1>3, <1>4, OrderSame
<1>5. CASE /\ queue[k] # <<>>
           /\ bc'.batch[k] = Append(bc.batch[k], Head(queue[k]))
           /\ queue'[k] = Tail(queue[k])
  <2>1. PICK s \in Seq(Frame), a \in Seq(Frame), p \in Nat :
          s = queue[k] /\ a = bc.batch[k] /\ p = produced[k]
    BY DEF TypeInv, Local
  <2>2. PICK t \in Seq(Frame), b \in Seq(Frame) : t = Tail(s) /\ b = Append(a, Head(s))
    <3>1. s # <<>>
      BY <1>5, <2>1
    <3>2. Head(s) \in Frame /\ Tail(s) \in Seq(Frame)
      BY <3>1, HeadTailProperties
    <3>3. Append(a, Head(s)) \in Seq(Frame)
      BY <3>2, AppendProperties
    <3>4. QED
      BY <3>2, <3>3
  <2>3. queue'[k] = t /\ bc'.batch[k] = b
    BY <1>5, <2>1, <2>2
  <2>4. /\ Rising(t) /\ Rising(b) /\ Before(b, t)
        /\ Aged(t, k, p) /\ Aged(b, k, p)
        /\ \A u \in Seq(Frame) : Before(u, s) => Before(u, t) /\ (Before(u, a) => Before(u, b))
    <3>1. /\ Aged(s, k, p) /\ Aged(a, k, p)
          /\ Rising(s) /\ Rising(a) /\ Before(a, s) /\ s # <<>>
      BY <1>5, <2>1 DEF KindInv, PipeInv, Aged
    <3>2. QED
      BY <2>2, <3>1, BatchOrder
  <2>5. KindInv'
    <3>1. SUFFICES ASSUME NEW j \in Kind
                   PROVE  /\ \A i \in 1 .. Len(queue'[j]) : queue'[j][i].kind = j
                          /\ \A i \in 1 .. Len(bc'.batch[j]) : bc'.batch[j][i].kind = j
      BY DEF KindInv
    <3>2. CASE j = k
      BY <2>3, <2>4, <3>2 DEF Aged
    <3>3. CASE j # k
      BY <1>2, <3>3 DEF KindInv
    <3>4. QED
      BY <3>2, <3>3
  <2>6. PipeInv'
    <3>1. SUFFICES ASSUME NEW j \in Kind
                   PROVE  /\ Rising(queue'[j]) /\ Rising(bc'.batch[j]) /\ Before(bc'.batch[j], queue'[j])
                          /\ \A i \in 1 .. Len(queue'[j]) : queue'[j][i].n =< produced[j]
                          /\ \A i \in 1 .. Len(bc'.batch[j]) : bc'.batch[j][i].n =< produced[j]
      BY <1>2 DEF PipeInv
    <3>2. CASE j = k
      BY <2>1, <2>3, <2>4, <3>2 DEF Aged
    <3>3. CASE j # k
      BY <1>2, <3>3 DEF PipeInv
    <3>4. QED
      BY <3>2, <3>3
  <2>7. OrderInv'
    <3>1. SUFFICES ASSUME NEW c \in Conns
                   PROVE  /\ Rising(sock[c].sent)
                          /\ \A i \in 1 .. Len(sock[c].sent) :
                               sock[c].sent[i].n =< produced[sock[c].sent[i].kind]
                          /\ \A j \in Kind : /\ Before(sock[c].sent, queue'[j])
                                             /\ Before(sock[c].sent, bc'.batch[j])
      BY <1>2 DEF OrderInv
    <3>2. PICK u \in Seq(Frame) : u = sock[c].sent
      BY DEF TypeInv, Socket
    <3>3. /\ Rising(u) /\ \A i \in 1 .. Len(u) : u[i].n =< produced[u[i].kind]
          /\ \A j \in Kind : Before(u, queue[j]) /\ Before(u, bc.batch[j])
      BY <1>3, <3>2 DEF OrderInv
    <3>4. Before(u, t) /\ Before(u, b)
      BY <2>1, <2>4, <3>3
    <3>5. \A j \in Kind : Before(u, queue'[j]) /\ Before(u, bc'.batch[j])
      BY <1>2, <2>3, <3>3, <3>4
    <3>6. QED
      BY <3>2, <3>3, <3>5
  <2>8. QED
    BY <2>5, <2>6, <2>7
<1>6. QED
  BY <1>2, <1>4, <1>5

LEMMA OrderWrite ==
  ASSUME TypeInv, ListInv, KindInv, PipeInv, OrderInv, Write
  PROVE  KindInv' /\ PipeInv' /\ OrderInv'
<1>1. /\ bc.at = "write" /\ bc'.batch = bc.batch /\ UNCHANGED <<queue, produced, clients>>
  BY WriteFacts DEF history
<1>2. PICK i \in 1 .. Len(clients), c \in Conns : Wrote(i, c)
  BY WriteFacts
<1>3. /\ i = bc.idx /\ c = clients[i] /\ \A d \in Conns \ {c} : sock'[d] = sock[d]
      /\ bc'.at = "panicked" \/ (bc'.at = "write" /\ bc'.idx = i + 1)
  BY <1>2 DEF Wrote
<1>4. \A j \in 1 .. Len(clients) : clients[j] = c => j = i
  BY <1>3 DEF ListInv
<1>5. Awaits(c)
  <2>1. i >= bc.idx
    BY <1>3
  <2>2. QED
    BY <1>1, <1>3, <2>1 DEF Awaits
<1>6. ~Awaits(c)'
  <2>1. ASSUME NEW j \in 1 .. Len(clients), j >= i + 1
        PROVE  clients[j] # c
    BY <1>4, <2>1
  <2>2. QED
    BY <1>1, <1>3, <2>1 DEF Awaits
<1>7. ASSUME NEW d \in Conns, Awaits(d)'
      PROVE  Awaits(d)
  <2>1. \A j \in 1 .. Len(clients) : j >= i + 1 => j >= i
    OBVIOUS
  <2>2. QED
    BY <1>1, <1>3, <1>7, <2>1 DEF Awaits
<1>8. PICK s \in Seq(Frame) : s = sock[c].sent
  BY DEF TypeInv, Socket
<1>9. /\ Rising(s) /\ \A j \in 1 .. Len(s) : s[j].n =< produced[s[j].kind]
      /\ \A k \in Kind : Before(s, queue[k]) /\ Before(s, bc.batch[k])
  BY <1>5, <1>8 DEF OrderInv
<1>10. \E part \in Seq(Frame) :
          /\ Len(part) =< Len(Data) /\ sock'[c].sent = s \o part
          /\ \A j \in 1 .. Len(part) : part[j].kind = Data[j].kind /\ part[j].n = Data[j].n
  <2>1. \/ sock'[c].sent = s \o Data
        \/ \E part \in Partial : sock'[c].sent = s \o part
    BY <1>2, <1>8 DEF Wrote
  <2>2. CASE sock'[c].sent = s \o Data
    <3>1. Data \in Seq(Frame) /\ Len(Data) =< Len(Data)
      BY DataType, LenProperties
    <3>2. QED
      BY <2>2, <3>1
  <2>3. CASE \E part \in Partial : sock'[c].sent = s \o part
    BY <2>3, PartialFacts
  <2>4. QED
    BY <2>1, <2>2, <2>3
<1>11. PICK new : new = sock'[c].sent
  OBVIOUS
<1>12. /\ Rising(new) /\ \A j \in 1 .. Len(new) : new[j].n =< produced[new[j].kind]
       /\ \A k \in Kind : Before(new, queue[k])
  <2>1. ASSUME NEW part \in Seq(Frame), Len(part) =< Len(Data), new = s \o part,
               \A j \in 1 .. Len(part) : part[j].kind = Data[j].kind /\ part[j].n = Data[j].n
        PROVE  /\ Rising(new) /\ \A j \in 1 .. Len(new) : new[j].n =< produced[new[j].kind]
               /\ \A k \in Kind : Before(new, queue[k])
    <3>1. /\ Rising(part)
          /\ \A j \in 1 .. Len(part) : part[j].n =< produced[part[j].kind]
          /\ \A k \in Kind : Before(part, queue[k])
          /\ \A u \in Seq(Frame) : (\A k \in Kind : Before(u, bc.batch[k])) => Before(u, part)
      BY <2>1, DataOrder
    <3>2. Before(s, part)
      BY <1>9, <3>1
    <3>3. Rising(s \o part)
      BY <1>9, <3>1, <3>2, ConcatOrder
    <3>4. ASSUME NEW k \in Kind
          PROVE  Before(s \o part, queue[k])
      <4>1. queue[k] \in Seq(Frame) /\ Before(s, queue[k]) /\ Before(part, queue[k])
        BY <1>9, <3>1 DEF TypeInv
      <4>2. QED
        BY <4>1, ConcatOrder
    <3>5. \A j \in 1 .. Len(s \o part) : (s \o part)[j].n =< produced[(s \o part)[j].kind]
      <4>1. PICK n \in Nat, m \in Nat, w \in Seq(Frame) :
              n = Len(s) /\ m = Len(part) /\ w = s \o part
        BY LenProperties, ConcatProperties
      <4>2. /\ Len(w) = n + m
            /\ \A j \in 1 .. n + m : w[j] = IF j =< n THEN s[j] ELSE part[j - n]
        BY <4>1, ConcatProperties
      <4>3. \A j \in 1 .. n + m : \/ j \in 1 .. n /\ w[j] = s[j]
                                  \/ j - n \in 1 .. m /\ w[j] = part[j - n]
        BY <4>1, <4>2
      <4>4. QED
        BY <1>9, <3>1, <4>1, <4>2, <4>3
    <3>6. QED
      BY <2>1, <3>3, <3>4, <3>5
  <2>2. QED
    BY <1>10, <1>11, <2>1
<1>13. KindInv' /\ PipeInv'
  BY <1>1 DEF KindInv, PipeInv
<1>14. OrderInv'
  <2>1. SUFFICES ASSUME NEW d \in Conns
                 PROVE  /\ Rising(sock'[d].sent)
                        /\ \A j \in 1 .. Len(sock'[d].sent) :
                             sock'[d].sent[j].n =< produced[sock'[d].sent[j].kind]
                        /\ \A k \in Kind : /\ Before(sock'[d].sent, queue[k])
                                           /\ Awaits(d)' => Before(sock'[d].sent, bc.batch[k])
    BY <1>1 DEF OrderInv
  <2>2. CASE d = c
    BY <1>6, <1>11, <1>12, <2>2
  <2>3. CASE d # c
    BY <1>3, <1>7, <2>3 DEF OrderInv
  <2>4. QED
    BY <2>2, <2>3
<1>15. QED
  BY <1>13, <1>14

LEMMA OrderStep ==
  ASSUME TypeInv, LockInv, ListInv, KindInv, PipeInv, OrderInv, Next
  PROVE  KindInv' /\ PipeInv' /\ OrderInv'
<1>1. clients \in Seq(Conns) /\ bc.idx \in Nat
  BY DEF TypeInv, Local
<1>2. CASE Accept \/ AcceptLoop \/ Shutdown \/ \E c \in Conns : Connect(c)
  <2>1. /\ UNCHANGED <<clients, bc, queue, produced>>
        /\ \A d \in Conns : sock'[d].sent = sock[d].sent
    BY <1>2, ArrivalFacts DEF Shutdown, history
  <2>2. \A d \in Conns : Awaits(d)' => Awaits(d)
    BY <2>1 DEF Awaits
  <2>3. QED
    BY <2>1, <2>2, OrderSame
<1>3. CASE Admit \/ Drain
  <2>1. UNCHANGED <<bc, queue, produced>> /\ lock = "none"
    BY <1>3, AdmitFacts, DrainFacts DEF history
  <2>2. \A d \in Conns : sock'[d].sent = sock[d].sent
    <3>1. CASE Admit
      BY <3>1, AdmitFacts
    <3>2. CASE Drain
      BY <3>2, DrainFacts
    <3>3. QED
      BY <1>3, <3>1, <3>2
  <2>3. bc.at # "write"
    BY <2>1 DEF LockInv
  <2>4. \A d \in Conns : Awaits(d)' => Awaits(d)
    BY <2>1, <2>3 DEF Awaits
  <2>5. QED
    BY <2>1, <2>2, <2>4, OrderSame
<1>4. CASE BroadcastLoop \/ Report \/ StartBroadcast
  <2>1. /\ UNCHANGED <<queue, produced, sock>> /\ bc'.batch = bc.batch
        /\ bc.at \in {"top", "report", "send"}
    BY <1>4, LoopFacts, ReportFacts, StartFacts DEF history
  <2>2. \A d \in Conns : Awaits(d)
    BY <2>1 DEF Awaits
  <2>3. QED
    BY <2>1, <2>2, OrderSame
<1>5. CASE EndBroadcast
  <2>1. /\ UNCHANGED <<queue, produced, sock>> /\ \A k \in Kind : bc'.batch[k] = <<>>
    BY <1>5, EndFacts DEF history
  <2>2. QED
    BY <2>1, OrderSame
<1>6. CASE RemoveFailed
  <2>1. /\ UNCHANGED <<queue, produced>> /\ bc'.batch = bc.batch
        /\ bc'.at = "write" /\ bc'.idx = bc.idx /\ bc.idx > Len(clients)
    BY <1>6, LastFailed, RemoveFailedFacts DEF history
  <2>2. /\ \E i \in 1 .. Len(clients) : clients' = swap_remove(clients, i)
        /\ \A d \in Conns : sock'[d].sent = sock[d].sent
    BY <1>6, LastFailed, RemoveFailedFacts
  <2>3. Len(clients') = Len(clients) - 1 /\ Len(clients) \in Nat
    BY <1>1, <2>2, SwapRemove, LenProperties
  <2>4. \A i \in 1 .. Len(clients') : ~(i >= bc'.idx)
    BY <1>1, <2>1, <2>3
  <2>5. \A d \in Conns : ~Awaits(d)'
    BY <2>1, <2>4 DEF Awaits
  <2>6. QED
    BY <2>1, <2>2, <2>5, OrderSame
<1>7. CASE Fill("bbo", "bbo", "opt")
  BY <1>7, OrderFill DEF Kind
<1>8. CASE Fill("opt", "opt", "send")
  BY <1>8, OrderFill DEF Kind
<1>9. QED
  BY <1>2, <1>3, <1>4, <1>5, <1>6, <1>7, <1>8, OrderEnqueue, OrderWrite
  DEF Next, Acceptor, Broadcaster

-----------------------------------------------------------------------------
(* The account of the frames. *)

KindCount(s, k) == Cardinality({i \in DOMAIN s : s[i].kind = k})

LEMMA CountConcat ==
  ASSUME NEW s \in Seq(Frame), NEW t \in Seq(Frame), NEW k
  PROVE  /\ KindCount(s \o t, k) = KindCount(s, k) + KindCount(t, k)
         /\ KindCount(s, k) \in Nat /\ KindCount(t, k) \in Nat
<1>1. PICK n \in Nat, m \in Nat, d \in Seq(Frame) : n = Len(s) /\ m = Len(t) /\ d = s \o t
  BY LenProperties, ConcatProperties
<1>2. /\ Len(d) = n + m
      /\ \A i \in 1 .. n + m : d[i] = IF i =< n THEN s[i] ELSE t[i - n]
  BY <1>1, ConcatProperties
<1>3. DOMAIN s = 1 .. n /\ DOMAIN t = 1 .. m /\ DOMAIN d = 1 .. n + m
  BY <1>1, <1>2, LenProperties
<1> DEFINE A == {i \in 1 .. n : s[i].kind = k}
           B == {i \in 1 .. m : t[i].kind = k}
           C == {i \in 1 .. n + m : d[i].kind = k}
           D == {i \in C : ~(i =< n)}
<1>4. IsFiniteSet(A) /\ IsFiniteSet(B) /\ IsFiniteSet(C) /\ IsFiniteSet(D)
  <2>1. IsFiniteSet(1 .. n) /\ IsFiniteSet(1 .. m) /\ IsFiniteSet(1 .. n + m)
    BY FS_Interval
  <2>2. A \in SUBSET (1 .. n) /\ B \in SUBSET (1 .. m) /\ C \in SUBSET (1 .. n + m)
        /\ D \in SUBSET (1 .. n + m)
    OBVIOUS
  <2>3. QED
    BY <2>1, <2>2, FS_Subset
<1>5. C = A \cup D /\ A \cap D = {}
  <2>1. \A i \in 1 .. n : i \in 1 .. n + m /\ i =< n /\ d[i] = s[i]
    BY <1>2
  <2>2. \A i \in 1 .. n + m : i =< n => i \in 1 .. n
    OBVIOUS
  <2>3. \A i : i \in C <=> i \in A \/ i \in D
    BY <2>1, <2>2
  <2>4. QED
    BY <2>1, <2>3
<1>6. Cardinality(D) = Cardinality(B)
  <2> DEFINE f == [i \in B |-> i + n]
  <2>1. \A i \in 1 .. m : i + n \in 1 .. n + m /\ ~(i + n =< n) /\ d[i + n] = t[i]
    <3>1. SUFFICES ASSUME NEW i \in 1 .. m
                   PROVE  i + n \in 1 .. n + m /\ ~(i + n =< n) /\ d[i + n] = t[i]
      OBVIOUS
    <3>2. i + n \in 1 .. n + m /\ ~(i + n =< n) /\ (i + n) - n = i
      OBVIOUS
    <3>3. d[i + n] = t[(i + n) - n]
      BY <1>2, <3>2
    <3>4. QED
      BY <3>2, <3>3
  <2>2. \A i \in B : i + n \in D
    BY <2>1
  <2>3. \A j \in D : j - n \in B /\ (j - n) + n = j
    <3>1. SUFFICES ASSUME NEW j \in 1 .. n + m, ~(j =< n), d[j].kind = k
                   PROVE  j - n \in B /\ (j - n) + n = j
      OBVIOUS
    <3>2. j - n \in 1 .. m /\ (j - n) + n = j /\ d[j] = t[j - n]
      BY <1>2, <3>1
    <3>3. QED
      BY <3>1, <3>2
  <2>4. \A i \in B : i \in Int
    OBVIOUS
  <2> HIDE DEF B, D
  <2>5. f \in [B -> D]
    BY <2>2
  <2>6. f \in Surjection(B, D)
    BY <2>3, <2>5 DEF Surjection
  <2>7. \A a, b \in B : f[a] = f[b] => a = b
    BY <2>4
  <2>8. f \in Injection(B, D)
    BY <2>5, <2>7 DEF Injection, IsInjective
  <2> HIDE DEF f
  <2>9. QED
    BY <1>4, <2>6, <2>8, FS_Surjection
<1>7. Cardinality(C) = Cardinality(A) + Cardinality(B) /\ Cardinality(A) \in Nat /\ Cardinality(B) \in Nat
  <2> HIDE DEF A, B, C, D
  <2>1. /\ Cardinality(A) \in Nat /\ Cardinality(B) \in Nat
        /\ Cardinality({}) = 0
    BY <1>4, FS_CardinalityType, FS_EmptySet
  <2>2. Cardinality(A \cup D) = Cardinality(A) + Cardinality(D) - Cardinality(A \cap D)
    BY <1>4, FS_Union
  <2>3. Cardinality(C) = Cardinality(A) + Cardinality(B) - Cardinality({})
    BY <1>5, <1>6, <2>2, Zenon
  <2>4. QED
    BY <2>1, <2>3
<1>8. KindCount(s, k) = Cardinality(A) /\ KindCount(t, k) = Cardinality(B) /\ KindCount(d, k) = Cardinality(C)
  BY <1>3 DEF KindCount
<1>9. QED
  BY <1>1, <1>7, <1>8

LEMMA CountKind ==
  ASSUME NEW s \in Seq(Frame), NEW k, NEW j, \A i \in 1 .. Len(s) : s[i].kind = j
  PROVE  KindCount(s, k) = IF j = k THEN Len(s) ELSE 0
<1>1. PICK n \in Nat : n = Len(s) /\ DOMAIN s = 1 .. n
  BY LenProperties
<1>2. CASE j = k
  <2>1. {i \in DOMAIN s : s[i].kind = k} = 1 .. n
    BY <1>1, <1>2
  <2>2. Cardinality(1 .. n) = n
    <3>1. Cardinality(1 .. n) = IF 1 > n THEN 0 ELSE n - 1 + 1
      BY FS_Interval
    <3>2. QED
      BY <3>1
  <2>3. QED
    BY <1>1, <1>2, <2>1, <2>2 DEF KindCount
<1>3. CASE j # k
  <2>1. {i \in DOMAIN s : s[i].kind = k} = {}
    BY <1>1, <1>3
  <2>2. QED
    BY <1>3, <2>1, FS_EmptySet DEF KindCount
<1>4. QED
  BY <1>2, <1>3

LEMMA AccountedStep ==
  ASSUME TypeInv, LockInv, ListInv, KindInv, Accounted, Next
  PROVE  Accounted'
<1>1. SUFFICES ASSUME NEW k \in Kind
               PROVE  produced'[k] =
                        Len(queue'[k]) + dropped'[k] + reported'[k] + KindCount(log', k)
                        + (IF bc'.at \in {"bbo", "opt", "send"} THEN Len(bc'.batch[k]) ELSE 0)
  BY DEF Accounted, KindCount
<1> DEFINE Balanced ==
      produced'[k] = Len(queue'[k]) + dropped'[k] + reported'[k] + KindCount(log', k)
                     + (IF bc'.at \in {"bbo", "opt", "send"} THEN Len(bc'.batch[k]) ELSE 0)
<1>2. \A j \in Kind : queue[j] \in Seq(Frame) /\ bc.batch[j] \in Seq(Frame)
  BY DEF TypeInv, Local
<1>3. PICK p \in Nat, q \in Nat, d \in Nat, r \in Nat, l \in Nat, b \in Nat :
        /\ p = produced[k] /\ q = Len(queue[k]) /\ d = dropped[k] /\ r = reported[k]
        /\ l = KindCount(log, k) /\ b = Len(bc.batch[k])
  <2>1. KindCount(log, k) \in Nat
    BY CountConcat DEF TypeInv
  <2>2. produced[k] \in Nat /\ dropped[k] \in Nat /\ reported[k] \in Nat
    BY DEF TypeInv
  <2>3. Len(queue[k]) \in Nat /\ Len(bc.batch[k]) \in Nat
    BY <1>2, LenProperties
  <2>4. QED
    BY <2>1, <2>2, <2>3
<1>4. p = q + d + r + l + (IF bc.at \in {"bbo", "opt", "send"} THEN b ELSE 0)
  BY <1>3 DEF Accounted, KindCount
<1>5. ASSUME NEW j \in Kind, enqueue(j)
      PROVE  Balanced
  <2>1. /\ produced' = [produced EXCEPT ![j] = @ + 1] /\ UNCHANGED <<bc, reported, log>>
        /\ \A i \in Kind \ {j} : queue'[i] = queue[i]
        /\ \/ dropped' = dropped /\ \E f \in Frame : queue'[j] = Append(queue[j], f)
           \/ dropped' = [dropped EXCEPT ![j] = @ + 1] /\ queue' = queue
    BY <1>5, EnqueueFacts
  <2>2. /\ reported'[k] = r /\ KindCount(log', k) = l /\ bc' = bc
    BY <1>3, <2>1
  <2>3. CASE j # k
    <3>1. produced'[k] = p /\ dropped'[k] = d /\ queue'[k] = queue[k]
      BY <1>3, <2>1, <2>3 DEF TypeInv
    <3>2. QED
      BY <1>3, <1>4, <2>2, <3>1
  <2>4. CASE j = k
    <3>1. produced'[k] = p + 1
      BY <1>3, <2>1, <2>4 DEF TypeInv
    <3>2. \/ Len(queue'[k]) = q + 1 /\ dropped'[k] = d
          \/ Len(queue'[k]) = q /\ dropped'[k] = d + 1
      <4>1. CASE dropped' = [dropped EXCEPT ![j] = @ + 1] /\ queue' = queue
        BY <1>3, <2>4, <4>1 DEF TypeInv
      <4>2. CASE dropped' = dropped /\ \E f \in Frame : queue'[j] = Append(queue[j], f)
        BY <1>2, <1>3, <2>4, <4>2, AppendProperties
      <4>3. QED
        BY <2>1, <4>1, <4>2
    <3>3. Len(bc'.batch[k]) = b /\ bc'.at = bc.at
      BY <1>3, <2>2
    <3>4. PICK z \in Nat :
            /\ p = q + d + r + l + z
            /\ z = IF bc'.at \in {"bbo", "opt", "send"} THEN Len(bc'.batch[k]) ELSE 0
      BY <1>4, <3>3
    <3>4a. p = q + d + r + l + z
      BY <3>4, Zenon
    <3>5. CASE Len(queue'[k]) = q + 1 /\ dropped'[k] = d
      <4>1. p + 1 = (q + 1) + d + r + l + z
        BY <3>4a
      <4>2. produced'[k] = Len(queue'[k]) + dropped'[k] + reported'[k] + KindCount(log', k) + z
        BY <2>2, <3>1, <3>5, <4>1, Zenon
      <4>3. QED
        BY <3>4, <4>2, Zenon
    <3>6. CASE Len(queue'[k]) = q /\ dropped'[k] = d + 1
      <4>1. p + 1 = q + (d + 1) + r + l + z
        BY <3>4a
      <4>2. produced'[k] = Len(queue'[k]) + dropped'[k] + reported'[k] + KindCount(log', k) + z
        BY <2>2, <3>1, <3>6, <4>1, Zenon
      <4>3. QED
        BY <3>4, <4>2, Zenon
    <3>7. QED
      BY <3>2, <3>5, <3>6
  <2>5. QED
    BY <2>3, <2>4
<1>6. ASSUME NEW j \in Kind, NEW here \in {"bbo", "opt"}, NEW next \in {"opt", "send"},
             Fill(j, here, next)
      PROVE  Balanced
  <2>1. here \in Places /\ next \in Places
    BY DEF Places
  <2>2. /\ bc.at = here /\ UNCHANGED <<dropped, reported, produced, log>>
        /\ \A i \in Kind \ {j} : queue'[i] = queue[i] /\ bc'.batch[i] = bc.batch[i]
        /\ bc'.at \in {"bbo", "opt", "send"}
        /\ \/ /\ queue[j] # <<>> /\ bc'.batch[j] = Append(bc.batch[j], Head(queue[j]))
              /\ queue'[j] = Tail(queue[j])
           \/ queue' = queue /\ bc'.batch = bc.batch
    BY <1>6, <2>1, FillFacts DEF history
  <2>3. /\ produced'[k] = p /\ reported'[k] = r /\ dropped'[k] = d /\ KindCount(log', k) = l
        /\ p = q + d + r + l + b
    BY <1>3, <1>4, <2>2
  <2>4. \/ Len(queue'[k]) = q /\ Len(bc'.batch[k]) = b
        \/ Len(queue'[k]) = q - 1 /\ Len(bc'.batch[k]) = b + 1
    <3>1. CASE \/ queue' = queue /\ bc'.batch = bc.batch
               \/ j # k
      BY <1>3, <2>2, <3>1
    <3>2. CASE /\ queue[k] # <<>> /\ bc'.batch[k] = Append(bc.batch[k], Head(queue[k]))
               /\ queue'[k] = Tail(queue[k])
      <4>1. Head(queue[k]) \in Frame /\ Len(queue'[k]) = Len(queue[k]) - 1
        BY <1>2, <3>2, HeadTailProperties
      <4>2. Len(bc'.batch[k]) = Len(bc.batch[k]) + 1
        BY <1>2, <3>2, <4>1, AppendProperties
      <4>3. QED
        BY <1>3, <4>1, <4>2
    <3>3. QED
      BY <2>2, <3>1, <3>2
  <2>5. CASE Len(queue'[k]) = q /\ Len(bc'.batch[k]) = b
    BY <2>2, <2>3, <2>5
  <2>6. CASE Len(queue'[k]) = q - 1 /\ Len(bc'.batch[k]) = b + 1
    <3>1. p = (q - 1) + d + r + l + (b + 1)
      BY <2>3
    <3>2. QED
      BY <2>2, <2>3, <2>6, <3>1
  <2>7. QED
    BY <2>4, <2>5, <2>6
<1>7. CASE BroadcastLoop
  <2>1. /\ UNCHANGED <<queue, dropped, reported, produced, log>> /\ bc'.batch = bc.batch
        /\ bc.at = "top" /\ bc'.at \in {"bbo", "done"}
    BY <1>7, LoopFacts DEF history
  <2>2. b = 0
    BY <1>3, <2>1, EmptySeq DEF LockInv
  <2>3. QED
    BY <1>3, <1>4, <2>1, <2>2
<1>8. CASE StartBroadcast
  <2>1. /\ UNCHANGED <<queue, dropped, reported, produced>> /\ bc'.batch = bc.batch /\ bc.at = "send"
        /\ \/ Data = <<>> /\ bc'.at = "top" /\ UNCHANGED log
           \/ log' = log \o Data /\ bc'.at = "write"
    BY <1>8, StartFacts
  <2>2. PICK x \in Seq(Frame), y \in Seq(Frame) : x = bc.batch["bbo"] /\ y = bc.batch["opt"]
    BY DEF TypeInv, Local, Kind
  <2>3. KindCount(Data, k) = b
    <3>1. (\A i \in 1 .. Len(x) : x[i].kind = "bbo") /\ \A i \in 1 .. Len(y) : y[i].kind = "opt"
      BY <2>2 DEF KindInv, Kind
    <3>2. PICK n \in Nat, m \in Nat : n = Len(x) /\ m = Len(y)
      BY LenProperties
    <3>3. /\ KindCount(x, k) = IF "bbo" = k THEN n ELSE 0
          /\ KindCount(y, k) = IF "opt" = k THEN m ELSE 0
      BY <3>1, <3>2, CountKind
    <3>4. KindCount(Data, k) = KindCount(x, k) + KindCount(y, k)
      BY <2>2, CountConcat DEF Data
    <3>5. CASE k = "bbo"
      <4>1. KindCount(x, k) = n /\ KindCount(y, k) = 0 /\ b = n
        BY <1>3, <2>2, <3>2, <3>3, <3>5
      <4>2. QED
        BY <3>4, <4>1
    <3>6. CASE k = "opt"
      <4>1. KindCount(x, k) = 0 /\ KindCount(y, k) = m /\ b = m
        BY <1>3, <2>2, <3>2, <3>3, <3>6
      <4>2. QED
        BY <3>4, <4>1
    <3>7. QED
      BY <3>5, <3>6 DEF Kind
  <2>4. CASE Data = <<>> /\ bc'.at = "top" /\ UNCHANGED log
    <3>1. b = 0
      <4>1. DOMAIN <<>> = {}
        OBVIOUS
      <4>2. KindCount(<<>>, k) = 0
        BY <4>1, FS_EmptySet DEF KindCount
      <4>3. QED
        BY <2>3, <2>4, <4>2
    <3>2. QED
      BY <1>3, <1>4, <2>1, <2>4, <3>1
  <2>5. CASE log' = log \o Data /\ bc'.at = "write"
    <3>1. KindCount(log', k) = l + b
      <4>1. log \in Seq(Frame) /\ Data \in Seq(Frame)
        BY DataType DEF TypeInv
      <4>2. KindCount(log \o Data, k) = KindCount(log, k) + KindCount(Data, k)
        BY <4>1, CountConcat
      <4>3. QED
        BY <1>3, <2>3, <2>5, <4>2
    <3>2. /\ produced'[k] = p /\ Len(queue'[k]) = q /\ dropped'[k] = d /\ reported'[k] = r
      BY <1>3, <2>1
    <3>3. p = q + d + r + l + b
      BY <1>4, <2>1
    <3>4. QED
      BY <2>5, <3>1, <3>2, <3>3
  <2>6. QED
    BY <2>1, <2>4, <2>5
<1>9. CASE Report
  <2>1. /\ UNCHANGED <<queue, produced, log>> /\ bc'.batch = bc.batch
        /\ bc.at = "report" /\ bc'.at = "top"
        /\ dropped'[k] = 0 /\ reported'[k] = reported[k] + dropped[k]
    BY <1>9, ReportFacts
  <2>2. /\ produced'[k] = p /\ Len(queue'[k]) = q /\ dropped'[k] = 0 /\ reported'[k] = r + d
        /\ KindCount(log', k) = l
    BY <1>3, <2>1
  <2>3. p = q + d + r + l
    BY <1>4, <2>1
  <2>4. QED
    BY <2>1, <2>2, <2>3
<1>10. CASE Accept \/ AcceptLoop \/ Admit \/ Drain \/ Shutdown \/ \E c \in Conns : Connect(c)
  <2>1. UNCHANGED <<queue, dropped, reported, produced, log, bc>>
    BY <1>10, ArrivalFacts, AdmitFacts, DrainFacts DEF Shutdown, history
  <2>2. QED
    BY <1>3, <1>4, <2>1
<1>11. CASE Write \/ RemoveFailed \/ EndBroadcast
  <2>1. /\ UNCHANGED <<queue, dropped, reported, produced, log>> /\ bc.at = "write"
        /\ bc'.at \in {"write", "panicked", "report"}
    <3>1. CASE Write
      BY <3>1, WriteFacts DEF history, Wrote
    <3>2. CASE RemoveFailed
      BY <3>2, LastFailed, RemoveFailedFacts DEF history
    <3>3. CASE EndBroadcast
      BY <3>3, EndFacts DEF history
    <3>4. QED
      BY <1>11, <3>1, <3>2, <3>3
  <2>2. QED
    BY <1>3, <1>4, <2>1
<1>12. QED
  BY <1>5, <1>6, <1>7, <1>8, <1>9, <1>10, <1>11
  DEF Next, Acceptor, Broadcaster, Kind

-----------------------------------------------------------------------------
(* The invariant holds. *)

LEMMA InitInv ==
  ASSUME Init
  PROVE  IInv
<1>1. /\ queue = [k \in Kind |-> <<>>] /\ clients = <<>> /\ log = <<>> /\ lock = "none"
      /\ bc = [at |-> "top", batch |-> [k \in Kind |-> <<>>], idx |-> 1, to_remove |-> <<>>]
      /\ sock = [c \in Conns |-> [state |-> "absent", sent |-> <<>>, joined |-> 0,
                                  missed |-> FALSE]]
      /\ produced = [k \in Kind |-> 0] /\ running = TRUE
  BY DEF Init
<1>2. /\ \A k \in Kind : /\ queue[k] = <<>> /\ bc.batch[k] = <<>> /\ produced[k] = 0
                         /\ dropped[k] = 0 /\ reported[k] = 0
      /\ \A c \in Conns : /\ sock[c].state = "absent" /\ sock[c].sent = <<>>
                          /\ sock[c].joined = 0
      /\ bc.at = "top" /\ bc.idx = 1 /\ bc.to_remove = <<>>
  BY <1>1 DEF Init
<1>3. Len(<<>>) = 0 /\ \A T : <<>> \in Seq(T)
  BY EmptySeq
<1>4. TypeInv
  <2>1. bc \in Local
    BY <1>1, <1>3 DEF Local, Places
  <2>2. sock \in [Conns -> Socket]
    BY <1>1, <1>3 DEF Socket, States
  <2>3. queue \in [Kind -> Seq(Frame)]
    BY <1>1, <1>3
  <2>4. QED
    BY <1>1, <1>3, <2>1, <2>2, <2>3 DEF Init, TypeInv
<1>5. Bounds
  <2>1. \A k \in Kind : QueueCap[k] \in Nat /\ BatchCap[k] \in Nat /\ MaxFrames[k] \in Nat
    BY BroadcastAssumption DEF BroadcastAssumption
  <2>2. MaxClients \in Nat /\ RemoveCap \in Nat
    BY BroadcastAssumption DEF BroadcastAssumption
  <2>3. QED
    BY <1>1, <1>2, <1>3, <2>1, <2>2 DEF Bounds
<1>6. LockInv
  BY <1>1, <1>2 DEF LockInv
<1>7. ListInv
  BY <1>1, <1>2, <1>3 DEF ListInv, Failing
<1>8. LateInv
  BY <1>1 DEF LateInv
<1>9. GapInv
  BY <1>1, <1>2, <1>3 DEF GapInv
<1>10. KindInv /\ PipeInv
  BY <1>2, <1>3 DEF KindInv, PipeInv, Rising, Before
<1>11. OrderInv
  BY <1>2, <1>3 DEF OrderInv, Rising, Before
<1>12. Accounted
  <2>1. \A k \in Kind : {i \in DOMAIN log : log[i].kind = k} = {}
    BY <1>1
  <2>2. Cardinality({}) = 0
    BY FS_EmptySet
  <2>3. SUFFICES ASSUME NEW k \in Kind
                 PROVE  produced[k] = Len(queue[k]) + dropped[k] + reported[k]
                          + Cardinality({i \in DOMAIN log : log[i].kind = k})
                          + (IF bc.at \in {"bbo", "opt", "send"} THEN Len(bc.batch[k]) ELSE 0)
    BY DEF Accounted
  <2>4. Len(queue[k]) = 0 /\ Len(bc.batch[k]) = 0
    BY <1>2, <1>3
  <2>5. Cardinality({i \in DOMAIN log : log[i].kind = k}) = 0
    BY <2>1, <2>2, Zenon
  <2>6. QED
    BY <1>2, <2>4, <2>5
<1>13. QED
  BY <1>4, <1>5, <1>6, <1>7, <1>8, <1>9, <1>10, <1>11, <1>12 DEF IInv

LEMMA StutterInv ==
  ASSUME IInv, UNCHANGED vars
  PROVE  IInv'
<1>1. /\ UNCHANGED <<running, shutdown, queue, dropped, clients, lock, acceptor, bc, sock>>
      /\ UNCHANGED <<produced, reported, log>>
  BY DEF vars
<1>2. TypeInv' /\ Bounds'
  BY <1>1 DEF IInv, TypeInv, Bounds
<1>3. LockInv' /\ LateInv' /\ KindInv' /\ PipeInv'
  BY <1>1 DEF IInv, LockInv, LateInv, KindInv, PipeInv, Rising, Before
<1>4. ListInv'
  BY <1>1 DEF IInv, ListInv, Failing
<1>5. GapInv'
  BY <1>1 DEF IInv, GapInv, Complete, Data
<1>6. OrderInv'
  BY <1>1 DEF IInv, OrderInv, Rising, Before, Awaits
<1>7. Accounted'
  BY <1>1 DEF IInv, Accounted
<1>8. QED
  BY <1>2, <1>3, <1>4, <1>5, <1>6, <1>7 DEF IInv

LEMMA StepInv ==
  ASSUME IInv, [Next]_vars
  PROVE  IInv'
<1>1. CASE Next
  <2>1. TypeInv' /\ Bounds' /\ LockInv'
    BY <1>1, TypeStep, BoundsStep, LockStep DEF IInv
  <2>2. ListInv' /\ LateInv' /\ GapInv'
    BY <1>1, ListStep, LateStep, GapStep DEF IInv
  <2>3. KindInv' /\ PipeInv' /\ OrderInv'
    BY <1>1, OrderStep DEF IInv
  <2>4. Accounted'
    BY <1>1, AccountedStep DEF IInv
  <2>5. QED
    BY <2>1, <2>2, <2>3, <2>4 DEF IInv
<1>2. CASE UNCHANGED vars
  BY <1>2, StutterInv
<1>3. QED
  BY <1>1, <1>2

LEMMA Invariant == Spec => []IInv
<1>1. Init => IInv
  BY InitInv
<1>2. IInv /\ [Next]_vars => IInv'
  BY StepInv
<1>3. QED
  BY <1>1, <1>2, PTL DEF Spec

-----------------------------------------------------------------------------
(* What the runs check, for every value of the constants. *)

\* Types and capacities: no queue, batch, client list or to_remove grows beyond
\* its array, and the place to write to next never leaves the list by more than one.
THEOREM TypesAndCapacities == Spec => []TypeOK
<1>1. IInv => TypeOK
  <2>1. SUFFICES ASSUME IInv PROVE TypeOK
    OBVIOUS
  <2>2. TypeInv /\ Bounds
    BY <2>1 DEF IInv
  <2>3. /\ bc.at \in Places /\ bc.batch \in [Kind -> Seq(Frame)] /\ bc.idx \in Nat \ {0}
        /\ bc.to_remove \in Seq(Nat \ {0})
    BY <2>2 DEF TypeInv, Local
  <2>4. MaxClients \in Nat
    BY BroadcastAssumption DEF BroadcastAssumption
  <2>5. bc.idx \in 1 .. MaxClients + 1
    BY <2>2, <2>3, <2>4 DEF Bounds
  <2>6. bc.to_remove \in Seq(1 .. MaxClients)
    <3>1. \A j \in 1 .. Len(bc.to_remove) : bc.to_remove[j] \in 1 .. MaxClients
      <4>1. \A j \in 1 .. Len(bc.to_remove) : bc.to_remove[j] \in Nat \ {0}
        BY <2>3, ElementOfSeq
      <4>2. QED
        BY <2>2, <2>4, <4>1 DEF Bounds
    <3>2. /\ Len(bc.to_remove) \in Nat
          /\ bc.to_remove = [j \in 1 .. Len(bc.to_remove) |-> bc.to_remove[j]]
      BY <2>3, LenProperties
    <3>3. bc.to_remove \in [1 .. Len(bc.to_remove) -> 1 .. MaxClients]
      BY <3>1, <3>2
    <3>4. QED
      BY <3>2, <3>3, SeqDef
  <2>7. \A k \in Kind : /\ queue[k] \in Seq(Frame) /\ Len(queue[k]) =< QueueCap[k]
                        /\ bc.batch[k] \in Seq(Frame) /\ Len(bc.batch[k]) =< BatchCap[k]
                        /\ dropped[k] \in Nat /\ reported[k] \in Nat
                        /\ produced[k] \in 0 .. MaxFrames[k]
    <3>1. \A k \in Kind : produced[k] \in Nat /\ MaxFrames[k] \in Nat /\ produced[k] =< MaxFrames[k]
      BY <2>2, BroadcastAssumption DEF BroadcastAssumption, TypeInv, Bounds
    <3>2. QED
      BY <2>2, <2>3, <3>1 DEF TypeInv, Bounds
  <2>8. \A c \in Conns :
          /\ sock[c].state \in States
          /\ sock[c].sent \in Seq(Frame) /\ sock[c].joined \in Nat /\ sock[c].missed \in BOOLEAN
    BY <2>2 DEF TypeInv, Socket
  <2>9. QED
    BY <2>2, <2>3, <2>5, <2>6, <2>7, <2>8 DEF TypeOK, TypeInv, Bounds, Places, States
<1>2. QED
  BY <1>1, Invariant, PTL

\* Between broadcasts the list has the open connections and no others, each once,
\* whichever clients failed and in whatever order they were removed.
THEOREM ListIsExact == Spec => []ListExact
<1>1. IInv => ListExact
  <2>1. SUFFICES ASSUME IInv, lock = "none", bc.at # "panicked"
                 PROVE  /\ IsInjective(clients)
                        /\ Range(clients) = {c \in Conns : sock[c].state = "open"}
    BY DEF ListExact
  <2>2. TypeInv /\ LockInv /\ ListInv
    BY <2>1 DEF IInv
  <2>3. bc.at \notin {"write", "panicked"} /\ bc.to_remove = <<>>
    BY <2>1, <2>2 DEF LockInv, ListInv
  <2>4. /\ DOMAIN clients = 1 .. Len(clients)
        /\ \A i \in 1 .. Len(clients) : clients[i] \in Conns
    BY <2>2, LenProperties, ElementOfSeq DEF TypeInv
  <2>5. IsInjective(clients)
    BY <2>2, <2>4 DEF ListInv, IsInjective
  <2>6. \A i \in 1 .. Len(clients) : ~Failing(i)
    BY <2>3, EmptySeq DEF Failing
  <2>7. \A i \in 1 .. Len(clients) : sock[clients[i]].state = "open"
    BY <2>1, <2>2, <2>4, <2>6 DEF ListInv
  <2>8. \A c \in Conns : sock[c].state = "open" => \E i \in 1 .. Len(clients) : clients[i] = c
    BY <2>2 DEF ListInv
  <2>9. QED
    BY <2>4, <2>5, <2>7, <2>8 DEF Range
<1>2. QED
  BY <1>1, Invariant, PTL

\* After shutdown at most one client is left: the one that the acceptor had in
\* hand when the list was drained.
THEOREM OneLateClient == Spec => []LateClient
<1>1. IInv => LateClient
  BY LenProperties DEF IInv, TypeInv, LateInv, LateClient
<1>2. QED
  BY <1>1, Invariant, PTL

\* A client whose writes all succeeded has been sent every frame broadcast since
\* it joined, and nothing else.
THEOREM NoClientMissesAFrame == Spec => []Gapless
<1>1. IInv => Gapless
  <2>1. SUFFICES ASSUME IInv, NEW c \in Range(clients), lock = "none", bc.at # "panicked",
                        ~sock[c].missed
                 PROVE  sock[c].sent = SubSeq(log, sock[c].joined + 1, Len(log))
    BY DEF Gapless
  <2>2. TypeInv /\ LockInv /\ ListInv /\ GapInv
    BY <2>1 DEF IInv
  <2>3. bc.at \notin {"write", "panicked"} /\ bc.to_remove = <<>>
    BY <2>1, <2>2 DEF LockInv, ListInv
  <2>4. PICK i \in 1 .. Len(clients) : clients[i] = c
    BY <2>2, LenProperties DEF TypeInv, Range
  <2>5. clients[i] \in Conns /\ ~Failing(i)
    BY <2>2, <2>3, ElementOfSeq, EmptySeq DEF TypeInv, Failing
  <2>6. sock[c].state = "open"
    BY <2>1, <2>2, <2>4, <2>5 DEF ListInv
  <2>7. Complete(i)
    BY <2>1, <2>2 DEF GapInv
  <2>8. QED
    BY <2>1, <2>3, <2>4, <2>6, <2>7 DEF Complete
<1>2. QED
  BY <1>1, Invariant, PTL

\* The frames of a kind reach every client in the order in which the writer
\* produced them, over queue, batch and socket, with any drops and failures.
THEOREM FramesArriveInOrder == Spec => []InOrder
<1>1. IInv => InOrder
  BY DEF IInv, OrderInv, Rising, InOrder
<1>2. QED
  BY <1>1, Invariant, PTL

\* Every frame produced is in its queue, in the batch, broadcast, or counted as
\* dropped: the counters that Report swaps with zero lose nothing.
THEOREM FramesAreAccounted == Spec => []Accounted
<1>1. IInv => Accounted
  BY DEF IInv
<1>2. QED
  BY <1>1, Invariant, PTL

=============================================================================
