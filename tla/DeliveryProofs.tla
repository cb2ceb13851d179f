--------------------------- MODULE DeliveryProofs ---------------------------
(***************************************************************************)
(* Proofs about the way of a request through Worker, from recvfrom to      *)
(* sendto: where its message is, and in which order replies leave.         *)
(***************************************************************************)
EXTENDS WorkerProofs

(* The ids in a queue *)

\* No id is twice in a queue; ids grow along it.
Once(s) == \A i, j \in DOMAIN s : s[i].id = s[j].id => i = j

Increasing(s) == \A i, j \in DOMAIN s : i < j => s[i].id < s[j].id

\* A dequeue takes the id of the oldest message from a queue.
LEMMA TakeIds ==
  ASSUME NEW s \in Queue, s # <<>>, Once(s)
  PROVE  /\ Head(s) \in Message /\ Head(s).id \in Ids(s)
         /\ Ids(Tail(s)) = Ids(s) \ {Head(s).id}
         /\ Once(Tail(s))
         /\ Increasing(s) => /\ Increasing(Tail(s))
                             /\ \A x \in Ids(Tail(s)) : Head(s).id < x
<1> DEFINE t == Tail(s)
           n == Len(s)
<1>1. /\ n \in Nat /\ n >= 1 /\ DOMAIN s = 1 .. n /\ Head(s) \in Message /\ Head(s) = s[1]
      /\ \A i \in 1 .. n : s[i].id \in Nat
      /\ Ids(s) = {s[i].id : i \in 1 .. n}
  BY QueueElements, TailProperties, Zenon
<1>2. t \in Queue /\ Len(t) = n - 1 /\ \A i \in 1 .. n - 1 : t[i] = s[i + 1]
  BY TailProperties, Zenon
<1>3. DOMAIN t = 1 .. n - 1 /\ Ids(t) = {t[i].id : i \in 1 .. n - 1}
  BY <1>2, QueueElements, Zenon
<1>4. \A i \in 1 .. n - 1 : i + 1 \in 1 .. n /\ i + 1 # 1
  BY <1>1
<1>5. \A j \in 1 .. n : j # 1 => j - 1 \in 1 .. n - 1 /\ (j - 1) + 1 = j
  BY <1>1
<1>6. \A i, j \in 1 .. n : s[i].id = s[j].id => i = j
  BY <1>1, Zenon DEF Once
<1> HIDE DEF t, n
<1>7. Ids(t) \subseteq Ids(s) \ {Head(s).id}
  <2> SUFFICES ASSUME NEW i \in 1 .. n - 1 PROVE t[i].id \in Ids(s) \ {Head(s).id}
    BY <1>3, Zenon
  <2>1. t[i] = s[i + 1] /\ i + 1 \in 1 .. n /\ i + 1 # 1 /\ 1 \in 1 .. n
    BY <1>1, <1>2, <1>4, SMTT(30)
  <2> QED
    BY <1>1, <1>6, <2>1, Zenon
<1>8. Ids(s) \ {Head(s).id} \subseteq Ids(t)
  <2> SUFFICES ASSUME NEW j \in 1 .. n, s[j].id # s[1].id PROVE s[j].id \in Ids(t)
    BY <1>1, Zenon
  <2>1. j - 1 \in 1 .. n - 1 /\ (j - 1) + 1 = j
    BY <1>5, Zenon
  <2>2. t[j - 1] = s[j]
    BY <1>2, <2>1, Zenon
  <2> QED
    BY <1>3, <2>1, <2>2, Zenon
<1>9. Once(t)
  <2> SUFFICES ASSUME NEW i \in 1 .. n - 1, NEW j \in 1 .. n - 1, t[i].id = t[j].id PROVE i = j
    BY <1>3, Zenon DEF Once
  <2>1. s[i + 1].id = s[j + 1].id
    BY <1>2, Zenon
  <2>2. i + 1 = j + 1
    BY <1>4, <1>6, <2>1, Zenon
  <2> QED
    BY <2>2, SMTT(30)
<1>10. ASSUME Increasing(s)
       PROVE  Increasing(t) /\ \A x \in Ids(t) : Head(s).id < x
  <2>1. \A i, j \in 1 .. n : i < j => s[i].id < s[j].id
    BY <1>1, <1>10, Zenon DEF Increasing
  <2>2. ASSUME NEW i \in 1 .. n - 1, NEW j \in 1 .. n - 1, i < j PROVE t[i].id < t[j].id
    <3>1. t[i] = s[i + 1] /\ t[j] = s[j + 1] /\ i + 1 < j + 1
      BY <1>2, <2>2, SMTT(30)
    <3> QED
      BY <1>4, <2>1, <3>1, Zenon
  <2>3. ASSUME NEW i \in 1 .. n - 1 PROVE s[1].id < t[i].id
    <3>1. t[i] = s[i + 1] /\ 1 < i + 1 /\ 1 \in 1 .. n
      BY <1>1, <1>2, SMTT(30)
    <3> QED
      BY <1>4, <2>1, <3>1, Zenon
  <2> QED
    BY <1>1, <1>3, <2>2, <2>3, Zenon DEF Increasing
<1>11. Head(s).id \in Ids(s)
  <2>1. 1 \in 1 .. n
    BY <1>1
  <2> QED
    BY <1>1, <2>1, Zenon
<1> QED
  BY <1>1, <1>7, <1>8, <1>9, <1>10, <1>11, Zenon DEF t

\* An enqueue adds the id of its message and drops the ids it discards.
LEMMA PutIds ==
  ASSUME NEW s \in Queue, NEW m \in Message, Once(s)
  PROVE  /\ DroppedIds(s) \subseteq Ids(s)
         /\ Ids(Enq(s, m, Capacity)) = (Ids(s) \ DroppedIds(s)) \cup {m.id}
         /\ m.id \notin Ids(s) => Once(Enq(s, m, Capacity))
         /\ Increasing(s) /\ (\A x \in Ids(s) : x < m.id) => Increasing(Enq(s, m, Capacity))
<1> DEFINE n == Len(s)
           d == Dropped(s, Capacity)
           r == Enq(s, m, Capacity)
           k == n - d
<1>1. /\ n \in Nat /\ DOMAIN s = 1 .. n
      /\ \A i \in 1 .. n : s[i].id \in Nat
      /\ Ids(s) = {s[i].id : i \in 1 .. n}
  BY QueueElements, Zenon
<1>2. /\ d \in 0 .. n /\ r \in Queue /\ Len(r) = k + 1
      /\ \A i \in 1 .. k : r[i] = s[d + i]
      /\ r[k + 1] = m
      /\ DroppedIds(s) = {s[i].id : i \in 1 .. d}
  BY EnqProperties, Zenon
<1> HIDE DEF r
<1>3. DOMAIN r = 1 .. k + 1 /\ Ids(r) = {r[i].id : i \in 1 .. k + 1}
  BY <1>2, QueueElements, Zenon
<1> HIDE DEF n, d
<1>4. /\ k \in Nat /\ \A i \in 1 .. k + 1 : i \in 1 .. k \/ i = k + 1
      /\ k + 1 \in 1 .. k + 1 /\ \A i \in 1 .. k : i \in 1 .. k + 1 /\ i < k + 1 /\ i # k + 1
  BY <1>1, <1>2, SMTT(30)
<1>5. \A i \in 1 .. k : d + i \in 1 .. n /\ d + i \notin 1 .. d
  BY <1>1, <1>2, SMTT(30)
<1>6. \A i \in 1 .. d : i \in 1 .. n
  BY <1>1, <1>2, SMTT(30)
<1>7. \A j \in 1 .. n : j \in 1 .. d \/ (j - d \in 1 .. k /\ d + (j - d) = j)
  BY <1>1, <1>2, SMTT(30)
<1>8. \A i, j \in 1 .. n : s[i].id = s[j].id => i = j
  BY <1>1, Zenon DEF Once
<1>9. \A i, j \in 1 .. k : (d + i = d + j => i = j) /\ (i < j => d + i < d + j)
  BY <1>1, <1>2, SMTT(30)
<1> HIDE DEF k
<1>10. DroppedIds(s) \subseteq Ids(s)
  BY <1>1, <1>2, <1>6, Zenon
<1>11. ASSUME NEW i \in 1 .. k PROVE s[d + i].id \in Ids(s) \ DroppedIds(s)
  <2>1. d + i \in 1 .. n /\ d + i \notin 1 .. d
    BY <1>5, Zenon
  <2>2. ASSUME NEW j \in 1 .. d PROVE s[j].id # s[d + i].id
    <3>1. j \in 1 .. n /\ j # d + i
      BY <1>6, <2>1, Zenon
    <3> QED
      BY <1>8, <2>1, <3>1, Zenon
  <2> QED
    BY <1>1, <1>2, <2>1, <2>2, Zenon
<1>12. Ids(r) = (Ids(s) \ DroppedIds(s)) \cup {m.id}
  <2>1. ASSUME NEW x \in Ids(r) PROVE x \in (Ids(s) \ DroppedIds(s)) \cup {m.id}
    <3>1. PICK i \in 1 .. k + 1 : x = r[i].id
      BY <1>3, <2>1, Zenon
    <3>2. CASE i \in 1 .. k
      BY <1>2, <1>11, <3>1, <3>2, Zenon
    <3>3. CASE i = k + 1
      BY <1>2, <3>1, <3>3, Zenon
    <3> QED
      BY <1>4, <3>2, <3>3, Zenon
  <2>2. ASSUME NEW x \in Ids(s) \ DroppedIds(s) PROVE x \in Ids(r)
    <3>1. PICK j \in 1 .. n : x = s[j].id
      BY <1>1, <2>2, Zenon
    <3>2. j \notin 1 .. d
      BY <1>2, <2>2, <3>1, Zenon
    <3>3. j - d \in 1 .. k /\ d + (j - d) = j
      BY <1>7, <3>2, Zenon
    <3>4. r[j - d] = s[j] /\ j - d \in 1 .. k + 1
      BY <1>2, <1>4, <3>3, Zenon
    <3> QED
      BY <1>3, <3>1, <3>4, Zenon
  <2>3. m.id \in Ids(r)
    BY <1>2, <1>3, <1>4, Zenon
  <2> QED
    BY <2>1, <2>2, <2>3, Zenon
<1>13. ASSUME m.id \notin Ids(s) PROVE Once(r)
  <2> SUFFICES ASSUME NEW i \in 1 .. k + 1, NEW j \in 1 .. k + 1, r[i].id = r[j].id PROVE i = j
    BY <1>3, Zenon DEF Once
  <2>1. CASE i \in 1 .. k /\ j \in 1 .. k
    <3>1. s[d + i].id = s[d + j].id
      BY <1>2, <2>1, Zenon
    <3>2. d + i = d + j
      BY <1>5, <1>8, <2>1, <3>1, Zenon
    <3> QED
      BY <1>9, <2>1, <3>2, Zenon
  <2>2. CASE i = k + 1 /\ j \in 1 .. k
    BY <1>2, <1>11, <1>13, <2>2, Zenon
  <2>3. CASE i \in 1 .. k /\ j = k + 1
    BY <1>2, <1>11, <1>13, <2>3, Zenon
  <2> QED
    BY <1>4, <2>1, <2>2, <2>3, Zenon
<1>14. ASSUME Increasing(s), \A x \in Ids(s) : x < m.id PROVE Increasing(r)
  <2> SUFFICES ASSUME NEW i \in 1 .. k + 1, NEW j \in 1 .. k + 1, i < j PROVE r[i].id < r[j].id
    BY <1>3, Zenon DEF Increasing
  <2>1. i \in 1 .. k
    BY <1>4, SMTT(30)
  <2>2. CASE j \in 1 .. k
    <3>1. s[d + i].id < s[d + j].id
      BY <1>1, <1>5, <1>9, <1>14, <2>1, <2>2, Zenon DEF Increasing
    <3> QED
      BY <1>2, <2>1, <2>2, <3>1, Zenon
  <2>3. CASE j = k + 1
    BY <1>2, <1>11, <1>14, <2>1, <2>3, Zenon
  <2> QED
    BY <1>4, <2>2, <2>3, Zenon
<1> QED
  BY <1>10, <1>12, <1>13, <1>14, Zenon DEF r

-----------------------------------------------------------------------------
(* The places of the ids *)

PlaceNames == {"rmsg", "inq", "umsg", "outq", "smsg", "sent", "discarded"}

IdOf(m) == IF m = NoMessage THEN {} ELSE {m.id}

\* The ids at each place.
At == [p \in PlaceNames |->
         CASE p = "rmsg" -> IdOf(rmsg)
           [] p = "inq" -> Ids(inq)
           [] p = "umsg" -> IdOf(umsg)
           [] p = "outq" -> Ids(outq)
           [] p = "smsg" -> IdOf(smsg)
           [] p = "sent" -> {sent[k].msg.id : k \in DOMAIN sent}
           [] p = "discarded" -> discarded]

LEMMA AtIs ==
  /\ At["rmsg"] = IdOf(rmsg) /\ At["inq"] = Ids(inq) /\ At["umsg"] = IdOf(umsg)
  /\ At["outq"] = Ids(outq) /\ At["smsg"] = IdOf(smsg)
  /\ At["sent"] = {sent[k].msg.id : k \in DOMAIN sent} /\ At["discarded"] = discarded
BY Zenon DEF At, PlaceNames

LEMMA AtWillBe ==
  /\ At'["rmsg"] = IdOf(rmsg') /\ At'["inq"] = Ids(inq') /\ At'["umsg"] = IdOf(umsg')
  /\ At'["outq"] = Ids(outq') /\ At'["smsg"] = IdOf(smsg')
  /\ At'["sent"] = {sent'[k].msg.id : k \in DOMAIN sent'} /\ At'["discarded"] = discarded'
BY Zenon DEF At, PlaceNames, IdOf, Ids

\* The ids of D go from the place p to the place q.
Moved(F, G, p, q, D) ==
  /\ G[p] = F[p] \ D
  /\ G[q] = F[q] \cup D
  /\ \A r \in PlaceNames \ {p, q} : G[r] = F[r]

\* The ids of E go from p to q, and those of D from q to the discarded ones.
Put(F, G, p, q, D, E) ==
  /\ G[p] = F[p] \ E
  /\ G[q] = (F[q] \ D) \cup E
  /\ G["discarded"] = F["discarded"] \cup D
  /\ \A r \in PlaceNames \ {p, q, "discarded"} : G[r] = F[r]

\* What a step does to the places and to the queues.
Still == /\ \A p \in PlaceNames : At'[p] = At[p]
         /\ UNCHANGED <<inq, outq, sent, arrived>>

Arrives == /\ At["rmsg"] = {} /\ At'["rmsg"] = {arrived + 1} /\ arrived' = arrived + 1
           /\ \A p \in PlaceNames \ {"rmsg"} : At'[p] = At[p]
           /\ UNCHANGED <<inq, outq, sent>>

Dies == /\ \E p \in {"rmsg", "smsg"} : Moved(At, At', p, "discarded", At[p])
        /\ UNCHANGED <<inq, outq, sent, arrived>>

PutsIn == /\ \E p \in {"rmsg", "umsg"}, m \in Message :
               /\ At[p] = {m.id}
               /\ p = "umsg" => user = "wait_add"
               /\ inq' = Enq(inq, m, Capacity)
               /\ Put(At, At', p, "inq", DroppedIds(inq), {m.id})
          /\ UNCHANGED <<outq, sent, arrived>>

PutsOut == /\ \E m \in Message :
                /\ At["umsg"] = {m.id}
                /\ outq' = Enq(outq, m, Capacity)
                /\ Put(At, At', "umsg", "outq", DroppedIds(outq), {m.id})
           /\ UNCHANGED <<inq, sent, arrived>>

TakesIn == /\ inq # <<>> /\ inq' = Tail(inq) /\ At["umsg"] = {}
           /\ Moved(At, At', "inq", "umsg", {Head(inq).id})
           /\ UNCHANGED <<outq, sent, arrived>>

TakesOut == /\ outq # <<>> /\ outq' = Tail(outq) /\ At["smsg"] = {}
            /\ Moved(At, At', "outq", "smsg", {Head(outq).id})
            /\ UNCHANGED <<inq, sent, arrived>>

Sends == /\ \E e \in [to : Clients, msg : Message] :
              /\ At["smsg"] = {e.msg.id}
              /\ sent' = Append(sent, e)
              /\ Moved(At, At', "smsg", "sent", {e.msg.id})
         /\ UNCHANGED <<inq, outq, arrived>>

Releases == /\ inq' = <<>> /\ outq' = <<>>
            /\ At'["inq"] = {} /\ At'["outq"] = {}
            /\ At'["discarded"] = At["discarded"] \cup At["inq"] \cup At["outq"]
            /\ \A p \in PlaceNames \ {"inq", "outq", "discarded"} : At'[p] = At[p]
            /\ UNCHANGED <<sent, arrived>>

\* A message has an id, NoMessage has none.
LEMMA IdsOf ==
  /\ IdOf(NoMessage) = {}
  /\ \A m \in Message \cup Received : IdOf(m) = {m.id}
BY NoMessageAssumption, Zenon DEF IdOf

\* What the receive thread does to the places.
LEMMA ReceiverMoves ==
  ASSUME TypeInv, Once(inq), ReceiveThread, UNCHANGED workvars
  PROVE  Still \/ Arrives \/ Dies \/ PutsIn
<1>0. /\ UNCHANGED <<umsg, outq, smsg, sent>> /\ inq \in Queue /\ ReceiverInv
  BY Zenon DEF ReceiveThread, ReceiverProgress, ReceiveLoop, RecvTimeout, ReadMessage, AddIncoming,
     RecvFrom, CreateFails, queues, history, sendvars, uservars, TypeInv, TypeOK, ConnTypeOK
<1>a. At'["umsg"] = At["umsg"] /\ At'["outq"] = At["outq"] /\ At'["smsg"] = At["smsg"]
      /\ At'["sent"] = At["sent"]
  BY <1>0, AtIs, AtWillBe, Zenon
<1>1. CASE ReceiveLoop \/ RecvTimeout
  <2>1. UNCHANGED <<rmsg, inq, discarded, arrived>>
    BY <1>1, Zenon DEF ReceiveLoop, RecvTimeout, queues, history
  <2> QED
    BY <1>0, <1>a, <2>1, AtIs, AtWillBe, Zenon DEF Still, PlaceNames
<1>2. CASE RecvFrom
  <2>1. /\ UNCHANGED <<inq, discarded>> /\ arrived' = arrived + 1 /\ receiver = "recv"
        /\ receiver' = "read"
        /\ \E c \in Clients, k \in Kinds : rmsg' = [id |-> arrived + 1, from |-> c, kind |-> k]
    BY <1>2, Zenon DEF RecvFrom, queues
  <2>2. rmsg = NoMessage
    BY <1>0, <2>1, Zenon DEF ReceiverInv
  <2>3. rmsg'.id = arrived + 1
    BY <2>1, SMTT(30)
  <2>4. rmsg' \in Received
    <3>1. arrived + 1 \in 1 .. MaxDatagrams
      BY <1>2, NetAssumption, SMTT(30) DEF RecvFrom, TypeInv, TypeOK, ConnTypeOK
    <3> QED
      BY <2>1, <3>1, SMTT(30) DEF Received
  <2>5. IdOf(rmsg) = {} /\ IdOf(rmsg') = {arrived + 1}
    BY <2>2, <2>3, <2>4, IdsOf, Zenon
  <2> QED
    BY <1>0, <1>a, <2>1, <2>5, AtIs, AtWillBe, Zenon DEF Arrives, PlaceNames
<1>3. CASE ReadMessage
  <2>1. /\ UNCHANGED <<inq, discarded, arrived>> /\ receiver = "read" /\ receiver' = "add"
        /\ rmsg'.id = rmsg.id
    BY <1>3, Zenon DEF ReadMessage, queues, history
  <2>2. rmsg \in Received /\ rmsg' \in Message
    <3>1. ReceiverInv'
      BY ReceiverTypes, Zenon
    <3> QED
      BY <1>0, <2>1, <3>1, Zenon DEF ReceiverInv
  <2>3. IdOf(rmsg') = IdOf(rmsg)
    BY <2>1, <2>2, IdsOf, Zenon
  <2> QED
    BY <1>0, <1>a, <2>1, <2>3, AtIs, AtWillBe, Zenon DEF Still, PlaceNames
<1>4. CASE CreateFails
  <2>1. /\ UNCHANGED <<inq, arrived>> /\ receiver = "read" /\ rmsg' = NoMessage
        /\ discarded' = discarded \cup {rmsg.id}
    BY <1>4, Zenon DEF CreateFails, queues
  <2>2. IdOf(rmsg) = {rmsg.id} /\ IdOf(rmsg') = {}
    BY <1>0, <2>1, IdsOf, Zenon DEF ReceiverInv
  <2>3. Moved(At, At', "rmsg", "discarded", At["rmsg"])
    BY <1>a, <2>1, <2>2, AtIs, AtWillBe, Zenon DEF Moved, PlaceNames
  <2> QED
    BY <1>0, <2>1, <2>3, Zenon DEF Dies
<1>5. CASE AddIncoming
  <2>1. /\ UNCHANGED arrived /\ receiver = "add" /\ rmsg' = NoMessage
        /\ inq' = Enq(inq, rmsg, Capacity)
        /\ discarded' = discarded \cup DroppedIds(inq)
    BY <1>5, Zenon DEF AddIncoming
  <2>2. rmsg \in Message
    BY <1>0, <2>1, Zenon DEF ReceiverInv
  <2>3. IdOf(rmsg) = {rmsg.id} /\ IdOf(rmsg') = {}
    BY <2>1, <2>2, IdsOf, Zenon
  <2>4. Ids(inq') = (Ids(inq) \ DroppedIds(inq)) \cup {rmsg.id}
    BY <1>0, <2>1, <2>2, PutIds, Zenon
  <2>5. Put(At, At', "rmsg", "inq", DroppedIds(inq), {rmsg.id})
    BY <1>a, <2>1, <2>3, <2>4, AtIs, AtWillBe, Zenon DEF Put, PlaceNames
  <2>6. At["rmsg"] = {rmsg.id}
    BY <2>3, AtIs, Zenon
  <2> QED
    BY <1>0, <2>1, <2>2, <2>5, <2>6, Zenon DEF PutsIn
<1> QED
  BY <1>1, <1>2, <1>3, <1>4, <1>5, Zenon DEF ReceiveThread, ReceiverProgress

\* What the send thread does to the places.
LEMMA SenderMoves ==
  ASSUME TypeInv, Once(outq), SendThread, UNCHANGED workvars
  PROVE  Still \/ Dies \/ TakesOut \/ Sends
<1>0. /\ UNCHANGED <<rmsg, umsg, inq, arrived>> /\ outq \in Queue /\ SenderInv /\ SenderInv'
  <2>1. SenderInv'
    BY SenderTypes, Zenon
  <2> QED
    BY <2>1, Zenon DEF SendThread, SendLoop, WriteMessage, SendTo, queues, history, recvvars, uservars,
       TypeInv, TypeOK, ConnTypeOK
<1>a. At'["rmsg"] = At["rmsg"] /\ At'["umsg"] = At["umsg"] /\ At'["inq"] = At["inq"]
  BY <1>0, AtIs, AtWillBe, Zenon
<1>1. CASE UNCHANGED <<outq, smsg, sent, discarded>>
  BY <1>0, <1>a, <1>1, AtIs, AtWillBe, Zenon DEF Still, PlaceNames
<1>2. CASE SendLoop /\ ~UNCHANGED <<outq, smsg>>
  <2>1. /\ UNCHANGED <<sent, discarded>> /\ sender = "loop" /\ sender' = "write"
        /\ outq # <<>> /\ smsg' = Head(outq) /\ outq' = Tail(outq)
    BY <1>2, Zenon DEF SendLoop, history
  <2>2. smsg = NoMessage /\ smsg' \in Message
    BY <1>0, <2>1, Zenon DEF SenderInv
  <2>3. IdOf(smsg) = {} /\ IdOf(smsg') = {Head(outq).id}
    BY <2>1, <2>2, IdsOf, Zenon
  <2>4. Ids(outq') = Ids(outq) \ {Head(outq).id}
    BY <1>0, <2>1, TakeIds, Zenon
  <2>5. Moved(At, At', "outq", "smsg", {Head(outq).id})
    <3>1. /\ At'["outq"] = At["outq"] \ {Head(outq).id} /\ At'["smsg"] = At["smsg"] \cup {Head(outq).id}
          /\ At'["sent"] = At["sent"] /\ At'["discarded"] = At["discarded"]
      BY <2>1, <2>3, <2>4, AtIs, AtWillBe, SMTT(30)
    <3> QED
      BY <1>a, <3>1, Zenon DEF Moved, PlaceNames
  <2>6. At["smsg"] = {}
    BY <2>3, AtIs, Zenon
  <2> QED
    BY <1>0, <2>1, <2>5, <2>6, Zenon DEF TakesOut
<1>3. CASE WriteMessage /\ ~UNCHANGED smsg
  <2>1. /\ UNCHANGED <<outq, sent>> /\ sender = "write" /\ smsg' = NoMessage
        /\ discarded' = discarded \cup {smsg.id}
    BY <1>3, Zenon DEF WriteMessage, queues
  <2>2. IdOf(smsg) = {smsg.id} /\ IdOf(smsg') = {}
    BY <1>0, <2>1, IdsOf, Zenon DEF SenderInv
  <2>3. Moved(At, At', "smsg", "discarded", At["smsg"])
    <3>1. /\ At'["outq"] = At["outq"] /\ At'["smsg"] = At["smsg"] \ At["smsg"]
          /\ At'["sent"] = At["sent"] /\ At'["discarded"] = At["discarded"] \cup At["smsg"]
      BY <2>1, <2>2, AtIs, AtWillBe, SMTT(30)
    <3> QED
      BY <1>a, <3>1, Zenon DEF Moved, PlaceNames
  <2> QED
    BY <1>0, <2>1, <2>3, Zenon DEF Dies
<1>4. CASE SendTo
  <2> DEFINE e == [to |-> incoming_addr, msg |-> smsg]
  <2>1. /\ UNCHANGED <<outq, discarded>> /\ sender = "send" /\ smsg' = NoMessage
        /\ sent' = Append(sent, e)
    BY <1>4, Zenon DEF SendTo, queues
  <2>2. smsg \in Message /\ e \in [to : Clients, msg : Message] /\ e.msg = smsg
    BY <1>0, <2>1, Zenon DEF SenderInv
  <2> HIDE DEF e
  <2>3. IdOf(smsg) = {e.msg.id} /\ IdOf(smsg') = {}
    BY <2>1, <2>2, IdsOf, Zenon
  <2>4. At'["sent"] = At["sent"] \cup {e.msg.id}
    BY <2>1, <2>2, SendIds, AtIs, AtWillBe, SMTT(30)
  <2>5. Moved(At, At', "smsg", "sent", {e.msg.id})
    BY <1>a, <2>1, <2>3, <2>4, AtIs, AtWillBe, Zenon DEF Moved, PlaceNames
  <2>6. At["smsg"] = {e.msg.id}
    BY <2>3, AtIs, Zenon
  <2> QED
    BY <1>0, <2>1, <2>2, <2>5, <2>6, Zenon DEF Sends
<1> QED
  <2>1. WriteMessage /\ UNCHANGED smsg => UNCHANGED <<outq, smsg, sent, discarded>>
    <3> SUFFICES ASSUME WriteMessage, UNCHANGED smsg PROVE UNCHANGED <<outq, smsg, sent, discarded>>
      BY Zenon
    <3>1. smsg \in Message /\ smsg # NoMessage
      BY <1>0, NoMessageAssumption, Zenon DEF WriteMessage, SenderInv
    <3> QED
      BY <3>1, Zenon DEF WriteMessage, queues
  <2>2. SendLoop /\ UNCHANGED <<outq, smsg>> => UNCHANGED <<outq, smsg, sent, discarded>>
    BY Zenon DEF SendLoop, history
  <2> QED
    BY <1>1, <1>2, <1>3, <1>4, <2>1, <2>2, Zenon DEF SendThread

\* What the main thread does to the places.
LEMMA OwnerMoves ==
  ASSUME TypeInv, Once(inq), Once(outq), Main
  PROVE  Still \/ PutsIn \/ PutsOut \/ TakesIn \/ Releases
<1>0. inq \in Queue /\ outq \in Queue /\ OwnerInv
  BY Zenon DEF TypeInv, TypeOK, ConnTypeOK
<1>1. CASE UNCHANGED <<rmsg, umsg, smsg, queues, history>>
  <2>1. UNCHANGED <<rmsg, umsg, smsg, inq, outq, arrived, sent, discarded>>
    BY <1>1, Zenon DEF queues, history
  <2> QED
    BY <2>1, AtIs, AtWillBe, Zenon DEF Still, PlaceNames
<1>2. CASE MainMoves
  <2>0. UNCHANGED <<rmsg, smsg, arrived, sent>>
    BY <1>2, Zenon DEF MainMoves, Receive, Send, Release, history, recvvars, sendvars
  <2>a. At'["rmsg"] = At["rmsg"] /\ At'["smsg"] = At["smsg"] /\ At'["sent"] = At["sent"]
    BY <2>0, AtIs, AtWillBe, Zenon
  <2>1. ASSUME NEW at \in {"wait", "update"}, NEW next, Receive(at, next)
        PROVE  TakesIn
    <3>1. /\ user = at /\ inq # <<>> /\ umsg' = Head(inq) /\ inq' = Tail(inq)
          /\ UNCHANGED <<outq, discarded>>
      BY <2>1, Zenon DEF Receive, history
    <3>2. umsg = NoMessage
      BY <1>0, <2>1, <3>1, Zenon DEF OwnerInv, Having
    <3>3. /\ Head(inq) \in Message
          /\ Ids(inq') = Ids(inq) \ {Head(inq).id}
      BY <1>0, <3>1, TakeIds, Zenon
    <3>4. IdOf(umsg) = {} /\ IdOf(umsg') = {Head(inq).id}
      BY <3>1, <3>2, <3>3, IdsOf, Zenon
    <3>5. Moved(At, At', "inq", "umsg", {Head(inq).id})
      <4>1. /\ At'["inq"] = At["inq"] \ {Head(inq).id} /\ At'["umsg"] = At["umsg"] \cup {Head(inq).id}
            /\ At'["outq"] = At["outq"] /\ At'["discarded"] = At["discarded"]
        BY <3>1, <3>3, <3>4, AtIs, AtWillBe, SMTT(30)
      <4> QED
        BY <2>a, <4>1, Zenon DEF Moved, PlaceNames
    <3>6. At["umsg"] = {}
      BY <3>4, AtIs, Zenon
    <3> QED
      BY <2>0, <3>1, <3>5, <3>6, Zenon DEF TakesIn
  <2>2. CASE /\ user = "wait_add" /\ user' = "loop"
             /\ inq' = Enq(inq, umsg, Capacity)
             /\ discarded' = discarded \cup DroppedIds(inq)
             /\ umsg' = NoMessage
             /\ UNCHANGED <<recvvars, sendvars, sockvars, outq, arrived, sent>>
    <3>1. umsg \in Message
      BY <1>0, <2>2, Zenon DEF OwnerInv, Having
    <3>2. IdOf(umsg) = {umsg.id} /\ IdOf(umsg') = {}
      BY <2>2, <3>1, IdsOf, Zenon
    <3>3. Ids(inq') = (Ids(inq) \ DroppedIds(inq)) \cup {umsg.id}
      BY <1>0, <2>2, <3>1, PutIds, Zenon
    <3>4. Put(At, At', "umsg", "inq", DroppedIds(inq), {umsg.id})
      BY <2>2, <2>a, <3>2, <3>3, AtIs, AtWillBe, Zenon DEF Put, PlaceNames
    <3>5. At["umsg"] = {umsg.id}
      BY <3>2, AtIs, Zenon
    <3> QED
      BY <2>0, <2>2, <3>1, <3>4, <3>5, Zenon DEF PutsIn
  <2>3. ASSUME NEW m \in Message, m.id = umsg.id, umsg \in Message,
               NEW at, Send(m, at, "update")
        PROVE  PutsOut
    <3>1. /\ outq' = Enq(outq, m, Capacity) /\ discarded' = discarded \cup DroppedIds(outq)
          /\ umsg' = NoMessage /\ UNCHANGED inq
      BY <2>3, Zenon DEF Send
    <3>2. IdOf(umsg) = {m.id} /\ IdOf(umsg') = {}
      BY <2>3, <3>1, IdsOf, Zenon
    <3>3. Ids(outq') = (Ids(outq) \ DroppedIds(outq)) \cup {m.id}
      BY <1>0, <2>3, <3>1, PutIds, Zenon
    <3>4. Put(At, At', "umsg", "outq", DroppedIds(outq), {m.id})
      BY <2>a, <3>1, <3>2, <3>3, AtIs, AtWillBe, Zenon DEF Put, PlaceNames
    <3>5. At["umsg"] = {m.id}
      BY <3>2, AtIs, Zenon
    <3> QED
      BY <2>0, <2>3, <3>1, <3>4, <3>5, Zenon DEF PutsOut
  <2>4. ASSUME NEW m \in Replies(umsg, result), Send(m, "reply", "update") PROVE PutsOut
    <3>1. umsg \in Message /\ result.text \in Texts
      BY <1>0, <2>4, Zenon DEF OwnerInv, Having, Send
    <3>2. m \in Message /\ m.id = umsg.id
      BY <2>4, <3>1, ReplyTypes, Zenon
    <3> QED
      BY ONLY <2>3, <2>4, <3>1, <3>2, Zenon
  <2>5. ASSUME Send(umsg, "handle", "update") PROVE PutsOut
    <3>1. umsg \in Message
      BY <1>0, <2>5, Zenon DEF OwnerInv, Having, Send
    <3> QED
      BY ONLY <2>3, <2>5, <3>1, Zenon
  <2>6. ASSUME Release("release", "exit") PROVE Releases
    <3>1. /\ inq' = <<>> /\ outq' = <<>> /\ UNCHANGED umsg
          /\ discarded' = discarded \cup Ids(inq) \cup Ids(outq)
      BY <2>6, Zenon DEF Release
    <3>2. Ids(inq') = {} /\ Ids(outq') = {}
      BY <3>1, SMTT(30) DEF Ids
    <3>3. /\ At'["inq"] = {} /\ At'["outq"] = {}
          /\ At'["discarded"] = At["discarded"] \cup At["inq"] \cup At["outq"]
          /\ At'["umsg"] = At["umsg"]
      BY <3>1, <3>2, AtIs, AtWillBe, Zenon
    <3> QED
      BY <2>0, <2>a, <3>1, <3>3, Zenon DEF Releases, PlaceNames
  <2> QED
    BY <1>2, <2>1, <2>2, <2>4, <2>5, <2>6, Zenon DEF MainMoves
<1> QED
  BY <1>1, <1>2, MainSteps, Zenon

\* What any step does to the places.
LEMMA PlaceSteps ==
  ASSUME TypeInv, Once(inq), Once(outq), [Next]_vars
  PROVE  \/ Still \/ Arrives \/ Dies \/ PutsIn \/ PutsOut
         \/ TakesIn \/ TakesOut \/ Sends \/ Releases
<1>1. CASE ParentDies \/ UNCHANGED vars
  <2>1. UNCHANGED <<rmsg, umsg, smsg, inq, outq, arrived, sent, discarded>>
    BY <1>1, Zenon DEF ParentDies, vars, connvars, recvvars, sendvars, queues, uservars, history
  <2> QED
    BY <2>1, AtIs, AtWillBe, Zenon DEF Still, PlaceNames
<1> QED
  BY <1>1, ReceiverMoves, SenderMoves, OwnerMoves, Zenon DEF Next

-----------------------------------------------------------------------------
(* Every request is at one place *)

\* The ids of 1 .. n are spread over the places, each at one of them.
Spread(F, n) ==
  /\ \A p \in PlaceNames : F[p] \subseteq 1 .. n
  /\ \A i \in 1 .. n : \E p \in PlaceNames : i \in F[p]
  /\ \A p, q \in PlaceNames : p # q => F[p] \cap F[q] = {}

SentOnce == \A i, j \in DOMAIN sent : sent[i].msg.id = sent[j].msg.id => i = j

AccountInv == Spread(At, arrived) /\ Once(inq) /\ Once(outq) /\ SentOnce

\* What moves from one place to another stays spread.
LEMMA MoveSpread ==
  ASSUME NEW F, NEW G, NEW n, NEW p \in PlaceNames, NEW q \in PlaceNames, p # q,
         NEW D, D \subseteq F[p], Moved(F, G, p, q, D), Spread(F, n)
  PROVE  Spread(G, n)
<1>1. /\ G[p] = F[p] \ D /\ G[q] = F[q] \cup D
      /\ \A r \in PlaceNames : r # p /\ r # q => G[r] = F[r]
  BY Zenon DEF Moved
<1>2. /\ \A r \in PlaceNames : F[r] \subseteq 1 .. n
      /\ \A i \in 1 .. n : \E r \in PlaceNames : i \in F[r]
      /\ \A r, s \in PlaceNames : r # s => F[r] \cap F[s] = {}
  BY Zenon DEF Spread
<1>3. ASSUME NEW r \in PlaceNames PROVE G[r] \subseteq 1 .. n
  BY <1>1, <1>2, Zenon
<1>4. ASSUME NEW i \in 1 .. n PROVE \E r \in PlaceNames : i \in G[r]
  <2>1. PICK r \in PlaceNames : i \in F[r]
    BY <1>2, Zenon
  <2>2. CASE i \in D
    BY <1>1, <2>2, Zenon
  <2>3. CASE i \notin D
    <3>1. i \in G[r]
      BY <1>1, <2>1, <2>3, Zenon
    <3> QED
      BY <3>1, Zenon
  <2> QED
    BY <2>2, <2>3, Zenon
<1>5. ASSUME NEW r \in PlaceNames, NEW s \in PlaceNames, r # s, NEW x, x \in G[r], x \in G[s] PROVE FALSE
  <2>1. \A u \in PlaceNames : x \in G[u] => IF x \in D THEN u = q ELSE x \in F[u]
    <3> SUFFICES ASSUME NEW u \in PlaceNames, x \in G[u]
                 PROVE  IF x \in D THEN u = q ELSE x \in F[u]
      BY Zenon
    <3>1. CASE x \in D
      BY <1>1, <1>2, <3>1, Zenon
    <3>2. CASE x \notin D
      BY <1>1, <3>2, Zenon
    <3> QED
      BY <3>1, <3>2, Zenon
  <2> QED
    BY <1>2, <1>5, <2>1, Zenon
<1> QED
  <2>1. \A r, s \in PlaceNames : r # s => G[r] \cap G[s] = {}
    BY <1>5, Zenon
  <2> QED
    BY <1>3, <1>4, <2>1, Zenon DEF Spread

\* So does what is put into a queue, and what falls out of it.
LEMMA PutSpread ==
  ASSUME NEW F, NEW G, NEW n, NEW p \in {"rmsg", "umsg"}, NEW q \in {"inq", "outq"},
         NEW D, D \subseteq F[q], NEW E, E \subseteq F[p],
         Put(F, G, p, q, D, E), Spread(F, n)
  PROVE  Spread(G, n)
<1> DEFINE H == [r \in PlaceNames |-> IF r = q THEN F[q] \ D
                                      ELSE IF r = "discarded" THEN F["discarded"] \cup D ELSE F[r]]
<1>1. /\ p \in PlaceNames /\ q \in PlaceNames /\ "discarded" \in PlaceNames
      /\ p # q /\ p # "discarded" /\ q # "discarded"
  BY Zenon DEF PlaceNames
<1>2. /\ H[q] = F[q] \ D /\ H["discarded"] = F["discarded"] \cup D
      /\ \A r \in PlaceNames \ {q, "discarded"} : H[r] = F[r]
  BY <1>1, Zenon
<1> HIDE DEF H
<1>3. Moved(F, H, q, "discarded", D)
  BY <1>2, Zenon DEF Moved
<1>4. Spread(H, n)
  BY <1>1, <1>3, MoveSpread, Zenon
<1>5. Moved(H, G, p, q, E) /\ E \subseteq H[p]
  <2>1. H[p] = F[p]
    BY <1>1, <1>2, Zenon
  <2>2. /\ G[p] = F[p] \ E /\ G[q] = (F[q] \ D) \cup E
        /\ G["discarded"] = F["discarded"] \cup D
        /\ \A r \in PlaceNames \ {p, q, "discarded"} : G[r] = F[r]
    BY Zenon DEF Put
  <2>3. ASSUME NEW r \in PlaceNames \ {p, q} PROVE G[r] = H[r]
    BY <1>1, <1>2, <2>2, <2>3, Zenon
  <2> QED
    BY <1>2, <2>1, <2>2, <2>3, Zenon DEF Moved
<1> QED
  BY <1>1, <1>4, <1>5, MoveSpread, Zenon

\* Initially nothing has arrived.
LEMMA AccountInit ==
  ASSUME Init
  PROVE  AccountInv
<1>1. /\ rmsg = NoMessage /\ umsg = NoMessage /\ smsg = NoMessage /\ inq = <<>> /\ outq = <<>>
      /\ sent = <<>> /\ discarded = {} /\ arrived = 0
  BY Zenon DEF Init, ConnInit
<1>2. Ids(inq) = {} /\ Ids(outq) = {} /\ {sent[k].msg.id : k \in DOMAIN sent} = {}
  BY <1>1 DEF Ids
<1>3. \A p \in PlaceNames : At[p] = {}
  BY <1>1, <1>2, AtIs, IdsOf, Zenon DEF PlaceNames
<1>4. Spread(At, arrived)
  BY <1>1, <1>3 DEF Spread
<1> QED
  BY <1>1, <1>4 DEF AccountInv, Once, SentOnce

\* No step loses or doubles a request.
LEMMA AccountStep ==
  ASSUME TypeInv, AccountInv, [Next]_vars
  PROVE  AccountInv'
<1>0. /\ inq \in Queue /\ outq \in Queue /\ arrived \in Nat
      /\ Spread(At, arrived) /\ Once(inq) /\ Once(outq) /\ SentOnce
  BY SMTT(30) DEF TypeInv, TypeOK, ConnTypeOK, AccountInv
<1>a. /\ At["inq"] = Ids(inq) /\ At["outq"] = Ids(outq)
      /\ At["sent"] = {sent[k].msg.id : k \in DOMAIN sent}
      /\ At["umsg"] \cap At["inq"] = {} /\ At["rmsg"] \cap At["inq"] = {}
      /\ At["umsg"] \cap At["outq"] = {} /\ At["smsg"] \cap At["sent"] = {}
  BY <1>0, AtIs, Zenon DEF Spread, PlaceNames
<1>b. UNCHANGED sent => SentOnce'
  BY <1>0, Zenon DEF SentOnce
<1>1. CASE Still
  <2>1. Spread(At', arrived')
    BY <1>0, <1>1, Zenon DEF Still, Spread
  <2> QED
    BY <1>0, <1>1, <1>b, <2>1, Zenon DEF AccountInv, Still
<1>2. CASE Arrives
  <2>1. /\ \A p \in PlaceNames : IF p = "rmsg" THEN At[p] = {} /\ At'[p] = {arrived + 1}
                                 ELSE At'[p] = At[p]
        /\ arrived' = arrived + 1
    BY <1>2, Zenon DEF Arrives
  <2>2. 1 .. arrived' = (1 .. arrived) \cup {arrived + 1} /\ arrived + 1 \notin 1 .. arrived
    BY <1>0, <2>1, SMTT(30)
  <2>3. "rmsg" \in PlaceNames
    BY Zenon DEF PlaceNames
  <2>4. Spread(At', arrived')
    <3>1. ASSUME NEW p \in PlaceNames PROVE At'[p] \subseteq 1 .. arrived'
      BY <1>0, <2>1, <2>2, Zenon DEF Spread
    <3>2. ASSUME NEW i \in 1 .. arrived' PROVE \E p \in PlaceNames : i \in At'[p]
      <4>1. CASE i = arrived + 1
        BY <2>1, <2>3, <4>1, Zenon
      <4>2. CASE i \in 1 .. arrived
        <5>1. PICK p \in PlaceNames : i \in At[p]
          BY <1>0, <4>2, Zenon DEF Spread
        <5>2. i \in At'[p]
          BY <2>1, <5>1, Zenon
        <5> QED
          BY <5>2, Zenon
      <4> QED
        BY <2>2, <4>1, <4>2, Zenon
    <3>3. ASSUME NEW p \in PlaceNames, NEW q \in PlaceNames, p # q PROVE At'[p] \cap At'[q] = {}
      BY <1>0, <2>1, <2>2, <3>3, SMTT(30) DEF Spread
    <3> QED
      BY <3>1, <3>2, <3>3, Zenon DEF Spread
  <2> QED
    BY <1>0, <1>2, <1>b, <2>4, Zenon DEF AccountInv, Arrives
<1>3. CASE Dies
  <2>1. PICK p \in {"rmsg", "smsg"} : Moved(At, At', p, "discarded", At[p])
    BY <1>3, Zenon DEF Dies
  <2>2. Spread(At', arrived')
    <3>1. p \in PlaceNames /\ "discarded" \in PlaceNames /\ p # "discarded" /\ arrived' = arrived
      BY <1>3, Zenon DEF PlaceNames, Dies
    <3> QED
      BY <1>0, <2>1, <3>1, MoveSpread, Zenon
  <2> QED
    BY <1>0, <1>3, <1>b, <2>2, Zenon DEF AccountInv, Dies
<1>4. CASE PutsIn
  <2>1. PICK p \in {"rmsg", "umsg"}, m \in Message :
          /\ At[p] = {m.id} /\ inq' = Enq(inq, m, Capacity)
          /\ Put(At, At', p, "inq", DroppedIds(inq), {m.id})
    BY <1>4, Zenon DEF PutsIn
  <2>2. m.id \notin Ids(inq)
    BY <1>a, <2>1, Zenon
  <2>3. Once(inq') /\ DroppedIds(inq) \subseteq At["inq"]
    BY <1>0, <1>a, <2>1, <2>2, PutIds, SMTT(30)
  <2>4. Spread(At', arrived)
    BY <1>0, <2>1, <2>3, PutSpread, SMTT(30)
  <2> QED
    BY <1>0, <1>4, <1>b, <2>3, <2>4, Zenon DEF AccountInv, PutsIn
<1>5. CASE PutsOut
  <2>1. PICK m \in Message :
          /\ At["umsg"] = {m.id} /\ outq' = Enq(outq, m, Capacity)
          /\ Put(At, At', "umsg", "outq", DroppedIds(outq), {m.id})
    BY <1>5, Zenon DEF PutsOut
  <2>2. m.id \notin Ids(outq)
    BY <1>a, <2>1, Zenon
  <2>3. Once(outq') /\ DroppedIds(outq) \subseteq At["outq"]
    BY <1>0, <1>a, <2>1, <2>2, PutIds
  <2>4. Spread(At', arrived)
    BY <1>0, <2>1, <2>3, PutSpread, Zenon
  <2> QED
    BY <1>0, <1>5, <1>b, <2>3, <2>4, Zenon DEF AccountInv, PutsOut
<1>6. CASE TakesIn
  <2>1. /\ inq # <<>> /\ inq' = Tail(inq) /\ Moved(At, At', "inq", "umsg", {Head(inq).id})
        /\ UNCHANGED <<outq, sent, arrived>>
    BY <1>6, Zenon DEF TakesIn
  <2>2. Once(inq') /\ {Head(inq).id} \subseteq At["inq"]
    BY <1>0, <1>a, <2>1, TakeIds, SMTT(30)
  <2>3. Spread(At', arrived)
    <3> DEFINE D == {Head(inq).id}
    <3>1. "inq" \in PlaceNames /\ "umsg" \in PlaceNames /\ "inq" # "umsg"
      BY Zenon DEF PlaceNames
    <3>2. Moved(At, At', "inq", "umsg", D) /\ D \subseteq At["inq"] /\ Spread(At, arrived)
      BY <1>0, <2>1, <2>2, Zenon
    <3> HIDE DEF D
    <3> QED
      BY ONLY <3>1, <3>2, MoveSpread, Zenon
  <2> QED
    BY <1>0, <1>b, <2>1, <2>2, <2>3, Zenon DEF AccountInv
<1>7. CASE TakesOut
  <2>1. /\ outq # <<>> /\ outq' = Tail(outq) /\ Moved(At, At', "outq", "smsg", {Head(outq).id})
        /\ UNCHANGED <<inq, sent, arrived>>
    BY <1>7, Zenon DEF TakesOut
  <2>2. Once(outq') /\ {Head(outq).id} \subseteq At["outq"]
    BY <1>0, <1>a, <2>1, TakeIds, SMTT(30)
  <2>3. Spread(At', arrived)
    <3> DEFINE D == {Head(outq).id}
    <3>1. "outq" \in PlaceNames /\ "smsg" \in PlaceNames /\ "outq" # "smsg"
      BY Zenon DEF PlaceNames
    <3>2. Moved(At, At', "outq", "smsg", D) /\ D \subseteq At["outq"] /\ Spread(At, arrived)
      BY <1>0, <2>1, <2>2, Zenon
    <3> HIDE DEF D
    <3> QED
      BY ONLY <3>1, <3>2, MoveSpread, Zenon
  <2> QED
    BY <1>0, <1>b, <2>1, <2>2, <2>3, Zenon DEF AccountInv
<1>8. CASE Sends
  <2>1. PICK e \in [to : Clients, msg : Message] :
          /\ At["smsg"] = {e.msg.id} /\ sent' = Append(sent, e)
          /\ Moved(At, At', "smsg", "sent", {e.msg.id})
    BY <1>8, Zenon DEF Sends
  <2>2. Spread(At', arrived)
    <3>1. "smsg" \in PlaceNames /\ "sent" \in PlaceNames /\ "smsg" # "sent"
      BY Zenon DEF PlaceNames
    <3> QED
      BY <1>0, <2>1, <3>1, MoveSpread, Zenon
  <2>3. /\ DOMAIN sent = 1 .. Len(sent) /\ Len(sent) \in Nat
        /\ DOMAIN sent' = 1 .. Len(sent) + 1
        /\ \A k \in 1 .. Len(sent) : sent'[k] = sent[k]
        /\ sent'[Len(sent) + 1] = e
    BY <2>1, SendIds, Zenon
  <2>4. \A k \in 1 .. Len(sent) : sent[k].msg.id # e.msg.id
    BY <1>a, <2>1, <2>3, Zenon
  <2>5. SentOnce'
    <3> SUFFICES ASSUME NEW i \in 1 .. Len(sent) + 1, NEW j \in 1 .. Len(sent) + 1,
                        sent'[i].msg.id = sent'[j].msg.id
                 PROVE  i = j
      BY <2>3, Zenon DEF SentOnce
    <3>1. /\ i \in 1 .. Len(sent) \/ i = Len(sent) + 1
          /\ j \in 1 .. Len(sent) \/ j = Len(sent) + 1
      BY <2>3, SMTT(30)
    <3>2. \A k, l \in 1 .. Len(sent) : sent[k].msg.id = sent[l].msg.id => k = l
      BY <1>0, <2>3, Zenon DEF SentOnce
    <3> QED
      BY <2>3, <2>4, <3>1, <3>2, Zenon
  <2> QED
    BY <1>0, <1>8, <2>2, <2>5, Zenon DEF AccountInv, Sends
<1>9. CASE Releases
  <2> DEFINE H == [r \in PlaceNames |-> IF r = "inq" THEN {}
                                        ELSE IF r = "discarded" THEN At["discarded"] \cup At["inq"]
                                        ELSE At[r]]
  <2>0. "inq" \in PlaceNames /\ "outq" \in PlaceNames /\ "discarded" \in PlaceNames
    BY Zenon DEF PlaceNames
  <2>1. /\ H["inq"] = At["inq"] \ At["inq"] /\ H["discarded"] = At["discarded"] \cup At["inq"]
        /\ \A r \in PlaceNames \ {"inq", "discarded"} : H[r] = At[r]
    BY <2>0, Zenon
  <2> HIDE DEF H
  <2>2. Moved(At, H, "inq", "discarded", At["inq"])
    BY <2>1, Zenon DEF Moved
  <2>3. Spread(H, arrived)
    BY <1>0, <2>0, <2>2, MoveSpread, Zenon
  <2>4. Moved(H, At', "outq", "discarded", H["outq"])
    <3>1. /\ At'["inq"] = {} /\ At'["outq"] = {}
          /\ At'["discarded"] = At["discarded"] \cup At["inq"] \cup At["outq"]
          /\ \A p \in PlaceNames \ {"inq", "outq", "discarded"} : At'[p] = At[p]
      BY <1>9, Zenon DEF Releases
    <3>2. H["outq"] = At["outq"]
      BY <2>0, <2>1, Zenon
    <3>3. ASSUME NEW r \in PlaceNames \ {"outq", "discarded"} PROVE At'[r] = H[r]
      BY <2>1, <3>1, <3>3, Zenon
    <3> QED
      BY <2>1, <3>1, <3>2, <3>3, Zenon DEF Moved
  <2>5. Spread(At', arrived)
    BY <2>0, <2>3, <2>4, MoveSpread, Zenon
  <2>6. inq' = <<>> /\ outq' = <<>> /\ UNCHANGED <<sent, arrived>>
    BY <1>9, Zenon DEF Releases
  <2>7. Once(inq') /\ Once(outq')
    BY <2>6 DEF Once
  <2> QED
    BY <1>b, <2>5, <2>6, <2>7, Zenon DEF AccountInv
<1> QED
  BY <1>0, <1>1, <1>2, <1>3, <1>4, <1>5, <1>6, <1>7, <1>8, <1>9, PlaceSteps, Zenon

\* An id is at one index of a queue that has it.
LEMMA QueuedIs ==
  ASSUME NEW name, NEW s, NEW i, Once(s)
  PROVE  /\ i \notin Ids(s) => Queued(name, s, i) = {}
         /\ i \in Ids(s) => \E x : Queued(name, s, i) = {x}
<1>1. i \notin Ids(s) => Queued(name, s, i) = {}
  BY Zenon DEF Queued, Ids
<1>2. ASSUME i \in Ids(s) PROVE \E x : Queued(name, s, i) = {x}
  <2>1. PICK k \in DOMAIN s : s[k].id = i
    BY <1>2, Zenon DEF Ids
  <2>2. {j \in DOMAIN s : s[j].id = i} = {k}
    BY <2>1, Zenon DEF Once
  <2>3. Queued(name, s, i) = {<<name, k>>}
    BY <2>2, Zenon DEF Queued
  <2> QED
    BY <2>3, Zenon
<1> QED
  BY <1>1, <1>2, Zenon

\* The parts of Places.
Part(i) == [p \in PlaceNames |->
              CASE p = "rmsg" -> Local("rmsg", rmsg, i)
                [] p = "inq" -> Queued("inq", inq, i)
                [] p = "umsg" -> Local("umsg", umsg, i)
                [] p = "outq" -> Queued("outq", outq, i)
                [] p = "smsg" -> Local("smsg", smsg, i)
                [] p = "sent" -> {<<"sent", k>> : k \in {j \in DOMAIN sent : sent[j].msg.id = i}}
                [] p = "discarded" -> IF i \in discarded THEN {<<"discarded", 0>>} ELSE {}]

LEMMA PartIs ==
  ASSUME AccountInv, NEW i, NEW p \in PlaceNames
  PROVE  /\ i \notin At[p] => Part(i)[p] = {}
         /\ i \in At[p] => \E x : Part(i)[p] = {x}
<1>0. Once(inq) /\ Once(outq) /\ SentOnce
  BY Zenon DEF AccountInv
<1>1. ASSUME NEW name, NEW m
      PROVE  /\ i \notin IdOf(m) => Local(name, m, i) = {}
             /\ i \in IdOf(m) => \E x : Local(name, m, i) = {x}
  <2>1. i \in IdOf(m) <=> m # NoMessage /\ m.id = i
    BY Zenon DEF IdOf
  <2>2. CASE m # NoMessage /\ m.id = i
    <3>1. Local(name, m, i) = {<<name, 0>>}
      BY <2>2, Zenon DEF Local
    <3> QED
      BY <2>1, <2>2, <3>1, Zenon
  <2>3. CASE ~(m # NoMessage /\ m.id = i)
    <3>1. Local(name, m, i) = {}
      BY <2>3, Zenon DEF Local
    <3> QED
      BY <2>1, <2>3, <3>1, Zenon
  <2> QED
    BY <2>2, <2>3, Zenon
<1>2. CASE p = "rmsg"
  <2>1. Part(i)[p] = Local("rmsg", rmsg, i) /\ At[p] = IdOf(rmsg)
    BY <1>2, AtIs, Zenon DEF Part
  <2> QED
    BY <1>1, <2>1, Zenon
<1>3. CASE p = "umsg"
  <2>1. Part(i)[p] = Local("umsg", umsg, i) /\ At[p] = IdOf(umsg)
    BY <1>3, AtIs, Zenon DEF Part
  <2> QED
    BY <1>1, <2>1, Zenon
<1>4. CASE p = "smsg"
  <2>1. Part(i)[p] = Local("smsg", smsg, i) /\ At[p] = IdOf(smsg)
    BY <1>4, AtIs, Zenon DEF Part
  <2> QED
    BY <1>1, <2>1, Zenon
<1>5. CASE p = "inq"
  <2>1. Part(i)[p] = Queued("inq", inq, i) /\ At[p] = Ids(inq)
    BY <1>5, AtIs, Zenon DEF Part
  <2> QED
    BY <1>0, <2>1, QueuedIs, Zenon
<1>6. CASE p = "outq"
  <2>1. Part(i)[p] = Queued("outq", outq, i) /\ At[p] = Ids(outq)
    BY <1>6, AtIs, Zenon DEF Part
  <2> QED
    BY <1>0, <2>1, QueuedIs, Zenon
<1>7. CASE p = "sent"
  <2> DEFINE K == {j \in DOMAIN sent : sent[j].msg.id = i}
  <2>1. /\ Part(i)[p] = {<<"sent", k>> : k \in K}
        /\ At[p] = {sent[k].msg.id : k \in DOMAIN sent}
    BY <1>7, AtIs, Zenon DEF Part
  <2>2. i \notin At[p] => K = {}
    BY <2>1, Zenon
  <2>3. ASSUME i \in At[p] PROVE \E k : K = {k}
    <3>1. PICK k \in DOMAIN sent : sent[k].msg.id = i
      BY <2>1, <2>3, Zenon
    <3>2. K = {k}
      BY <1>0, <3>1, Zenon DEF SentOnce
    <3> QED
      BY <3>2, Zenon
  <2> HIDE DEF K
  <2>4. K = {} => Part(i)[p] = {}
    BY <2>1, Zenon
  <2>5. \A k : K = {k} => Part(i)[p] = {<<"sent", k>>}
    BY <2>1, Zenon
  <2> QED
    BY <2>2, <2>3, <2>4, <2>5, Zenon
<1>8. CASE p = "discarded"
  <2>1. /\ Part(i)[p] = IF i \in discarded THEN {<<"discarded", 0>>} ELSE {}
        /\ At[p] = discarded
    BY <1>8, AtIs, Zenon DEF Part
  <2> QED
    BY <2>1, Zenon
<1> QED
  BY <1>2, <1>3, <1>4, <1>5, <1>6, <1>7, <1>8, Zenon DEF PlaceNames

LEMMA PartsOf ==
  ASSUME NEW i
  PROVE  Places(i) = UNION {Part(i)[p] : p \in PlaceNames}
<1>1. /\ Part(i)["rmsg"] = Local("rmsg", rmsg, i) /\ Part(i)["inq"] = Queued("inq", inq, i)
      /\ Part(i)["umsg"] = Local("umsg", umsg, i) /\ Part(i)["outq"] = Queued("outq", outq, i)
      /\ Part(i)["smsg"] = Local("smsg", smsg, i)
      /\ Part(i)["sent"] = {<<"sent", k>> : k \in {j \in DOMAIN sent : sent[j].msg.id = i}}
      /\ Part(i)["discarded"] = IF i \in discarded THEN {<<"discarded", 0>>} ELSE {}
  BY Zenon DEF Part, PlaceNames
<1>2. Places(i) = Part(i)["rmsg"] \cup Part(i)["inq"] \cup Part(i)["umsg"] \cup Part(i)["outq"]
                    \cup Part(i)["smsg"] \cup Part(i)["sent"] \cup Part(i)["discarded"]
  BY <1>1, Zenon DEF Places, InFlight
<1>3. ASSUME NEW F
      PROVE  UNION {F[p] : p \in PlaceNames}
               = F["rmsg"] \cup F["inq"] \cup F["umsg"] \cup F["outq"]
                   \cup F["smsg"] \cup F["sent"] \cup F["discarded"]
  BY Zenon DEF PlaceNames
<1> QED
  BY <1>2, <1>3, Zenon

\* The cardinality of a set of one element.
LEMMA One ==
  ASSUME NEW x
  PROVE  Cardinality({x}) = 1
<1> DEFINE Counts(f) == f = [T \in SUBSET {x} |-> IF T = {} THEN 0
                                                 ELSE 1 + f[T \ {CHOOSE z : z \in T}]]
           g == [T \in SUBSET {x} |-> IF T = {} THEN 0 ELSE 1]
           h == CHOOSE f : Counts(f)
<1>1. \A T \in SUBSET {x} : T # {} => T \ {CHOOSE z : z \in T} = {}
  BY Zenon
<1>2. Counts(g)
  BY <1>1, SMTT(30)
<1>3. Counts(h)
  BY <1>2, Zenon
<1> HIDE DEF h
<1>4. h[{}] = 0 /\ h[{x}] = 1 + h[{x} \ {CHOOSE z : z \in {x}}]
  BY <1>3, SMTT(30)
<1>5. h[{x}] = 1
  BY <1>1, <1>4, SMTT(30)
<1> QED
  BY <1>5, Zenon DEF Cardinality, h

LEMMA AccountIsAccounted ==
  ASSUME AccountInv
  PROVE  Accounted
<1> SUFFICES ASSUME NEW i \in 1 .. arrived PROVE Cardinality(Places(i)) = 1
  BY Zenon DEF Accounted
<1>1. PICK p \in PlaceNames : i \in At[p] /\ \A q \in PlaceNames : q # p => i \notin At[q]
  BY Zenon DEF AccountInv, Spread
<1>2. PICK x : Part(i)[p] = {x}
  BY <1>1, PartIs, Zenon
<1>3. \A q \in PlaceNames : q # p => Part(i)[q] = {}
  BY <1>1, PartIs, Zenon
<1>4. UNION {Part(i)[q] : q \in PlaceNames} = {x}
  BY <1>2, <1>3, Zenon
<1>5. Places(i) = {x}
  BY <1>4, PartsOf, Zenon
<1> QED
  BY <1>5, One, Zenon

\* Every datagram that arrives is at one place at any time, from recvfrom to
\* sendto: net_connection.c, message_queue.c and server_worker.c lose none,
\* and answer none twice, whatever the capacities and the number of datagrams
\* and whichever calls fail.  Only a full queue and the end of the worker
\* discard one.
THEOREM WorkerAccounts == Spec => []Accounted
<1>1. Init => TypeInv /\ AccountInv
  BY TypeInit, AccountInit, Zenon
<1>2. TypeInv /\ AccountInv /\ [Next]_vars => (TypeInv /\ AccountInv)'
  BY TypeStep, AccountStep, Zenon
<1>3. AccountInv => Accounted
  BY AccountIsAccounted, Zenon
<1> QED
  BY <1>1, <1>2, <1>3, PTL DEF Spec

-----------------------------------------------------------------------------
(* Replies leave in order *)

\* The places on the way of a message, from its end.
Rank == [sent |-> 1, smsg |-> 2, outq |-> 3, umsg |-> 4, inq |-> 5, rmsg |-> 6]
OnWay == {"sent", "smsg", "outq", "umsg", "inq", "rmsg"}

\* Every id is smaller than those behind it.
InOrder(F) == \A p, q \in OnWay : Rank[p] < Rank[q] => \A x \in F[p], y \in F[q] : x < y

OrderInv == /\ InOrder(At) /\ Increasing(inq) /\ Increasing(outq) /\ RepliesInOrder
            /\ user \notin {"wait", "wait_add"}

LEMMA RankIs ==
  /\ Rank["sent"] = 1 /\ Rank["smsg"] = 2 /\ Rank["outq"] = 3
  /\ Rank["umsg"] = 4 /\ Rank["inq"] = 5 /\ Rank["rmsg"] = 6
  /\ \A p \in OnWay : Rank[p] \in Nat /\ p \in PlaceNames /\ p # "discarded"
  /\ \A p, q \in OnWay : Rank[p] = Rank[q] => p = q
BY SMTT(30) DEF Rank, OnWay, PlaceNames

\* Discarding keeps the order.
LEMMA ShrinkInOrder ==
  ASSUME NEW F, NEW G, \A p \in OnWay : G[p] \subseteq F[p], InOrder(F)
  PROVE  InOrder(G)
BY Zenon DEF InOrder

\* So does a move by one place, of the smallest ids.
LEMMA MoveInOrder ==
  ASSUME NEW F, NEW G, NEW p \in OnWay, NEW q \in OnWay, Rank[p] = Rank[q] + 1,
         NEW D, D \subseteq F[p], \A x \in D, y \in F[p] \ D : x < y,
         Moved(F, G, p, q, D), InOrder(F)
  PROVE  InOrder(G)
<1> SUFFICES ASSUME NEW r \in OnWay, NEW s \in OnWay, Rank[r] < Rank[s],
                    NEW x \in G[r], NEW y \in G[s]
             PROVE  x < y
  BY Zenon DEF InOrder
<1>1. /\ G[p] = F[p] \ D /\ G[q] = F[q] \cup D
      /\ \A u \in OnWay : u # p /\ u # q => G[u] = F[u]
  BY RankIs, Zenon DEF Moved
<1>2. /\ Rank[p] \in Nat /\ Rank[q] \in Nat /\ Rank[r] \in Nat /\ Rank[s] \in Nat
      /\ Rank[s] = Rank[p] => s = p
      /\ p # q
  BY RankIs
<1>3. \A u, v \in OnWay : Rank[u] < Rank[v] => \A a \in F[u], b \in F[v] : a < b
  BY Zenon DEF InOrder
<1>4. CASE r = q /\ x \in D
  <2>1. x \in F[p] /\ Rank[p] <= Rank[s] /\ s # q
    BY <1>2, <1>4, SMTT(30)
  <2>2. CASE s = p
    BY <1>1, <1>4, <2>2, Zenon
  <2>3. CASE s # p
    <3>1. Rank[p] < Rank[s]
      BY ONLY <1>2, <2>1, <2>3, SMTT(30)
    <3>2. y \in F[s]
      BY <1>1, <2>1, <2>3, Zenon
    <3> QED
      BY <1>3, <2>1, <3>1, <3>2, Zenon
  <2> QED
    BY <2>2, <2>3, Zenon
<1>5. CASE s = q /\ y \in D
  <2>1. y \in F[p] /\ Rank[r] < Rank[p] /\ r # q /\ r # p
    BY <1>2, <1>5, SMTT(30)
  <2>2. x \in F[r]
    BY <1>1, <2>1, Zenon
  <2> QED
    BY <1>3, <2>1, <2>2, Zenon
<1>6. CASE ~(r = q /\ x \in D) /\ ~(s = q /\ y \in D)
  <2>1. x \in F[r]
    BY <1>1, <1>6, Zenon
  <2>2. y \in F[s]
    BY <1>1, <1>6, Zenon
  <2> QED
    BY <1>3, <2>1, <2>2, Zenon
<1> QED
  BY <1>4, <1>5, <1>6, Zenon

\* And so does putting the id of a thread into the queue ahead of it.
LEMMA PutInOrder ==
  ASSUME NEW F, NEW G, NEW p \in OnWay, NEW q \in OnWay, Rank[p] = Rank[q] + 1,
         NEW D, NEW i, F[p] = {i}, Put(F, G, p, q, D, {i}), InOrder(F)
  PROVE  InOrder(G)
<1> DEFINE H == [r \in PlaceNames |-> IF r = q THEN F[q] \ D
                                      ELSE IF r = "discarded" THEN G[r] ELSE F[r]]
<1>1. /\ p \in PlaceNames /\ q \in PlaceNames /\ p # q /\ p # "discarded" /\ q # "discarded"
      /\ \A u \in OnWay : u \in PlaceNames /\ u # "discarded"
  BY RankIs, SMTT(30)
<1>2. /\ H[q] = F[q] \ D /\ H[p] = F[p]
      /\ \A r \in PlaceNames : r # q /\ r # "discarded" => H[r] = F[r]
      /\ "discarded" \in PlaceNames => H["discarded"] = G["discarded"]
  BY <1>1, Zenon
<1> HIDE DEF H
<1>3. \A u \in OnWay : H[u] \subseteq F[u]
  BY <1>1, <1>2, Zenon
<1>4. InOrder(H)
  BY <1>3, ShrinkInOrder, Zenon
<1>5. Moved(H, G, p, q, {i})
  <2>1. /\ G[p] = F[p] \ {i} /\ G[q] = (F[q] \ D) \cup {i}
        /\ \A r \in PlaceNames : r # p /\ r # q /\ r # "discarded" => G[r] = F[r]
    BY Zenon DEF Put
  <2>2. ASSUME NEW r \in PlaceNames, r # p, r # q PROVE G[r] = H[r]
    BY <1>1, <1>2, <2>1, <2>2, Zenon
  <2> QED
    BY <1>2, <2>1, <2>2, Zenon DEF Moved
<1>6. \A x \in {i}, y \in H[p] \ {i} : x < y
  BY <1>2, Zenon
<1>7. {i} \subseteq H[p]
  BY <1>2, Zenon
<1> QED
  BY ONLY <1>4, <1>5, <1>6, <1>7, MoveInOrder, p \in OnWay, q \in OnWay, Rank[p] = Rank[q] + 1, Zenon

LEMMA OrderInit ==
  ASSUME Init
  PROVE  OrderInv
<1>1. /\ rmsg = NoMessage /\ umsg = NoMessage /\ smsg = NoMessage /\ inq = <<>> /\ outq = <<>>
      /\ sent = <<>> /\ user = "create"
  BY Zenon DEF Init, ConnInit
<1>2. Ids(inq) = {} /\ Ids(outq) = {} /\ {sent[k].msg.id : k \in DOMAIN sent} = {}
  BY <1>1, SMTT(30) DEF Ids
<1>3. \A p \in OnWay : At[p] = {}
  BY <1>1, <1>2, AtIs, IdsOf, Zenon DEF OnWay
<1> QED
  BY <1>1, <1>3, SMTT(30) DEF OrderInv, InOrder, Increasing, RepliesInOrder

\* worker_process_job does not call server_worker_wait_for_connection.
LEMMA NeverWaits ==
  ASSUME ~WaitFirst, user \notin {"wait", "wait_add"}, [Next]_vars
  PROVE  user' \notin {"wait", "wait_add"}
<1>1. CASE CreateWorker
  BY <1>1, Zenon DEF CreateWorker, CreateStep, OpenSocket, BindSocket, CreateQueues
<1>2. CASE StartWorker
  BY <1>2, Zenon DEF StartWorker, StartReceiving, StartSending
<1>3. CASE WaitForConnection
  BY <1>3, Zenon DEF WaitForConnection, Receive
<1>4. CASE CheckStatus \/ UpdateTake \/ OnMessage \/ Reply \/ ReplyUnknown \/ UpdateReturn
  BY <1>4, Zenon DEF CheckStatus, UpdateTake, OnMessage, Reply, ReplyUnknown, UpdateReturn, Receive, Send
<1>5. CASE BeginDelete
  BY <1>5, Zenon DEF BeginDelete
<1>6. CASE StopWorker \/ DeleteWorker
  BY <1>6, Zenon DEF StopWorker, DeleteWorker, StopReceiving, StopSending, JoinReceiver, JoinSender, Release
<1>7. CASE ReceiveThread \/ SendThread \/ ParentDies \/ UNCHANGED vars
  <2>1. UNCHANGED user
    BY <1>7, Zenon DEF ReceiveThread, ReceiverProgress, ReceiveLoop, RecvTimeout, ReadMessage, AddIncoming,
       RecvFrom, CreateFails, SendThread, SendLoop, WriteMessage, SendTo, ParentDies,
       vars, connvars, uservars
  <2> QED
    BY <2>1, Zenon
<1> QED
  BY <1>1, <1>2, <1>3, <1>4, <1>5, <1>6, <1>7 DEF Next, Main

\* No message overtakes another.
LEMMA OrderStep ==
  ASSUME ~WaitFirst, TypeInv, AccountInv, OrderInv, [Next]_vars
  PROVE  OrderInv'
<1>0. /\ inq \in Queue /\ outq \in Queue /\ arrived \in Nat
      /\ Once(inq) /\ Once(outq)
      /\ InOrder(At) /\ Increasing(inq) /\ Increasing(outq) /\ RepliesInOrder
      /\ \A p \in PlaceNames : At[p] \subseteq 1 .. arrived
  BY SMTT(30) DEF TypeInv, TypeOK, ConnTypeOK, AccountInv, OrderInv, Spread
<1>a. /\ At["inq"] = Ids(inq) /\ At["outq"] = Ids(outq)
      /\ At["sent"] = {sent[k].msg.id : k \in DOMAIN sent}
      /\ \A x \in At["inq"], y \in At["rmsg"] : x < y
      /\ \A x \in At["outq"], y \in At["umsg"] : x < y
      /\ \A x \in At["sent"], y \in At["smsg"] : x < y
  <2>1. /\ \A x \in At["inq"], y \in At["rmsg"] : x < y
        /\ \A x \in At["outq"], y \in At["umsg"] : x < y
        /\ \A x \in At["sent"], y \in At["smsg"] : x < y
    BY <1>0, RankIs, SMTT(30) DEF InOrder, OnWay
  <2> QED
    BY <2>1, AtIs, Zenon
<1>b. user \notin {"wait", "wait_add"} /\ user' \notin {"wait", "wait_add"}
  BY NeverWaits, Zenon DEF OrderInv
<1>c. UNCHANGED sent => RepliesInOrder'
  BY <1>0, Zenon DEF RepliesInOrder
<1>d. \A p \in OnWay : p \in PlaceNames /\ p # "discarded"
  BY RankIs, Zenon
<1>1. CASE Still
  <2>1. InOrder(At')
    BY <1>0, <1>1, <1>d, ShrinkInOrder, Zenon DEF Still
  <2> QED
    BY <1>0, <1>1, <1>b, <1>c, <2>1, Zenon DEF OrderInv, Still
<1>2. CASE Arrives
  <2>1. /\ At'["rmsg"] = {arrived + 1}
        /\ \A p \in OnWay : p # "rmsg" => At'[p] = At[p] /\ At[p] \subseteq 1 .. arrived
    BY <1>0, <1>2, <1>d, Zenon DEF Arrives
  <2>2. InOrder(At')
    <3> SUFFICES ASSUME NEW p \in OnWay, NEW q \in OnWay, Rank[p] < Rank[q],
                        NEW x \in At'[p], NEW y \in At'[q]
                 PROVE  x < y
      BY Zenon DEF InOrder
    <3>1. p # "rmsg"
      BY RankIs, SMTT(30) DEF OnWay
    <3>2. x \in At[p] /\ x \in 1 .. arrived
      BY <2>1, <3>1, Zenon
    <3>3. CASE q = "rmsg"
      <4>1. y = arrived + 1
        BY <2>1, <3>3, Zenon
      <4> QED
        BY <1>0, <3>2, <4>1, SMTT(30)
    <3>4. CASE q # "rmsg"
      BY <1>0, <2>1, <3>2, <3>4, Zenon DEF InOrder
    <3> QED
      BY <3>3, <3>4, Zenon
  <2> QED
    BY <1>0, <1>2, <1>b, <1>c, <2>2, Zenon DEF OrderInv, Arrives
<1>3. CASE Dies
  <2>1. PICK p \in {"rmsg", "smsg"} : Moved(At, At', p, "discarded", At[p])
    BY <1>3, Zenon DEF Dies
  <2>2. \A q \in OnWay : At'[q] \subseteq At[q]
    BY <1>d, <2>1, Zenon DEF Moved
  <2>3. InOrder(At')
    BY <1>0, <2>2, ShrinkInOrder, Zenon
  <2> QED
    BY <1>0, <1>3, <1>b, <1>c, <2>3, Zenon DEF OrderInv, Dies
<1>4. CASE PutsIn
  <2>1. PICK m \in Message :
          /\ At["rmsg"] = {m.id} /\ inq' = Enq(inq, m, Capacity)
          /\ Put(At, At', "rmsg", "inq", DroppedIds(inq), {m.id})
    BY <1>4, <1>b, Zenon DEF PutsIn
  <2>2. \A x \in Ids(inq) : x < m.id
    BY <1>a, <2>1, Zenon
  <2>3. Increasing(inq')
    BY <1>0, <2>1, <2>2, PutIds, Zenon
  <2>4. InOrder(At')
    <3>1. "rmsg" \in OnWay /\ "inq" \in OnWay /\ Rank["rmsg"] = Rank["inq"] + 1
      BY RankIs, SMTT(30) DEF OnWay
    <3> QED
      BY <1>0, <2>1, <3>1, PutInOrder, Zenon
  <2> QED
    BY <1>0, <1>4, <1>b, <1>c, <2>3, <2>4, Zenon DEF OrderInv, PutsIn
<1>5. CASE PutsOut
  <2>1. PICK m \in Message :
          /\ At["umsg"] = {m.id} /\ outq' = Enq(outq, m, Capacity)
          /\ Put(At, At', "umsg", "outq", DroppedIds(outq), {m.id})
    BY <1>5, Zenon DEF PutsOut
  <2>2. \A x \in Ids(outq) : x < m.id
    BY <1>a, <2>1, Zenon
  <2>3. Increasing(outq')
    BY <1>0, <2>1, <2>2, PutIds, Zenon
  <2>4. InOrder(At')
    <3>1. "umsg" \in OnWay /\ "outq" \in OnWay /\ Rank["umsg"] = Rank["outq"] + 1
      BY RankIs, SMTT(30) DEF OnWay
    <3> QED
      BY <1>0, <2>1, <3>1, PutInOrder, Zenon
  <2> QED
    BY <1>0, <1>5, <1>b, <1>c, <2>3, <2>4, Zenon DEF OrderInv, PutsOut
<1>6. CASE TakesIn
  <2>1. /\ inq # <<>> /\ inq' = Tail(inq) /\ Moved(At, At', "inq", "umsg", {Head(inq).id})
        /\ UNCHANGED <<outq, sent, arrived>>
    BY <1>6, Zenon DEF TakesIn
  <2>2. /\ Increasing(inq') /\ {Head(inq).id} \subseteq At["inq"]
        /\ \A x \in {Head(inq).id}, y \in At["inq"] \ {Head(inq).id} : x < y
    BY <1>0, <1>a, <2>1, TakeIds, SMTT(30)
  <2>3. InOrder(At')
    <3> DEFINE D == {Head(inq).id}
    <3>1. "inq" \in OnWay /\ "umsg" \in OnWay /\ Rank["inq"] = Rank["umsg"] + 1
      BY RankIs DEF OnWay
    <3>2. /\ Moved(At, At', "inq", "umsg", D) /\ D \subseteq At["inq"] /\ InOrder(At)
          /\ \A x \in D, y \in At["inq"] \ D : x < y
      BY <1>0, <2>1, <2>2, Zenon
    <3> HIDE DEF D
    <3> QED
      BY ONLY <3>1, <3>2, MoveInOrder, Zenon
  <2> QED
    BY <1>0, <1>b, <1>c, <2>1, <2>2, <2>3, Zenon DEF OrderInv
<1>7. CASE TakesOut
  <2>1. /\ outq # <<>> /\ outq' = Tail(outq) /\ Moved(At, At', "outq", "smsg", {Head(outq).id})
        /\ UNCHANGED <<inq, sent, arrived>>
    BY <1>7, Zenon DEF TakesOut
  <2>2. /\ Increasing(outq') /\ {Head(outq).id} \subseteq At["outq"]
        /\ \A x \in {Head(outq).id}, y \in At["outq"] \ {Head(outq).id} : x < y
    BY <1>0, <1>a, <2>1, TakeIds, SMTT(30)
  <2>3. InOrder(At')
    <3> DEFINE D == {Head(outq).id}
    <3>1. "outq" \in OnWay /\ "smsg" \in OnWay /\ Rank["outq"] = Rank["smsg"] + 1
      BY RankIs, SMTT(30) DEF OnWay
    <3>2. /\ Moved(At, At', "outq", "smsg", D) /\ D \subseteq At["outq"] /\ InOrder(At)
          /\ \A x \in D, y \in At["outq"] \ D : x < y
      BY <1>0, <2>1, <2>2, Zenon
    <3> HIDE DEF D
    <3> QED
      BY ONLY <3>1, <3>2, MoveInOrder, Zenon
  <2> QED
    BY <1>0, <1>b, <1>c, <2>1, <2>2, <2>3, Zenon DEF OrderInv
<1>8. CASE Sends
  <2>1. PICK e \in [to : Clients, msg : Message] :
          /\ At["smsg"] = {e.msg.id} /\ sent' = Append(sent, e)
          /\ Moved(At, At', "smsg", "sent", {e.msg.id})
    BY <1>8, Zenon DEF Sends
  <2>2. InOrder(At')
    <3> DEFINE D == {e.msg.id}
    <3>1. "smsg" \in OnWay /\ "sent" \in OnWay /\ Rank["smsg"] = Rank["sent"] + 1
      BY RankIs DEF OnWay
    <3>2. /\ Moved(At, At', "smsg", "sent", D) /\ D \subseteq At["smsg"] /\ InOrder(At)
          /\ \A x \in D, y \in At["smsg"] \ D : x < y
      BY <1>0, <2>1, Zenon
    <3> HIDE DEF D
    <3> QED
      BY ONLY <3>1, <3>2, MoveInOrder, Zenon
  <2>3. /\ DOMAIN sent = 1 .. Len(sent) /\ Len(sent) \in Nat
        /\ DOMAIN sent' = 1 .. Len(sent) + 1
        /\ \A k \in 1 .. Len(sent) : sent'[k] = sent[k]
        /\ sent'[Len(sent) + 1] = e
    BY <2>1, SendIds, Zenon
  <2>4. \A k \in 1 .. Len(sent) : sent[k].msg.id < e.msg.id
    BY <1>a, <2>1, <2>3, Zenon
  <2>5. RepliesInOrder'
    <3> SUFFICES ASSUME NEW i \in 1 .. Len(sent) + 1, NEW j \in 1 .. Len(sent) + 1, i < j
                 PROVE  sent'[i].msg.id < sent'[j].msg.id
      BY <2>3, Zenon DEF RepliesInOrder
    <3>1. /\ i \in 1 .. Len(sent)
          /\ j \in 1 .. Len(sent) \/ j = Len(sent) + 1
      BY <2>3, SMTT(30)
    <3>2. \A k, l \in 1 .. Len(sent) : k < l => sent[k].msg.id < sent[l].msg.id
      BY <1>0, <2>3, Zenon DEF RepliesInOrder
    <3> QED
      BY <2>3, <2>4, <3>1, <3>2, Zenon
  <2> QED
    BY <1>0, <1>8, <1>b, <2>2, <2>5, Zenon DEF OrderInv, Sends
<1>9. CASE Releases
  <2>1. \A p \in OnWay : At'[p] \subseteq At[p]
    BY <1>9, <1>d, Zenon DEF Releases
  <2>2. InOrder(At')
    BY <1>0, <2>1, ShrinkInOrder, Zenon
  <2>3. inq' = <<>> /\ outq' = <<>> /\ UNCHANGED sent
    BY <1>9, Zenon DEF Releases
  <2>4. Increasing(inq') /\ Increasing(outq')
    BY <2>3, SMTT(30) DEF Increasing
  <2> QED
    BY <1>b, <1>c, <2>2, <2>3, <2>4, Zenon DEF OrderInv
<1> QED
  BY <1>0, <1>1, <1>2, <1>3, <1>4, <1>5, <1>6, <1>7, <1>8, <1>9, PlaceSteps, SMTT(30)

\* Replies leave in the order in which their requests arrived, through the two
\* queues of net_connection.c and its three threads, for all capacities and
\* numbers of datagrams and whichever calls fail.  worker_process_job does not
\* call server_worker_wait_for_connection, which puts a message back at the
\* wrong end of its queue.
THEOREM WorkerRepliesInOrder ==
  ASSUME ~WaitFirst
  PROVE  Spec => []RepliesInOrder
<1>1. Init => TypeInv /\ AccountInv /\ OrderInv
  BY TypeInit, AccountInit, OrderInit, Zenon
<1>2. TypeInv /\ AccountInv /\ OrderInv /\ [Next]_vars => (TypeInv /\ AccountInv /\ OrderInv)'
  BY TypeStep, AccountStep, OrderStep, Zenon
<1>3. OrderInv => RepliesInOrder
  BY Zenon DEF OrderInv
<1> QED
  BY <1>1, <1>2, <1>3, PTL DEF Spec

-----------------------------------------------------------------------------
(* The log goes with the replies *)

\* The ids that worker_on_message has not yet dealt with.
Ahead == At["umsg"] \cup At["inq"] \cup At["rmsg"]

\* What was logged lies behind what is still to be dealt with, and an answer
\* on its way agrees with the log.
LogInv ==
  /\ \A m \in Requests : m.text = "request"
  /\ Increasing(journal)
  /\ \A i \in DOMAIN journal : journal[i].id <= arrived /\ \A x \in Ahead : journal[i].id < x
  /\ \A a \in Answers, i \in DOMAIN journal :
       a.id = journal[i].id => a.text \in {journal[i].text, "request"}

\* Only recvfrom brings an id that is to be dealt with.
LEMMA AheadSteps ==
  ASSUME TypeInv, AccountInv, [Next]_vars
  PROVE  /\ Ahead' \subseteq Ahead \cup {arrived + 1}
         /\ arrived' \in {arrived, arrived + 1}
<1>0. /\ inq \in Queue /\ Once(inq) /\ Once(outq)
      /\ At["inq"] = Ids(inq)
      /\ "umsg" \in PlaceNames /\ "inq" \in PlaceNames /\ "rmsg" \in PlaceNames
  BY AtIs, Zenon DEF TypeInv, TypeOK, ConnTypeOK, AccountInv, PlaceNames
<1>a. ASSUME At'["umsg"] \cup At'["inq"] \cup At'["rmsg"]
               \subseteq At["umsg"] \cup At["inq"] \cup At["rmsg"] \cup {arrived + 1}
      PROVE  Ahead' \subseteq Ahead \cup {arrived + 1}
  BY <1>a, Zenon DEF Ahead
<1>1. CASE Still
  BY <1>0, <1>1, <1>a, Zenon DEF Still
<1>2. CASE Arrives
  <2>1. At'["umsg"] = At["umsg"] /\ At'["inq"] = At["inq"] /\ At'["rmsg"] = {arrived + 1}
    BY <1>0, <1>2, Zenon DEF Arrives
  <2> QED
    BY <1>2, <1>a, <2>1, Zenon DEF Arrives
<1>3. CASE Dies
  <2>1. PICK p \in {"rmsg", "smsg"} : Moved(At, At', p, "discarded", At[p])
    BY <1>3, Zenon DEF Dies
  <2>2. At'["umsg"] = At["umsg"] /\ At'["inq"] = At["inq"] /\ At'["rmsg"] \subseteq At["rmsg"]
    BY <1>0, <2>1, Zenon DEF Moved
  <2> QED
    BY <1>3, <1>a, <2>2, Zenon DEF Dies
<1>4. CASE PutsIn
  <2>1. PICK p \in {"rmsg", "umsg"}, m \in Message :
          At[p] = {m.id} /\ Put(At, At', p, "inq", DroppedIds(inq), {m.id})
    BY <1>4, Zenon DEF PutsIn
  <2>2. /\ At'["umsg"] \subseteq At["umsg"] /\ At'["rmsg"] \subseteq At["rmsg"]
        /\ At'["inq"] \subseteq At["inq"] \cup At[p]
    BY <1>0, <2>1, Zenon DEF Put
  <2> QED
    BY <1>4, <1>a, <2>2, Zenon DEF PutsIn
<1>5. CASE PutsOut
  <2>1. PICK m \in Message : Put(At, At', "umsg", "outq", DroppedIds(outq), {m.id})
    BY <1>5, Zenon DEF PutsOut
  <2>2. At'["umsg"] \subseteq At["umsg"] /\ At'["inq"] = At["inq"] /\ At'["rmsg"] = At["rmsg"]
    BY <1>0, <2>1, Zenon DEF Put
  <2> QED
    BY <1>5, <1>a, <2>2, Zenon DEF PutsOut
<1>6. CASE TakesIn
  <2>1. inq # <<>> /\ Moved(At, At', "inq", "umsg", {Head(inq).id}) /\ UNCHANGED arrived
    BY <1>6, Zenon DEF TakesIn
  <2>2. Head(inq).id \in At["inq"]
    BY <1>0, <2>1, TakeIds, Zenon
  <2>3. /\ At'["inq"] \subseteq At["inq"] /\ At'["umsg"] \subseteq At["umsg"] \cup At["inq"]
        /\ At'["rmsg"] = At["rmsg"]
    BY <1>0, <2>1, <2>2, Zenon DEF Moved
  <2> QED
    BY <1>a, <2>1, <2>3, Zenon
<1>7. CASE TakesOut
  <2>1. Moved(At, At', "outq", "smsg", {Head(outq).id}) /\ UNCHANGED arrived
    BY <1>7, Zenon DEF TakesOut
  <2>2. At'["umsg"] = At["umsg"] /\ At'["inq"] = At["inq"] /\ At'["rmsg"] = At["rmsg"]
    BY <1>0, <2>1, Zenon DEF Moved
  <2> QED
    BY <1>a, <2>1, <2>2, Zenon
<1>8. CASE Sends
  <2>1. PICK e \in [to : Clients, msg : Message] : Moved(At, At', "smsg", "sent", {e.msg.id})
    BY <1>8, Zenon DEF Sends
  <2>2. At'["umsg"] = At["umsg"] /\ At'["inq"] = At["inq"] /\ At'["rmsg"] = At["rmsg"]
    BY <1>0, <2>1, Zenon DEF Moved
  <2> QED
    BY <1>8, <1>a, <2>2, Zenon DEF Sends
<1>9. CASE Releases
  <2>1. At'["umsg"] = At["umsg"] /\ At'["inq"] = {} /\ At'["rmsg"] = At["rmsg"] /\ UNCHANGED arrived
    BY <1>0, <1>9, Zenon DEF Releases
  <2> QED
    BY <1>a, <2>1, Zenon
<1> QED
  BY <1>0, <1>1, <1>2, <1>3, <1>4, <1>5, <1>6, <1>7, <1>8, <1>9, PlaceSteps, Zenon

\* The id of an answer is at one of the places behind worker_on_message.
LEMMA AnswerIds ==
  ASSUME TypeInv, NEW a \in Answers
  PROVE  a.id \in At["outq"] \cup At["smsg"] \cup At["sent"]
<1>1. CASE a \in Elements(outq)
  <2>1. a.id \in Ids(outq)
    BY <1>1, Zenon DEF Elements, Ids
  <2> QED
    BY <2>1, AtIs, Zenon
<1>2. CASE sender \in {"write", "send"} /\ a = smsg
  <2>1. smsg \in Message
    BY <1>2, Zenon DEF TypeInv, SenderInv
  <2>2. a.id \in IdOf(smsg)
    BY <1>2, <2>1, IdsOf, Zenon
  <2> QED
    BY <2>2, AtIs, Zenon
<1>3. CASE a \in {sent[k].msg : k \in DOMAIN sent}
  <2>1. a.id \in {sent[k].msg.id : k \in DOMAIN sent}
    BY <1>3, Zenon
  <2> QED
    BY <2>1, AtIs, Zenon
<1> QED
  BY <1>1, <1>2, <1>3, Zenon DEF Answers

\* A step logs behind what was logged, and what it answers.
LEMMA LogStep ==
  ASSUME TypeInv, AccountInv, OrderInv, LogInv, [Next]_vars
  PROVE  LogInv'
<1> DEFINE e == [id |-> umsg.id, text |-> result.text]
           n == Len(journal)
<1>0. /\ OwnerInv /\ arrived \in Nat /\ n \in Nat /\ DOMAIN journal = 1 .. n
      /\ \A i \in 1 .. n : journal[i].id \in Nat
  <2> DEFINE E == [id : 1 .. MaxDatagrams, text : Texts]
  <2>1. OwnerInv /\ arrived \in Nat /\ journal \in Seq(E)
    BY SMTT(30) DEF TypeInv, TypeOK, ConnTypeOK
  <2>2. \A x \in E : x.id \in Nat
    OBVIOUS
  <2> HIDE DEF E
  <2>3. n \in Nat /\ DOMAIN journal = 1 .. n /\ \A i \in 1 .. n : journal[i] \in E
    BY <2>1, SMTT(30)
  <2> QED
    BY <2>1, <2>2, <2>3, Zenon
<1>a. /\ \A m \in Requests : m.text = "request"
      /\ Increasing(journal)
      /\ \A i \in 1 .. n : journal[i].id <= arrived /\ \A x \in Ahead : journal[i].id < x
      /\ \A a \in Answers, i \in 1 .. n :
           a.id = journal[i].id => a.text \in {journal[i].text, "request"}
  BY <1>0, Zenon DEF LogInv
<1> HIDE DEF n
<1>b. user \in Having => /\ umsg \in Message /\ umsg.id \in Nat /\ umsg.text = "request"
                         /\ At["umsg"] = {umsg.id} /\ umsg.id \in Ahead
  <2> SUFFICES ASSUME user \in Having
               PROVE  /\ umsg \in Message /\ umsg.id \in Nat /\ umsg.text = "request"
                      /\ At["umsg"] = {umsg.id} /\ umsg.id \in Ahead
    BY Zenon
  <2>1. umsg \in Message /\ umsg \in Requests
    BY <1>0, Zenon DEF OwnerInv, Requests
  <2>2. umsg.id \in Nat
    BY <2>1 DEF Message
  <2>3. At["umsg"] = {umsg.id}
    BY <2>1, AtIs, IdsOf, Zenon
  <2> QED
    BY <1>a, <2>1, <2>2, <2>3, Zenon DEF Ahead
<1>1. \A m \in Requests' : m.text = "request"
  <2>1. CASE Requests' \subseteq Requests
    BY <1>a, <2>1, Zenon
  <2>2. CASE ReadMessage /\ Requests' \subseteq Requests \cup {rmsg'}
    <3>1. rmsg'.text = "request"
      BY <2>2, Zenon DEF ReadMessage
    <3> QED
      BY <1>a, <2>2, <3>1, Zenon
  <2> QED
    BY <2>1, <2>2, RequestSteps, Zenon
<1>2. \A i \in 1 .. n : journal[i].id <= arrived' /\ \A x \in Ahead' : journal[i].id < x
  <2> SUFFICES ASSUME NEW i \in 1 .. n
               PROVE  journal[i].id <= arrived' /\ \A x \in Ahead' : journal[i].id < x
    BY Zenon
  <2>1. /\ Ahead' \subseteq Ahead \cup {arrived + 1} /\ arrived' \in {arrived, arrived + 1}
    BY AheadSteps, Zenon
  <2>2. journal[i].id \in Nat /\ journal[i].id <= arrived /\ \A x \in Ahead : journal[i].id < x
    BY <1>0, <1>a, Zenon
  <2>3. journal[i].id < arrived + 1 /\ journal[i].id <= arrived + 1
    BY <1>0, <2>2, SMTT(30)
  <2> QED
    BY <2>1, <2>2, <2>3, Zenon
<1>3. \A a \in Answers', i \in 1 .. n :
        a.id = journal[i].id => a.text \in {journal[i].text, "request"}
  <2>1. CASE Answers' \subseteq Answers
    BY <1>a, <2>1, Zenon
  <2>2. ASSUME NEW m \in Replies(umsg, result), user = "reply", Answers' \subseteq Answers \cup {m}
        PROVE  \A a \in Answers', i \in 1 .. n :
                 a.id = journal[i].id => a.text \in {journal[i].text, "request"}
    <3>1. umsg \in Message /\ result.text \in Texts /\ umsg.id \in Nat /\ umsg.id \in Ahead
      BY <1>0, <1>b, <2>2, Zenon DEF OwnerInv, Having
    <3>2. m.id = umsg.id
      BY <2>2, <3>1, ReplyTypes, Zenon
    <3>3. ASSUME NEW i \in 1 .. n PROVE m.id # journal[i].id
      <4>1. journal[i].id < umsg.id /\ journal[i].id \in Nat
        BY <1>0, <1>a, <3>1, Zenon
      <4> QED
        BY ONLY <3>1, <3>2, <4>1, SMTT(30)
    <3> QED
      BY <1>a, <2>2, <3>3, Zenon
  <2>3. CASE user = "handle" /\ Answers' \subseteq Answers \cup {umsg}
    <3>1. umsg.text = "request"
      BY <1>b, <2>3, Zenon DEF Having
    <3> QED
      BY <1>a, <2>3, <3>1, Zenon
  <2> QED
    BY <2>1, <2>2, <2>3, AnswerSteps, Zenon
<1>4. CASE journal' = journal
  BY <1>0, <1>1, <1>2, <1>3, <1>4, <1>a, Zenon DEF LogInv, Increasing
<1>5. CASE Reply /\ journal' = Append(journal, e)
  <2>1. /\ user = "reply" /\ umsg' = NoMessage /\ UNCHANGED <<rmsg, inq, arrived>>
    BY <1>5, Zenon DEF Reply, Send, recvvars
  <2>2. /\ umsg \in Message /\ umsg.id \in Nat /\ umsg.text = "request"
        /\ At["umsg"] = {umsg.id} /\ umsg.id \in Ahead /\ result.text \in Texts
    BY <1>0, <1>b, <2>1, Zenon DEF OwnerInv, Having
  <2>3. e.id = umsg.id /\ e.text = result.text
    BY Zenon
  <2> HIDE DEF e
  <2>4. /\ DOMAIN journal' = 1 .. n + 1 /\ journal'[n + 1] = e
        /\ \A i \in 1 .. n : journal'[i] = journal[i]
    <3> DEFINE E == [id : 1 .. MaxDatagrams, text : Texts]
    <3>1. journal \in Seq(E) /\ e \in E
      <4>1. umsg.id \in 1 .. MaxDatagrams
        BY <2>2, Zenon DEF Message
      <4> QED
        BY <2>2, <4>1, Zenon DEF TypeInv, TypeOK, e
    <3> HIDE DEF E
    <3> QED
      BY ONLY <1>5, <3>1, SMTT(30) DEF n
  <2>5. \A i \in 1 .. n + 1 : i \in 1 .. n \/ i = n + 1
    BY <1>0, SMTT(30)
  <2>6. \A i \in 1 .. n : journal[i].id < umsg.id
    BY <1>a, <2>2, Zenon
  <2>7. umsg.id <= arrived'
    <3>1. umsg.id \in 1 .. arrived
      BY <2>2, Zenon DEF AccountInv, Spread, PlaceNames
    <3> QED
      BY <1>0, <2>1, <3>1, SMTT(30)
  <2>8. \A x \in Ahead' : umsg.id < x
    <3>1. At'["umsg"] = {} /\ At'["inq"] = At["inq"] /\ At'["rmsg"] = At["rmsg"]
      BY <2>1, AtIs, AtWillBe, IdsOf, Zenon
    <3>2. \A x \in At["inq"] \cup At["rmsg"] : umsg.id < x
      <4>1. /\ "umsg" \in OnWay /\ "inq" \in OnWay /\ "rmsg" \in OnWay
            /\ Rank["umsg"] < Rank["inq"] /\ Rank["umsg"] < Rank["rmsg"]
        BY RankIs, SMTT(30) DEF OnWay
      <4> QED
        BY <2>2, <4>1, Zenon DEF OrderInv, InOrder
    <3> QED
      BY <3>1, <3>2, Zenon DEF Ahead
  <2>9. Increasing(journal')
    <3> SUFFICES ASSUME NEW i \in 1 .. n + 1, NEW j \in 1 .. n + 1, i < j
                 PROVE  journal'[i].id < journal'[j].id
      BY <2>4, Zenon DEF Increasing
    <3>1. i \in 1 .. n
      BY <1>0, SMTT(30)
    <3>2. CASE j \in 1 .. n
      BY <1>0, <1>a, <2>4, <3>1, <3>2, Zenon DEF Increasing
    <3>3. CASE j = n + 1
      BY <2>3, <2>4, <2>6, <3>1, <3>3, Zenon
    <3> QED
      BY <2>5, <3>2, <3>3, Zenon
  <2>10. \A i \in DOMAIN journal' :
           journal'[i].id <= arrived' /\ \A x \in Ahead' : journal'[i].id < x
    BY <1>2, <2>3, <2>4, <2>5, <2>7, <2>8, Zenon
  <2>11. \A a \in Answers' : a.id = e.id => a.text \in {e.text, "request"}
    <3>1. \A a \in Answers : a.id # umsg.id
      <4> SUFFICES ASSUME NEW a \in Answers PROVE a.id # umsg.id
        BY Zenon
      <4>1. a.id \in At["outq"] \cup At["smsg"] \cup At["sent"]
        BY AnswerIds, Zenon
      <4>2. /\ "umsg" \in OnWay /\ "outq" \in OnWay /\ "smsg" \in OnWay /\ "sent" \in OnWay
            /\ Rank["outq"] < Rank["umsg"] /\ Rank["smsg"] < Rank["umsg"]
            /\ Rank["sent"] < Rank["umsg"]
        BY RankIs, SMTT(30) DEF OnWay
      <4>3. a.id < umsg.id
        BY <2>2, <4>1, <4>2, Zenon DEF OrderInv, InOrder
      <4> QED
        BY ONLY <2>2, <4>3, SMTT(30)
    <3>2. ASSUME NEW m \in Replies(umsg, result) PROVE m.text \in {e.text, "request"}
      <4>1. umsg \in Message /\ result.text \in Texts
        BY <2>2, Zenon
      <4>2. m.text = result.text \/ m.text = umsg.text
        BY ONLY <3>2, <4>1, ReplyTypes, Zenon
      <4> QED
        BY ONLY <2>2, <2>3, <4>2, Zenon
    <3> QED
      BY <2>1, <2>3, <3>1, <3>2, AnswerSteps, Zenon
  <2>12. \A a \in Answers', i \in DOMAIN journal' :
           a.id = journal'[i].id => a.text \in {journal'[i].text, "request"}
    BY <1>3, <2>4, <2>5, <2>11, Zenon
  <2> QED
    BY <1>1, <2>9, <2>10, <2>12, Zenon DEF LogInv
<1> QED
  BY <1>4, <1>5, HandlerSteps, ReplySends, Zenon DEF e

\* The log of a worker goes with its replies: worker_on_message logs requests
\* in the order in which they arrived, none twice, and nobody is told another
\* result than the one logged for the request, for all capacities and numbers
\* of datagrams and whichever calls fail.
THEOREM WorkerLogFitsReplies ==
  ASSUME ~WaitFirst
  PROVE  Spec => []LogFitsReplies
<1>1. Init => TypeInv /\ AccountInv /\ OrderInv /\ LogInv
  <2> SUFFICES ASSUME Init PROVE LogInv
    BY TypeInit, AccountInit, OrderInit, Zenon
  <2>1. DOMAIN journal = {}
    BY SMTT(30) DEF Init
  <2> QED
    BY <2>1, NothingYet, Zenon DEF LogInv, Increasing
<1>2. TypeInv /\ AccountInv /\ OrderInv /\ LogInv /\ [Next]_vars
        => (TypeInv /\ AccountInv /\ OrderInv /\ LogInv)'
  BY TypeStep, AccountStep, OrderStep, LogStep, Zenon
<1>3. LogInv => LogFitsReplies
  <2> SUFFICES ASSUME LogInv PROVE LogFitsReplies
    BY Zenon
  <2>1. \A i \in DOMAIN sent : sent[i].msg \in Answers
    BY Zenon DEF Answers
  <2> QED
    BY <2>1, Zenon DEF LogInv, Increasing, LogFitsReplies
<1> QED
  BY <1>1, <1>2, <1>3, PTL DEF Spec
=============================================================================
