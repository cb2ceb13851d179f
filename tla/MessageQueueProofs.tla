-------------------------- MODULE MessageQueueProofs --------------------------
(***************************************************************************)
(* Proofs about MessageQueue, for any finite number of threads, any set of *)
(* messages and any capacity, and with failing pthread calls.  What fails  *)
(* for capacity 1 is proved from TwoSlots.                                 *)
(***************************************************************************)
EXTENDS MessageQueue, FiniteSetTheorems, TLAPS

TwoSlots == Capacity > 1
-----------------------------------------------------------------------------
(* The arithmetic of the ring *)

\* (i + 1) % capacity goes round the buffer.
LEMMA IncEq ==
  ASSUME NEW i \in Indices
  PROVE /\ Inc(i) = IF i = Capacity - 1 THEN 0 ELSE i + 1
        /\ Inc(i) \in Indices
BY CapacityAssumption DEF Inc, Indices

\* A sum of two indices leaves the buffer at most once.
LEMMA SlotEq ==
  ASSUME NEW i \in Indices, NEW k \in 0 .. Capacity
  PROVE /\ Slot(i, k) = IF i + k < Capacity THEN i + k ELSE i + k - Capacity
        /\ Slot(i, k) \in Indices
BY CapacityAssumption DEF Slot, Indices

\* Distance and Slot are inverse to each other.
LEMMA DistanceEq ==
  ASSUME NEW i \in Indices, NEW j \in Indices
  PROVE Distance(i, j) \in 0 .. Capacity - 1 /\ Slot(i, Distance(i, j)) = j
<1>1. Distance(i, j) \in 0 .. Capacity - 1
  BY CapacityAssumption DEF Distance, Indices
<1>2. Slot(i, Distance(i, j)) =
        IF i + Distance(i, j) < Capacity THEN i + Distance(i, j)
        ELSE i + Distance(i, j) - Capacity
  BY <1>1, SlotEq, CapacityAssumption
<1> QED
  BY <1>1, <1>2, CapacityAssumption DEF Distance, Indices

\* Slot undoes Distance: j is Distance(i, j) places after i.
LEMMA SlotDistance ==
  ASSUME NEW i \in Indices, NEW k \in 0 .. Capacity - 1
  PROVE Distance(i, Slot(i, k)) = k
<1>1. Slot(i, k) = IF i + k < Capacity THEN i + k ELSE i + k - Capacity
  BY SlotEq, CapacityAssumption
<1> QED
  BY <1>1, CapacityAssumption DEF Distance, Indices

\* The slots from h up to l are those that h reaches before l.
LEMMA SlotsBetween ==
  ASSUME NEW h \in Indices, NEW l \in Indices
  PROVE {Slot(h, k) : k \in 0 .. Distance(h, l) - 1}
          = {i \in Indices : Distance(h, i) < Distance(h, l)}
<1>1. Distance(h, l) \in 0 .. Capacity - 1
  BY DistanceEq, Zenon
<1>2. ASSUME NEW k \in 0 .. Distance(h, l) - 1
      PROVE Slot(h, k) \in Indices /\ Distance(h, Slot(h, k)) < Distance(h, l)
  <2>1. k \in 0 .. Capacity - 1 /\ k \in 0 .. Capacity /\ k < Distance(h, l)
    BY <1>1, CapacityAssumption
  <2> QED
    BY <2>1, SlotEq, SlotDistance, Zenon
<1>3. ASSUME NEW i \in Indices, Distance(h, i) < Distance(h, l)
      PROVE \E k \in 0 .. Distance(h, l) - 1 : i = Slot(h, k)
  BY <1>1, <1>3, DistanceEq
<1> QED
  BY <1>2, <1>3, Zenon
-----------------------------------------------------------------------------
(* Types, and which thread owns the mutex *)

CriticalSection == {"enq_store", "enq_clear", "enq_signal", "enq_unlock", "deq_unlock"}

\* A thread in its critical section owns the mutex.
Locked == \A t \in Threads : pc[t] \in CriticalSection => mutex = t

\* A thread that enqueues has a message, one that still has to get a message
\* has none.
Loaded ==
  \A t \in Threads :
    /\ pc[t] \in {"enq_lock", "enq_store", "enq_clear", "enq_signal", "enq_unlock"} =>
         hold[t] \in Msgs
    /\ pc[t] \in {"deq_lock", "try_lock", "deq_wait", "deq_woken"} => hold[t] = NoMsg

TypeInv == TypeOK /\ Locked /\ Loaded

\* The types hold before message_queue_create.
LEMMA TypeInit == Init => TypeInv
<1> SUFFICES ASSUME Init PROVE TypeInv
  BY Zenon
<1>1. 0 \in Indices
  BY CapacityAssumption, SMTT(30) DEF Indices
<1> QED
  BY <1>1, Zenon DEF Init, TypeInv, TypeOK, Locked, Loaded, PCs, CriticalSection

\* Every step keeps the types and the mutex discipline.
LEMMA TypeStep == TypeInv /\ [Next]_vars => TypeInv'
<1> SUFFICES ASSUME TypeInv, [Next]_vars PROVE TypeInv'
  BY Zenon
<1> USE NoMsgAssumption, NoThreadAssumption
    DEF TypeInv, TypeOK, Locked, Loaded, CriticalSection, PCs, Goto, qvars
<1>0. Inc(head) \in Indices /\ Inc(tail) \in Indices /\ 0 \in Indices
  BY IncEq, CapacityAssumption, SMTT(30) DEF Indices
<1>1. CASE Create
  BY <1>0, <1>1, Zenon DEF Create
<1>2. CASE Delete
  BY <1>0, <1>2, Zenon DEF Delete
<1>3. ASSUME NEW t \in Threads, NewMessage(t) \/ FreeMessage(t) PROVE TypeInv'
  BY <1>3 DEF NewMessage, FreeMessage
<1>4. ASSUME NEW t \in Threads, Call(t) \/ LockFails(t) PROVE TypeInv'
  BY <1>4, SMTT(30) DEF Call, LockFails
<1>5. ASSUME NEW t \in Threads, EnqLock(t) PROVE TypeInv'
  BY <1>5, Zenon DEF EnqLock
<1>6. ASSUME NEW t \in Threads, EnqClear(t) PROVE TypeInv'
  BY <1>0, <1>6, Zenon DEF EnqClear
<1>7. ASSUME NEW t \in Threads, EnqStore(t) PROVE TypeInv'
  BY <1>0, <1>7, Zenon DEF EnqStore
<1>8. ASSUME NEW t \in Threads, EnqSignal(t) PROVE TypeInv'
  BY <1>8, SMTT(30) DEF EnqSignal, Waiting
<1>9. ASSUME NEW t \in Threads, EnqSignalFails(t) PROVE TypeInv'
  BY <1>9, Zenon DEF EnqSignalFails
<1>10. ASSUME NEW t \in Threads, EnqReturn(t) \/ DeqReturn(t) PROVE TypeInv'
  BY <1>10, SMTT(30) DEF EnqReturn, DeqReturn
<1>11. ASSUME NEW t \in Threads, Dequeue(t) \/ TryDequeue(t) PROVE TypeInv'
  BY <1>0, <1>11 DEF Dequeue, TryDequeue, TakeHead
<1>12. ASSUME NEW t \in Threads, WaitFails(t) \/ SpuriousWakeup(t) PROVE TypeInv'
  BY <1>12, SMTT(30) DEF WaitFails, SpuriousWakeup
<1>13. ASSUME NEW t \in Threads, UnlockFails(t) PROVE TypeInv'
  BY <1>13, Zenon DEF UnlockFails
<1>14. CASE UNCHANGED vars
  BY <1>14, Zenon DEF vars
<1> QED
  BY <1>1, <1>2, <1>3, <1>4, <1>5, <1>6, <1>7, <1>8, <1>9, <1>10, <1>11, <1>12,
     <1>13, <1>14, Zenon DEF Next, Step, Fault

\* Every variable of the queue keeps its type; head and tail stay indices of
\* the buffer for every capacity.
THEOREM QueueTyped == Spec => []TypeOK
BY TypeInit, TypeStep, PTL DEF Spec, TypeInv
-----------------------------------------------------------------------------
(* The slots between head and tail *)

\* Capacity \div 2, without the division.
LEMMA HalfEq ==
  /\ Capacity \div 2 \in 0 .. Capacity
  /\ 2 * (Capacity \div 2) <= Capacity
  /\ TwoSlots => Capacity \div 2 \in 1 .. Capacity - 1
BY CapacityAssumption DEF TwoSlots

\* Storing at the tail of a queue that is not full adds one slot.
LEMMA StoreSlots ==
  ASSUME NEW h \in Indices, NEW l \in Indices, NEW i \in Indices, Inc(l) # h
  PROVE /\ Distance(h, i) < Distance(h, Inc(l)) <=> i = l \/ Distance(h, i) < Distance(h, l)
        /\ Distance(h, Inc(l)) = Distance(h, l) + 1
<1>1. Inc(l) = IF l = Capacity - 1 THEN 0 ELSE l + 1
  BY IncEq, Zenon
<1> QED
  BY <1>1, CapacityAssumption DEF Distance, Indices

\* Taking from the head of a queue that is not empty removes one slot.
LEMMA TakeSlots ==
  ASSUME NEW h \in Indices, NEW l \in Indices, NEW i \in Indices, h # l
  PROVE /\ Distance(Inc(h), i) < Distance(Inc(h), l) <=> i # h /\ Distance(h, i) < Distance(h, l)
        /\ Distance(Inc(h), l) = Distance(h, l) - 1
        /\ Distance(h, h) < Distance(h, l)
<1>1. Inc(h) = IF h = Capacity - 1 THEN 0 ELSE h + 1
  BY IncEq, Zenon
<1> QED
  BY <1>1, CapacityAssumption DEF Distance, Indices

\* The clearing loop has freed at most half of the queue; a thread that goes
\* on to store without clearing has room; every slot in use has a message;
\* nobody uses the queue before it is created or after it is deleted.
RingInv ==
  /\ created \/ (head = tail /\ \A t \in Threads : pc[t] = "idle")
  /\ \A t \in Threads :
       /\ pc[t] = "enq_clear" => Distance(Inc(tail), head) <= Capacity \div 2
       /\ pc[t] = "enq_store" => Inc(tail) # head
  /\ \A i \in LiveSlots : buffer[i] \in Msgs

\* The store never closes the ring onto the head.
LEMMA StoreHasRoom ==
  ASSUME TwoSlots, TypeInv, RingInv, NEW t \in Threads, EnqStore(t)
  PROVE Inc(tail) # head
<1>1. CASE pc[t] = "enq_store"
  BY <1>1, Zenon DEF RingInv
<1>2. CASE pc[t] = "enq_clear" /\ head = ClearTarget
  <2>1. Inc(tail) \in Indices
    BY IncEq, Zenon DEF TypeInv, TypeOK
  <2>2. head = IF Inc(tail) + Capacity \div 2 < Capacity THEN Inc(tail) + Capacity \div 2
               ELSE Inc(tail) + Capacity \div 2 - Capacity
    BY <1>2, <2>1, SlotEq, HalfEq, Zenon DEF ClearTarget
  <2> QED
    BY <2>1, <2>2, HalfEq, CapacityAssumption DEF Indices
<1> QED
  BY <1>1, <1>2, Zenon DEF EnqStore

\* The clearing loop never reaches the tail, and never passes its target.
LEMMA ClearHasMore ==
  ASSUME TypeInv, RingInv, NEW t \in Threads, EnqClear(t)
  PROVE /\ head # tail
        /\ Distance(Inc(tail), Inc(head)) <= Capacity \div 2
<1> DEFINE n == Inc(tail)
<1> DEFINE H == Capacity \div 2
<1>1. n \in Indices /\ head \in Indices /\ tail \in Indices
  BY IncEq, Zenon DEF TypeInv, TypeOK
<1>2. n = (IF tail = Capacity - 1 THEN 0 ELSE tail + 1)
      /\ Inc(head) = (IF head = Capacity - 1 THEN 0 ELSE head + 1)
  BY <1>1, IncEq, Zenon
<1>3. head # (IF n + H < Capacity THEN n + H ELSE n + H - Capacity)
  BY <1>1, SlotEq, HalfEq, Zenon DEF ClearTarget, EnqClear
<1>4. Distance(n, head) <= H
  BY Zenon DEF EnqClear, RingInv
<1>5. H \in 0 .. Capacity /\ 2 * H <= Capacity
  BY HalfEq, Zenon
<1>6. n + H < Capacity => n + H \in Nat
  BY <1>1, <1>5, SMTT(30) DEF Indices
<1>7. Distance(n, head) < H
  <2> HIDE DEF n, H
  <2> QED
    BY <1>1, <1>3, <1>4, <1>5, CapacityAssumption, SMTT(30) DEF Distance, Indices
<1> HIDE DEF H
<1> QED
  BY <1>1, <1>2, <1>5, <1>7, CapacityAssumption, SMTT(30) DEF Distance, Indices

\* What the three operations on the ring do to the slots in use.
LEMMA SlotsStep ==
  ASSUME TypeInv, RingInv, TypeInv'
  PROVE /\ UNCHANGED <<head, tail>> => LiveSlots' = LiveSlots /\ Count' = Count
        /\ head' = tail' => LiveSlots' = {} /\ Count' = 0
        /\ \A t \in Threads : TwoSlots /\ EnqStore(t) =>
             /\ LiveSlots' = LiveSlots \cup {tail}
             /\ Count' = Count + 1
        /\ head # tail /\ head' = Inc(head) /\ tail' = tail =>
             /\ LiveSlots' = LiveSlots \ {head}
             /\ Count' = Count - 1
             /\ head \in LiveSlots
        /\ tail \notin LiveSlots
        /\ LiveSlots \subseteq Indices
        /\ Count \in Nat
<1>1. /\ head \in Indices /\ tail \in Indices
      /\ head' \in Indices /\ tail' \in Indices
  BY Zenon DEF TypeInv, TypeOK, Indices
<1>2. LiveSlots = {i \in Indices : Distance(head, i) < Distance(head, tail)}
  BY <1>1, SlotsBetween, Zenon DEF LiveSlots, Count
<1>3. LiveSlots' = {i \in Indices : Distance(head', i) < Distance(head', tail')}
  <2>1. LiveSlots' = {Slot(head', k) : k \in 0 .. Distance(head', tail') - 1}
    BY Zenon DEF LiveSlots, Count, Slot, Distance
  <2> QED
    BY <1>1, <2>1, SlotsBetween, Zenon
<1>4. Count = Distance(head, tail) /\ Count' = Distance(head', tail')
  BY Zenon DEF Count, Distance
<1>5. \A i \in Indices : Distance(i, i) = 0
  BY DEF Distance, Indices
<1>6. \A i, j \in Indices : Distance(i, j) \in Nat
  BY DistanceEq, CapacityAssumption, SMTT(30)
<1>7. ASSUME NEW t \in Threads, TwoSlots, EnqStore(t)
      PROVE LiveSlots' = LiveSlots \cup {tail} /\ Count' = Count + 1
  <2>1. Inc(tail) # head /\ tail' = Inc(tail) /\ head' = head
    BY <1>7, StoreHasRoom, Zenon DEF EnqStore
  <2> QED
    BY <1>1, <1>2, <1>3, <1>4, <2>1, StoreSlots, SMTT(30)
<1>8. ASSUME head # tail, head' = Inc(head), tail' = tail
      PROVE LiveSlots' = LiveSlots \ {head} /\ Count' = Count - 1 /\ head \in LiveSlots
  BY <1>1, <1>2, <1>3, <1>4, <1>8, TakeSlots, SMTT(30)
<1>9. head' = tail' => LiveSlots' = {} /\ Count' = 0
  BY <1>1, <1>3, <1>4, <1>5, <1>6
<1>10. tail \notin LiveSlots
  BY <1>1, <1>2, <1>6
<1> QED
  BY <1>1, <1>2, <1>3, <1>4, <1>6, <1>7, <1>8, <1>9, <1>10, Zenon

\* An empty ring has no slot to hold a message.
LEMMA RingInit == Init => RingInv
<1> SUFFICES ASSUME Init PROVE RingInv
  BY Zenon
<1>1. LiveSlots = {}
  BY SMTT(30) DEF Init, LiveSlots, Count, Distance
<1> QED
  BY <1>1, Zenon DEF Init, RingInv

\* Every step keeps the slots between head and tail filled with messages.
LEMMA RingStep ==
  ASSUME TwoSlots, TypeInv, RingInv, [Next]_vars, TypeInv'
  PROVE RingInv'
<1> DEFINE Clearing == \A t \in Threads :
             /\ pc[t] = "enq_clear" => Distance(Inc(tail), head) <= Capacity \div 2
             /\ pc[t] = "enq_store" => Inc(tail) # head
<1> DEFINE Used == created \/ (head = tail /\ \A t \in Threads : pc[t] = "idle")
<1>0. (RingInv <=> Used /\ Clearing /\ \A i \in LiveSlots : buffer[i] \in Msgs)
      /\ (RingInv' <=> Used' /\ Clearing' /\ \A i \in LiveSlots' : buffer'[i] \in Msgs)
  BY Zenon DEF RingInv
<1>t. /\ head \in Indices /\ tail \in Indices
      /\ pc \in [Threads -> PCs] /\ hold \in [Threads -> Msgs \cup {NoMsg}]
      /\ buffer \in [Indices -> Msgs \cup {NoMsg}]
      /\ \A t \in Threads : pc[t] \in CriticalSection => mutex = t
  BY Zenon DEF TypeInv, TypeOK, Locked
\* A step that leaves the ring alone, of a thread inside a call or of one
\* that calls.
<1>a. ASSUME NEW t \in Threads, UNCHANGED qvars, created,
             \A u \in Threads : pc'[u] # pc[u] => pc'[u] \notin {"enq_clear", "enq_store"}
      PROVE RingInv'
  <2>1. LiveSlots' = LiveSlots
    BY <1>a, SlotsStep, Zenon DEF qvars
  <2>2. Clearing'
    BY <1>a, <1>0, Zenon DEF qvars, Distance, Inc
  <2> QED
    BY <1>a, <1>0, <2>1, <2>2, Zenon DEF qvars
\* A step of the only thread in its critical section that changes the ring.
<1>b. ASSUME NEW t \in Threads, mutex \in {t, NoThread}, created, created' = created,
             \A u \in Threads \ {t} : pc'[u] = pc[u]
      PROVE Used' /\ (Clearing' <=> /\ pc'[t] = "enq_clear" =>
                                         (Distance(Inc(tail), head) <= Capacity \div 2)'
                                    /\ pc'[t] = "enq_store" => (Inc(tail) # head)')
  <2>1. \A u \in Threads \ {t} : pc'[u] \notin {"enq_clear", "enq_store"}
    BY <1>b, <1>t, NoThreadAssumption, SMTT(30) DEF CriticalSection
  <2> QED
    BY <1>b, <2>1, Zenon
<1>c. \A t \in Threads : pc[t] # "idle" => created
  BY <1>0, Zenon
<1>1. CASE Create
  <2>1. head' = tail' /\ pc' = pc /\ created'
    BY <1>1, Zenon DEF Create
  <2>2. Clearing'
    BY <1>0, <1>1, <2>1, Zenon DEF Create
  <2> QED
    BY <1>0, <2>1, <2>2, SlotsStep, Zenon
<1>2. CASE Delete
  <2>1. head' = tail' /\ pc' = pc /\ \A t \in Threads : pc[t] = "idle"
    BY <1>2, Zenon DEF Delete
  <2>2. Clearing' /\ Used'
    BY <2>1, Zenon
  <2> QED
    BY <1>0, <2>1, <2>2, SlotsStep, Zenon
<1>3. ASSUME NEW t \in Threads, NewMessage(t) \/ FreeMessage(t) PROVE RingInv'
  <2>1. UNCHANGED <<qvars, pc>>
    BY <1>3, Zenon DEF NewMessage, FreeMessage
  <2>2. LiveSlots' = LiveSlots
    BY <2>1, SlotsStep, Zenon DEF qvars
  <2> QED
    BY <1>0, <2>1, <2>2, Zenon DEF qvars, Distance, Inc
<1>4. ASSUME NEW t \in Threads,
             \/ Call(t) \/ LockFails(t) \/ EnqSignalFails(t) \/ WaitFails(t)
             \/ UnlockFails(t) \/ SpuriousWakeup(t) \/ EnqReturn(t) \/ DeqReturn(t)
      PROVE RingInv'
  <2>1. created /\ UNCHANGED qvars
    BY <1>4, <1>c, Zenon DEF Call, LockFails, EnqSignalFails, WaitFails, UnlockFails,
       SpuriousWakeup, EnqReturn, DeqReturn
  <2>2. \E l \in PCs \ {"enq_clear", "enq_store"} : pc' = [pc EXCEPT ![t] = l]
    BY <1>4, Zenon DEF Call, LockFails, EnqSignalFails, WaitFails, UnlockFails,
       SpuriousWakeup, EnqReturn, DeqReturn, Goto, PCs
  <2> QED
    BY <1>a, <1>t, <2>1, <2>2, Zenon
<1>5. ASSUME NEW t \in Threads, EnqSignal(t) PROVE RingInv'
  <2>1. created /\ UNCHANGED qvars
    BY <1>5, <1>c, Zenon DEF EnqSignal
  <2>2. \A u \in Threads : pc'[u] # pc[u] => pc'[u] \notin {"enq_clear", "enq_store"}
    BY <1>5, <1>t, Zenon DEF EnqSignal, Goto
  <2> QED
    BY <1>a, <2>1, <2>2, Zenon
<1>6. ASSUME NEW t \in Threads, EnqLock(t) PROVE RingInv'
  <2>1. /\ created /\ UNCHANGED qvars /\ mutex = NoThread
        /\ pc' = [pc EXCEPT ![t] = IF Inc(tail) = head THEN "enq_clear" ELSE "enq_store"]
    BY <1>6, <1>c, Zenon DEF EnqLock, Goto
  <2>2. LiveSlots' = LiveSlots
    BY <2>1, SlotsStep, Zenon DEF qvars
  <2>3. Used' /\ Clearing'
    <3>1. Distance(head, head) <= Capacity \div 2
      BY <1>t, HalfEq, SMTT(30) DEF Distance, Indices
    <3>2. /\ pc'[t] = "enq_clear" => (Distance(Inc(tail), head) <= Capacity \div 2)'
          /\ pc'[t] = "enq_store" => (Inc(tail) # head)'
      BY <1>t, <2>1, <3>1, Zenon DEF qvars, Inc, Distance
    <3> QED
      BY <1>b, <1>t, <2>1, <3>2, Zenon DEF qvars
  <2> QED
    BY <1>0, <2>1, <2>2, <2>3, Zenon DEF qvars
<1>7. ASSUME NEW t \in Threads, EnqClear(t) PROVE RingInv'
  <2>1. /\ created /\ UNCHANGED <<created, buffer, tail, pc>> /\ mutex = t
        /\ pc[t] = "enq_clear" /\ head' = Inc(head)
    BY <1>7, <1>c, <1>t, Zenon DEF EnqClear, CriticalSection
  <2>2. LiveSlots' \subseteq LiveSlots
    BY <1>7, <2>1, ClearHasMore, SlotsStep, Zenon
  <2>3. Used' /\ Clearing'
    <3>1. (Distance(Inc(tail), head) <= Capacity \div 2)'
      BY <1>7, <2>1, ClearHasMore, Zenon DEF Distance, Inc
    <3> QED
      BY <1>b, <2>1, <3>1, Zenon
  <2> QED
    BY <1>0, <2>1, <2>2, <2>3, Zenon
<1>8. ASSUME NEW t \in Threads, EnqStore(t) PROVE RingInv'
  <2>1. /\ created /\ UNCHANGED <<created, head>> /\ mutex = t
        /\ pc' = [pc EXCEPT ![t] = "enq_signal"]
        /\ buffer' = [buffer EXCEPT ![tail] = hold[t]]
        /\ hold[t] \in Msgs
    BY <1>8, <1>c, <1>t, Zenon DEF EnqStore, CriticalSection, Goto, TypeInv, Loaded
  <2>2. LiveSlots' = LiveSlots \cup {tail} /\ LiveSlots \subseteq Indices
    BY <1>8, SlotsStep, Zenon
  <2>3. Used' /\ Clearing'
    BY <1>b, <1>t, <2>1, Zenon
  <2>4. \A i \in LiveSlots' : buffer'[i] \in Msgs
    BY <1>0, <1>t, <2>1, <2>2, Zenon
  <2> QED
    BY <1>0, <2>3, <2>4, Zenon
<1>9. ASSUME NEW t \in Threads, Dequeue(t) \/ TryDequeue(t) PROVE RingInv'
  <2>1. /\ created /\ UNCHANGED <<created, buffer, tail>> /\ mutex = NoThread
        /\ \E l \in {"deq_unlock", "deq_wait"} : pc' = [pc EXCEPT ![t] = l]
    BY <1>9, <1>c, Zenon DEF Dequeue, TryDequeue, TakeHead, Goto, qvars
  <2>2. Used' /\ Clearing'
    <3>1. pc'[t] \notin {"enq_clear", "enq_store"} /\ \A u \in Threads \ {t} : pc'[u] = pc[u]
      BY <1>t, <2>1, Zenon
    <3> QED
      BY <1>b, <2>1, <3>1, Zenon
  <2>3. \/ head' = head
        \/ head # tail /\ head' = Inc(head)
    BY <1>9, Zenon DEF Dequeue, TryDequeue, TakeHead, qvars
  <2>4. LiveSlots' \subseteq LiveSlots
    BY <2>1, <2>3, SlotsStep, Zenon
  <2> QED
    BY <1>0, <2>1, <2>2, <2>4, Zenon
<1>10. CASE UNCHANGED vars
  <2>1. LiveSlots' = LiveSlots
    BY <1>10, SlotsStep, Zenon DEF vars
  <2> QED
    BY <1>0, <1>10, <2>1, Zenon DEF vars, Distance, Inc
<1> QED
  BY <1>1, <1>2, <1>3, <1>4, <1>5, <1>6, <1>7, <1>8, <1>9, <1>10, Zenon DEF Next, Step, Fault

-----------------------------------------------------------------------------
(* One owner for every message *)

\* Before message_queue_create no message is allocated.
LEMMA OwnerInit == Init => OneOwner
<1> SUFFICES ASSUME Init PROVE OneOwner
  BY Zenon
<1>1. LiveSlots = {}
  BY DEF Init, LiveSlots, Count, Distance
<1> QED
  BY <1>1, NoMsgAssumption, Zenon DEF Init, OneOwner, OwnerThreads, OwnerSlots

\* Every step hands a message from one owner to one other owner.
LEMMA OwnerStep ==
  ASSUME TwoSlots, TypeInv, RingInv, OneOwner, [Next]_vars, TypeInv'
  PROVE OneOwner'
<1> DEFINE Stored == {"enq_signal", "enq_unlock"}
<1>t. /\ pc \in [Threads -> PCs] /\ hold \in [Threads -> Msgs \cup {NoMsg}]
      /\ buffer \in [Indices -> Msgs \cup {NoMsg}]
      /\ head \in Indices /\ tail \in Indices
  BY Zenon DEF TypeInv, TypeOK
<1>s. LiveSlots \subseteq Indices
  BY SlotsStep, Zenon
<1>m. tainted \subseteq tainted'
  BY Zenon DEF Next, Step, Fault, vars, Create, Delete, NewMessage, FreeMessage, Call,
     LockFails, EnqLock, EnqClear, EnqStore, EnqSignal, EnqSignalFails, EnqReturn,
     TakeHead, Dequeue, WaitFails, SpuriousWakeup, TryDequeue, DeqReturn, UnlockFails
<1> SUFFICES ASSUME NEW m \in Msgs, m \notin tainted, m \notin tainted'
             PROVE (/\ m \in heap <=> OwnerThreads(m) \cup OwnerSlots(m) # {}
                    /\ OwnerThreads(m) = {} \/ OwnerSlots(m) = {}
                    /\ \A t, u \in OwnerThreads(m) : t = u
                    /\ \A i, j \in OwnerSlots(m) : i = j)'
  BY <1>m, Zenon DEF OneOwner
<1> DEFINE Owned == /\ m \in heap <=> OwnerThreads(m) \cup OwnerSlots(m) # {}
                    /\ OwnerThreads(m) = {} \/ OwnerSlots(m) = {}
                    /\ \A t, u \in OwnerThreads(m) : t = u
                    /\ \A i, j \in OwnerSlots(m) : i = j
<1>o. Owned
  BY Zenon DEF OneOwner
<1> SUFFICES Owned'
  BY Zenon
<1>d. m # NoMsg
  BY NoMsgAssumption, Zenon
\* The owners of m follow from what changes.
<1>a. /\ OwnerThreads(m)' = {t \in Threads : hold'[t] = m /\ pc'[t] \notin Stored}
      /\ OwnerSlots(m)' = {i \in LiveSlots' : buffer'[i] = m}
      /\ OwnerThreads(m) = {t \in Threads : hold[t] = m /\ pc[t] \notin Stored}
      /\ OwnerSlots(m) = {i \in LiveSlots : buffer[i] = m}
  BY Zenon DEF OwnerThreads, OwnerSlots
<1>b. ASSUME OwnerThreads(m)' = OwnerThreads(m), OwnerSlots(m)' = OwnerSlots(m),
             m \in heap' <=> m \in heap
      PROVE Owned'
  BY <1>b, <1>o, Zenon
<1>c. ASSUME UNCHANGED <<buffer, head, tail>>
      PROVE OwnerSlots(m)' = OwnerSlots(m)
  BY <1>a, <1>c, SlotsStep, Zenon
<1>e. ASSUME UNCHANGED hold,
             \A t \in Threads : pc'[t] \in Stored <=> pc[t] \in Stored
      PROVE OwnerThreads(m)' = OwnerThreads(m)
  BY <1>a, <1>e, Zenon
<1>1. CASE Create
  <2>1. LiveSlots = {} /\ LiveSlots' = {}
    <3>1. head = tail /\ head' = tail'
      BY <1>1, Zenon DEF Create, RingInv
    <3>2. Count = 0
      BY <1>t, <3>1, SMTT(30) DEF Count, Distance, Indices
    <3> QED
      BY <3>1, <3>2, SlotsStep, Zenon DEF LiveSlots
  <2> QED
    BY <1>1, <1>a, <1>b, <1>e, <2>1, Zenon DEF Create
<1>2. CASE Delete
  <2>1. LiveSlots' = {}
    BY <1>2, SlotsStep, Zenon DEF Delete
  <2>2. heap' = heap \ {buffer[i] : i \in LiveSlots} /\ UNCHANGED <<hold, pc>>
    BY <1>2, Zenon DEF Delete, LiveSlots
  <2>3. OwnerThreads(m)' = OwnerThreads(m) /\ OwnerSlots(m)' = {}
    BY <1>a, <1>e, <2>1, <2>2, Zenon
  <2>4. m \in heap' <=> m \in heap /\ OwnerSlots(m) = {}
    BY <1>a, <2>2, Zenon
  <2> QED
    BY <1>o, <2>3, <2>4, Zenon
<1>3. ASSUME NEW t \in Threads, NewMessage(t) PROVE Owned'
  <2>1. PICK n \in Msgs \ heap : hold' = [hold EXCEPT ![t] = n] /\ heap' = heap \cup {n}
    BY <1>3, Zenon DEF NewMessage
  <2>2. pc[t] = "idle" /\ hold[t] = NoMsg /\ UNCHANGED <<buffer, head, tail, pc>>
    BY <1>3, Zenon DEF NewMessage, qvars
  <2>3. OwnerSlots(m)' = OwnerSlots(m)
    BY <1>c, <2>2, Zenon
  <2>4. OwnerThreads(m)' = OwnerThreads(m) \cup (IF m = n THEN {t} ELSE {})
    BY <1>a, <1>d, <1>t, <2>1, <2>2, Zenon
  <2> QED
    BY <1>o, <2>1, <2>3, <2>4, Zenon
<1>4. ASSUME NEW t \in Threads, FreeMessage(t) PROVE Owned'
  <2>1. /\ hold' = [hold EXCEPT ![t] = NoMsg] /\ heap' = heap \ {hold[t]}
        /\ pc[t] = "idle" /\ UNCHANGED <<buffer, head, tail, pc>>
    BY <1>4, Zenon DEF FreeMessage, qvars
  <2>2. OwnerSlots(m)' = OwnerSlots(m)
    BY <1>c, <2>1, Zenon
  <2>3. /\ OwnerThreads(m)' = OwnerThreads(m) \ {t}
        /\ t \in OwnerThreads(m) <=> hold[t] = m
    BY <1>a, <1>d, <1>t, <2>1, Zenon
  <2> QED
    BY <1>o, <2>1, <2>2, <2>3, Zenon
<1>5. ASSUME NEW t \in Threads, Call(t) \/ LockFails(t) \/ EnqLock(t) \/ WaitFails(t)
                                \/ SpuriousWakeup(t) \/ DeqReturn(t)
      PROVE Owned'
  <2>1. /\ UNCHANGED <<buffer, head, tail, hold, heap>> /\ pc[t] \notin Stored
        /\ \E l \in PCs \ Stored : pc' = [pc EXCEPT ![t] = l]
    BY <1>5, Zenon DEF Call, LockFails, EnqLock, WaitFails, SpuriousWakeup, DeqReturn, qvars,
       Goto, PCs
  <2> QED
    BY <1>b, <1>c, <1>e, <1>t, <2>1, Zenon
<1>6. ASSUME NEW t \in Threads, EnqClear(t) PROVE Owned'
  <2>1. /\ heap' = heap \ {buffer[head]} /\ UNCHANGED <<buffer, pc, hold>>
        /\ LiveSlots' = LiveSlots \ {head} /\ head \in LiveSlots
    BY <1>6, ClearHasMore, SlotsStep, Zenon DEF EnqClear
  <2>2. OwnerThreads(m)' = OwnerThreads(m)
    BY <1>e, <2>1, Zenon
  <2>3. /\ OwnerSlots(m)' = OwnerSlots(m) \ {head}
        /\ head \in OwnerSlots(m) <=> buffer[head] = m
    BY <1>a, <2>1, Zenon
  <2> QED
    BY <1>o, <2>1, <2>2, <2>3, Zenon
<1>7. ASSUME NEW t \in Threads, EnqStore(t) PROVE Owned'
  <2>1. /\ UNCHANGED <<hold, heap>> /\ pc[t] \notin Stored
        /\ pc' = [pc EXCEPT ![t] = "enq_signal"]
        /\ buffer' = [buffer EXCEPT ![tail] = hold[t]]
        /\ LiveSlots' = LiveSlots \cup {tail} /\ tail \notin LiveSlots
    BY <1>7, SlotsStep, Zenon DEF EnqStore, Goto
  <2>2. /\ OwnerThreads(m)' = OwnerThreads(m) \ {t}
        /\ t \in OwnerThreads(m) <=> hold[t] = m
    BY <1>a, <1>t, <2>1, Zenon
  <2>3. OwnerSlots(m)' = OwnerSlots(m) \cup (IF hold[t] = m THEN {tail} ELSE {})
    BY <1>a, <1>s, <1>t, <2>1, Zenon
  <2> QED
    BY <1>o, <2>1, <2>2, <2>3, Zenon
<1>8. ASSUME NEW t \in Threads, EnqSignal(t) PROVE Owned'
  <2>1. UNCHANGED <<buffer, head, tail, hold, heap>> /\ pc[t] = "enq_signal"
    BY <1>8, Zenon DEF EnqSignal, qvars
  <2>2. \A u \in Threads : pc'[u] \in Stored <=> pc[u] \in Stored
    BY <1>8, <1>t, Zenon DEF EnqSignal, Goto, Waiting
  <2> QED
    BY <1>b, <1>c, <1>e, <2>1, <2>2, Zenon
<1>9. ASSUME NEW t \in Threads, EnqSignalFails(t) PROVE Owned'
  <2>1. /\ UNCHANGED <<buffer, head, tail, hold, heap>> /\ hold[t] # m
        /\ pc' = [pc EXCEPT ![t] = "idle"]
    BY <1>9, Zenon DEF EnqSignalFails, qvars, Goto
  <2>2. OwnerThreads(m)' = OwnerThreads(m)
    BY <1>a, <1>t, <2>1, SMTT(30)
  <2> QED
    BY <1>b, <1>c, <2>1, <2>2, Zenon
<1>10. ASSUME NEW t \in Threads, EnqReturn(t) PROVE Owned'
  <2>1. /\ UNCHANGED <<buffer, head, tail, heap>> /\ pc[t] = "enq_unlock"
        /\ pc' = [pc EXCEPT ![t] = "idle"] /\ hold' = [hold EXCEPT ![t] = NoMsg]
    BY <1>10, Zenon DEF EnqReturn, qvars, Goto
  <2>2. OwnerThreads(m)' = OwnerThreads(m)
    BY <1>a, <1>d, <1>t, <2>1, Zenon
  <2> QED
    BY <1>b, <1>c, <2>1, <2>2, Zenon
<1>11. ASSUME NEW t \in Threads, pc[t] \in {"deq_lock", "deq_woken", "try_lock"},
              head # tail, TakeHead(t)
       PROVE Owned'
  <2>1. /\ UNCHANGED <<buffer, heap>> /\ hold[t] = NoMsg
        /\ pc' = [pc EXCEPT ![t] = "deq_unlock"] /\ hold' = [hold EXCEPT ![t] = buffer[head]]
        /\ LiveSlots' = LiveSlots \ {head} /\ head \in LiveSlots
    BY <1>11, SlotsStep, Zenon DEF TakeHead, Goto, TypeInv, Loaded
  <2>2. OwnerThreads(m)' = OwnerThreads(m) \cup (IF buffer[head] = m THEN {t} ELSE {})
    BY <1>a, <1>d, <1>t, <2>1, SMTT(30)
  <2>3. /\ OwnerSlots(m)' = OwnerSlots(m) \ {head}
        /\ head \in OwnerSlots(m) <=> buffer[head] = m
    BY <1>a, <2>1, Zenon
  <2> QED
    BY <1>o, <2>1, <2>2, <2>3, Zenon
<1>12. ASSUME NEW t \in Threads, Dequeue(t) \/ TryDequeue(t), head = tail PROVE Owned'
  <2>1. /\ UNCHANGED <<buffer, head, tail, hold, heap>> /\ pc[t] \notin Stored
        /\ \E l \in PCs \ Stored : pc' = [pc EXCEPT ![t] = l]
    BY <1>12, Zenon DEF Dequeue, TryDequeue, qvars, Goto, PCs
  <2> QED
    BY <1>b, <1>c, <1>e, <1>t, <2>1, Zenon
<1>13. ASSUME NEW t \in Threads, UnlockFails(t) PROVE Owned'
  <2>1. /\ UNCHANGED <<buffer, head, tail, heap>> /\ hold[t] # m
        /\ pc' = [pc EXCEPT ![t] = "idle"]
        /\ hold' = IF pc[t] = "deq_unlock" THEN [hold EXCEPT ![t] = NoMsg] ELSE hold
    BY <1>13, <1>d, Zenon DEF UnlockFails, qvars, Goto
  <2>2. OwnerThreads(m)' = OwnerThreads(m)
    BY <1>a, <1>d, <1>t, <2>1, SMTT(30)
  <2> QED
    BY <1>b, <1>c, <2>1, <2>2, Zenon
<1>14. CASE UNCHANGED vars
  BY <1>14, <1>b, <1>c, <1>e, Zenon DEF vars
<1>15. ASSUME NEW t \in Threads, Dequeue(t) \/ TryDequeue(t) PROVE Owned'
  BY <1>11, <1>12, <1>15, Zenon DEF Dequeue, TryDequeue
<1> QED
  BY <1>1, <1>2, <1>3, <1>4, <1>5, <1>6, <1>7, <1>8, <1>9, <1>10, <1>13, <1>14, <1>15, Zenon DEF Next, Step, Fault


\* Unless the queue has a single slot, every allocated message has exactly
\* one owner, in spite of the clearing loop and of failing pthread calls.
THEOREM QueueOneOwner == ASSUME TwoSlots PROVE Spec => []OneOwner
<1> DEFINE I == TypeInv /\ RingInv /\ OneOwner
<1>1. Init => I
  BY TypeInit, RingInit, OwnerInit, Zenon
<1>2. I /\ [Next]_vars => I'
  BY TypeStep, RingStep, OwnerStep, Zenon
<1> QED
  BY <1>1, <1>2, PTL DEF Spec
-----------------------------------------------------------------------------
(* No waiter beside a message that nobody will take *)

\* One thread more, or one less, that rouses.
LEMMA RousingChange ==
  ASSUME NEW R, IsFiniteSet(R), NEW x
  PROVE /\ Cardinality(R) \in Nat
        /\ x \notin R => Cardinality(R \cup {x}) = Cardinality(R) + 1
        /\ x \in R => Cardinality(R \ {x}) = Cardinality(R) - 1
BY FS_CardinalityType, FS_AddElement, FS_RemoveElement, Zenon

\* At first no thread waits.
LEMMA WaiterInit == Init => NoStuckWaiter
BY Zenon DEF Init, NoStuckWaiter, Waiting

\* Every step leaves a woken thread or a pending signal per message.
LEMMA WaiterStep ==
  ASSUME TwoSlots, TypeInv, RingInv, NoStuckWaiter, [Next]_vars, TypeInv'
  PROVE NoStuckWaiter'
<1> DEFINE Roused == {"deq_woken", "enq_signal"}
<1>t. /\ pc \in [Threads -> PCs] /\ head \in Indices /\ tail \in Indices
  BY Zenon DEF TypeInv, TypeOK
<1>s. Count \in Nat /\ Cardinality(Rousing) \in Nat /\ IsFiniteSet(Rousing)
  <2>1. IsFiniteSet(Rousing)
    BY ThreadsAssumption, FS_Subset, Zenon DEF Rousing
  <2> QED
    BY <2>1, SlotsStep, FS_CardinalityType, Zenon
<1>f. Cardinality(Rousing') \in Nat /\ IsFiniteSet(Rousing')
  <2>1. Rousing' \subseteq Threads
    BY Zenon DEF Rousing
  <2> QED
    BY <2>1, ThreadsAssumption, FS_Subset, FS_CardinalityType, Zenon
<1>m. tainted \subseteq tainted'
  BY Zenon DEF Next, Step, Fault, vars, Create, Delete, NewMessage, FreeMessage, Call,
     LockFails, EnqLock, EnqClear, EnqStore, EnqSignal, EnqSignalFails, EnqReturn,
     TakeHead, Dequeue, WaitFails, SpuriousWakeup, TryDequeue, DeqReturn, UnlockFails
<1> SUFFICES ASSUME tainted = {}, tainted' = {}, Waiting' # {}
             PROVE Count' <= Cardinality(Rousing')
  BY <1>m, Zenon DEF NoStuckWaiter
<1>e. /\ Waiting = {t \in Threads : pc[t] = "deq_wait"}
      /\ Waiting' = {t \in Threads : pc'[t] = "deq_wait"}
      /\ Rousing = {t \in Threads : pc[t] \in Roused}
      /\ Rousing' = {t \in Threads : pc'[t] \in Roused}
  BY Zenon DEF Waiting, Rousing
<1>i. Waiting # {} => Count <= Cardinality(Rousing)
  BY Zenon DEF NoStuckWaiter
<1>z. Count' = 0 => Count' <= Cardinality(Rousing')
  BY <1>f, SMTT(30)
<1>a. ASSUME UNCHANGED <<head, tail>>, Waiting' \subseteq Waiting, Rousing \subseteq Rousing'
      PROVE Count' <= Cardinality(Rousing')
  <2>1. Count' = Count
    BY <1>a, SlotsStep, Zenon
  <2>2. Cardinality(Rousing) <= Cardinality(Rousing')
    BY <1>a, <1>f, FS_Subset, Zenon
  <2> QED
    BY <1>a, <1>f, <1>i, <1>s, <2>1, <2>2, SMTT(30)
<1>1. CASE Create \/ Delete
  BY <1>1, <1>z, SlotsStep, Zenon DEF Create, Delete
<1>2. ASSUME NEW t \in Threads,
             \/ NewMessage(t) \/ FreeMessage(t) \/ Call(t) \/ LockFails(t) \/ EnqLock(t)
             \/ EnqReturn(t) \/ DeqReturn(t) \/ UnlockFails(t)
      PROVE Count' <= Cardinality(Rousing')
  <2>1. /\ UNCHANGED <<head, tail>>
        /\ \A u \in Threads : pc'[u] = pc[u] \/ (pc[u] \notin Roused /\ pc'[u] # "deq_wait")
    BY <1>2, <1>t, Zenon DEF NewMessage, FreeMessage, Call, LockFails, EnqLock, EnqReturn,
       DeqReturn, UnlockFails, qvars, Goto
  <2> QED
    BY <1>a, <1>e, <2>1, Zenon
<1>3. ASSUME NEW t \in Threads, EnqClear(t) PROVE Count' <= Cardinality(Rousing')
  <2>1. Count' = Count - 1 /\ pc' = pc
    BY <1>3, ClearHasMore, SlotsStep, Zenon DEF EnqClear
  <2>2. Rousing' = Rousing /\ Waiting' = Waiting
    BY <1>e, <2>1, Zenon
  <2> QED
    BY <1>i, <1>s, <2>1, <2>2, SMTT(30)
<1>4. ASSUME NEW t \in Threads, EnqStore(t) PROVE Count' <= Cardinality(Rousing')
  <2>1. /\ Count' = Count + 1 /\ pc' = [pc EXCEPT ![t] = "enq_signal"]
        /\ pc[t] \in {"enq_store", "enq_clear"}
    BY <1>4, SlotsStep, Zenon DEF EnqStore, Goto
  <2>2. Rousing' = Rousing \cup {t} /\ t \notin Rousing /\ Waiting' = Waiting
    BY <1>e, <1>t, <2>1, Zenon
  <2>3. Cardinality(Rousing') = Cardinality(Rousing) + 1
    BY ONLY <1>s, <2>2, RousingChange, Zenon
  <2>4. Count <= Cardinality(Rousing)
    BY <1>i, <2>2, Zenon
  <2> QED
    BY ONLY <1>s, <2>1, <2>3, <2>4, SMTT(30)
<1>5. ASSUME NEW t \in Threads, EnqSignal(t) PROVE Count' <= Cardinality(Rousing')
  <2>1. UNCHANGED <<head, tail>> /\ pc[t] = "enq_signal"
    BY <1>5, Zenon DEF EnqSignal, qvars
  <2>2. Waiting # {}
    BY <1>5, <1>e, <1>t, Zenon DEF EnqSignal, Goto
  <2>3. PICK w \in Waiting : pc' = [pc EXCEPT ![t] = "enq_unlock", ![w] = "deq_woken"]
    BY <1>5, <2>2, Zenon DEF EnqSignal
  <2>4. /\ Rousing' = (Rousing \ {t}) \cup {w}
        /\ t \in Rousing /\ w \notin Rousing \ {t}
    BY <1>e, <1>t, <2>1, <2>3, Zenon
  <2>5. IsFiniteSet(Rousing \ {t}) /\ Cardinality(Rousing \ {t}) = Cardinality(Rousing) - 1
    BY <1>s, <2>4, RousingChange, FS_RemoveElement, Zenon
  <2>6. Cardinality(Rousing') = Cardinality(Rousing \ {t}) + 1
    BY <2>4, <2>5, RousingChange, Zenon
  <2>7. Count' = Count
    BY <2>1, SlotsStep, Zenon
  <2> QED
    BY <1>i, <1>s, <2>2, <2>5, <2>6, <2>7, SMTT(30)
<1>6. ASSUME NEW t \in Threads, EnqSignalFails(t) PROVE FALSE
  BY <1>6, Zenon DEF EnqSignalFails
<1>7. ASSUME NEW t \in Threads, Dequeue(t) \/ TryDequeue(t), head # tail
      PROVE Count' <= Cardinality(Rousing')
  <2>1. TakeHead(t) /\ pc[t] \in {"deq_lock", "deq_woken", "try_lock"}
    BY <1>7, Zenon DEF Dequeue, TryDequeue
  <2>2. Count' = Count - 1 /\ pc' = [pc EXCEPT ![t] = "deq_unlock"]
    BY <1>7, <2>1, SlotsStep, Zenon DEF TakeHead, Goto
  <2>3. Rousing' = Rousing \ {t} /\ Waiting' = Waiting
    BY <1>e, <1>t, <2>1, <2>2, Zenon
  <2>4. Cardinality(Rousing) - 1 <= Cardinality(Rousing')
    <3>1. CASE t \in Rousing
      BY <1>s, <2>3, <3>1, RousingChange, SMTT(30)
    <3>2. CASE t \notin Rousing
      BY <1>s, <2>3, <3>2, SMTT(30)
    <3> QED
      BY <3>1, <3>2, Zenon
  <2> QED
    BY <1>f, <1>i, <1>s, <2>2, <2>3, <2>4, SMTT(30)
<1>8. ASSUME NEW t \in Threads, Dequeue(t) \/ TryDequeue(t) \/ WaitFails(t), head = tail
      PROVE Count' <= Cardinality(Rousing')
  BY <1>8, <1>z, SlotsStep, Zenon DEF Dequeue, TryDequeue, WaitFails, qvars
<1>9. ASSUME NEW t \in Threads, WaitFails(t) PROVE head = tail
  BY <1>9, Zenon DEF WaitFails
<1>10. ASSUME NEW t \in Threads, SpuriousWakeup(t) PROVE Count' <= Cardinality(Rousing')
  <2>1. UNCHANGED <<head, tail>> /\ pc' = [pc EXCEPT ![t] = "deq_woken"]
    BY <1>10, Zenon DEF SpuriousWakeup, qvars, Goto
  <2> QED
    BY <1>a, <1>e, <1>t, <2>1, Zenon
<1>11. CASE UNCHANGED vars
  BY <1>11, <1>a, <1>e, Zenon DEF vars
<1> QED
  BY <1>1, <1>2, <1>3, <1>4, <1>5, <1>6, <1>7, <1>8, <1>9, <1>10, <1>11, Zenon DEF Next, Step, Fault


\* Unless the queue has a single slot, no thread is left waiting beside a
\* message for which no thread was woken.
THEOREM QueueNoStuckWaiter == ASSUME TwoSlots PROVE Spec => []NoStuckWaiter
<1> DEFINE I == TypeInv /\ RingInv /\ NoStuckWaiter
<1>1. Init => I
  BY TypeInit, RingInit, WaiterInit, Zenon
<1>2. I /\ [Next]_vars => I'
  BY TypeStep, RingStep, WaiterStep, Zenon
<1> QED
  BY <1>1, <1>2, PTL DEF Spec
-----------------------------------------------------------------------------
(* The contents of the ring as a sequence *)

\* What a buffer b holds from index h up to index l.
Segment(b, h, l) == [i \in 1 .. Distance(h, l) |-> b[Slot(h, i - 1)]]

Cells == Msgs \cup {NoMsg}

\* What is appended to a sequence is its last element.
LEMMA AppendLast ==
  ASSUME NEW S, NEW s \in Seq(S), NEW x \in S
  PROVE Append(s, x) # <<>> /\ Append(s, x)[Len(Append(s, x))] = x
BY SMTT(30)

\* A segment of the ring is a sequence of messages.
LEMMA SegmentSeq ==
  ASSUME NEW b \in [Indices -> Cells], NEW h \in Indices, NEW l \in Indices
  PROVE /\ Segment(b, h, l) \in Seq(Cells)
        /\ Len(Segment(b, h, l)) = Distance(h, l)
        /\ \A i \in 1 .. Distance(h, l) : Segment(b, h, l)[i] = b[Slot(h, i - 1)]
        /\ DOMAIN Segment(b, h, l) = 1 .. Distance(h, l)
<1>1. Distance(h, l) \in Nat /\ Distance(h, l) <= Capacity
  BY DistanceEq, CapacityAssumption, SMTT(30)
<1>2. \A i \in 1 .. Distance(h, l) : i - 1 \in 0 .. Capacity
  BY <1>1, CapacityAssumption, SMTT(30)
<1>3. \A i \in 1 .. Distance(h, l) : b[Slot(h, i - 1)] \in Cells
  BY <1>2, SlotEq, Zenon
<1> QED
  BY <1>1, <1>3, SMTT(30) DEF Segment

\* Two sequences of the same length with the same elements are equal.
LEMMA SameSeq ==
  ASSUME NEW p \in Seq(Cells), NEW r \in Seq(Cells), Len(p) = Len(r),
         \A i \in 1 .. Len(p) : p[i] = r[i]
  PROVE p = r
BY SMTT(30)

\* Storing at the tail appends.
LEMMA SegmentStore ==
  ASSUME NEW b \in [Indices -> Cells], NEW h \in Indices, NEW l \in Indices,
         Inc(l) # h, NEW m \in Cells
  PROVE Segment([b EXCEPT ![l] = m], h, Inc(l)) = Append(Segment(b, h, l), m)
<1> DEFINE b2 == [b EXCEPT ![l] = m]
<1> DEFINE n == Distance(h, l)
<1> DEFINE p == Segment(b2, h, Inc(l))
<1> DEFINE r == Append(Segment(b, h, l), m)
<1>1. b2 \in [Indices -> Cells] /\ Inc(l) \in Indices
  BY IncEq, Zenon
<1>2. n \in 0 .. Capacity - 1 /\ Slot(h, n) = l /\ Distance(h, Inc(l)) = n + 1
  BY DistanceEq, StoreSlots, Zenon
<1>3. /\ p \in Seq(Cells) /\ Len(p) = n + 1
      /\ \A i \in 1 .. n + 1 : p[i] = b2[Slot(h, i - 1)]
  <2> HIDE DEF b2
  <2>1. /\ p \in Seq(Cells) /\ Len(p) = Distance(h, Inc(l))
        /\ \A i \in 1 .. Distance(h, Inc(l)) : p[i] = b2[Slot(h, i - 1)]
    BY <1>1, SegmentSeq, Zenon
  <2> HIDE DEF p, n
  <2> QED
    BY <1>2, <2>1, Zenon
<1>4. /\ r \in Seq(Cells) /\ Len(r) = n + 1 /\ r[n + 1] = m
      /\ \A i \in 1 .. n : r[i] = b[Slot(h, i - 1)]
  BY <1>2, SegmentSeq, SMTT(30)
<1> HIDE DEF p, r, n
<1>5. ASSUME NEW i \in 1 .. n + 1 PROVE p[i] = r[i]
  <2>1. CASE i = n + 1
    BY <1>2, <1>3, <1>4, <2>1, SMTT(30) DEF b2
  <2>2. CASE i \in 1 .. n
    <3>1. Distance(h, Slot(h, i - 1)) = i - 1 /\ Slot(h, i - 1) \in Indices
      BY <1>2, <2>2, SlotDistance, SlotEq, CapacityAssumption, SMTT(30)
    <3>2. Slot(h, i - 1) # l
      <4>1. Distance(h, l) = n /\ i - 1 # n
        BY <1>2, <2>2, SMTT(30) DEF n
      <4> QED
        BY <3>1, <4>1, Zenon
    <3> QED
      BY <1>2, <1>3, <1>4, <2>2, <3>1, <3>2, Zenon
  <2> QED
    BY <1>2, <2>1, <2>2, SMTT(30)
<1>6. p = r
  BY <1>3, <1>4, <1>5, SameSeq, Zenon
<1> QED
  BY <1>6, Zenon DEF p, r

\* Advancing the head by k drops the k oldest messages.
LEMMA SegmentDrop ==
  ASSUME NEW b \in [Indices -> Cells], NEW h \in Indices, NEW l \in Indices,
         NEW k \in 0 .. Distance(h, l)
  PROVE Segment(b, Slot(h, k), l)
          = SubSeq(Segment(b, h, l), k + 1, Len(Segment(b, h, l)))
<1> DEFINE n == Distance(h, l)
<1> DEFINE g == Slot(h, k)
<1> DEFINE p == Segment(b, g, l)
<1> DEFINE r == SubSeq(Segment(b, h, l), k + 1, Len(Segment(b, h, l)))
<1>1. n \in 0 .. Capacity - 1 /\ Slot(h, n) = l /\ k \in 0 .. Capacity
  BY DistanceEq, CapacityAssumption, SMTT(30)
<1>2. g \in Indices /\ g = (IF h + k < Capacity THEN h + k ELSE h + k - Capacity)
  BY <1>1, SlotEq, Zenon
<1>3. Distance(g, l) = n - k
  <2>1. l = IF h + n < Capacity THEN h + n ELSE h + n - Capacity
    BY <1>1, SlotEq, CapacityAssumption, SMTT(30)
  <2> HIDE DEF g, n
  <2>2. k <= n
    BY <1>1, SMTT(30) DEF n
  <2> QED
    BY <1>1, <1>2, <2>1, <2>2, CapacityAssumption, SMTT(30) DEF Distance, Indices
<1>4. /\ p \in Seq(Cells) /\ Len(p) = n - k
      /\ \A i \in 1 .. n - k : p[i] = b[Slot(g, i - 1)]
  <2>1. /\ p \in Seq(Cells) /\ Len(p) = Distance(g, l)
        /\ \A i \in 1 .. Distance(g, l) : p[i] = b[Slot(g, i - 1)]
    BY <1>2, SegmentSeq, Zenon
  <2> HIDE DEF p, n, g
  <2> QED
    BY <1>3, <2>1, Zenon
<1>5. /\ r \in Seq(Cells) /\ Len(r) = n - k
      /\ \A i \in 1 .. n - k : r[i] = b[Slot(h, i + k - 1)]
  <2>1. /\ Segment(b, h, l) \in Seq(Cells) /\ Len(Segment(b, h, l)) = n
        /\ \A i \in 1 .. n : Segment(b, h, l)[i] = b[Slot(h, i - 1)]
    BY SegmentSeq, Zenon
  <2>2. k \in Nat /\ k <= n /\ n \in Nat
    BY <1>1
  <2>3. /\ r \in Seq(Cells) /\ Len(r) = n - k
        /\ \A i \in 1 .. n - k : r[i] = Segment(b, h, l)[i + k]
    BY <2>1, <2>2, SMTT(30)
  <2>4. \A i \in 1 .. n - k : i + k \in 1 .. n
    BY <2>2, SMTT(30)
  <2> HIDE DEF n, r
  <2> QED
    BY <2>1, <2>2, <2>3, <2>4, SMTT(30)
<1>6. ASSUME NEW i \in 1 .. n - k PROVE Slot(g, i - 1) = Slot(h, i + k - 1)
  <2>1. i - 1 \in 0 .. Capacity /\ i + k - 1 \in 0 .. Capacity
    BY <1>1, CapacityAssumption, SMTT(30)
  <2>2. /\ Slot(g, i - 1) = (IF g + (i - 1) < Capacity THEN g + (i - 1)
                             ELSE g + (i - 1) - Capacity)
        /\ Slot(h, i + k - 1) = (IF h + (i + k - 1) < Capacity THEN h + (i + k - 1)
                                 ELSE h + (i + k - 1) - Capacity)
    BY <1>2, <2>1, SlotEq, Zenon
  <2>3. i + k - 1 < Capacity /\ i \in Nat
    <3> HIDE DEF n
    <3> QED
      BY <1>1, CapacityAssumption, SMTT(30)
  <2> HIDE DEF g, n
  <2> QED
    BY <1>1, <1>2, <2>1, <2>2, <2>3, CapacityAssumption, SMTT(30) DEF Indices
<1> HIDE DEF p, r, n, g
<1>7. p = r
  <2>1. \A i \in 1 .. Len(p) : p[i] = r[i]
    BY <1>4, <1>5, <1>6, Zenon
  <2> QED
    BY <1>4, <1>5, <2>1, SameSeq, Zenon
<1> QED
  BY <1>7, Zenon DEF p, r, g
-----------------------------------------------------------------------------
(* The ring buffer implements DropQueue *)

\* The mutex makes the clearing thread the only one in a critical section.
LEMMA OneClears ==
  ASSUME TypeInv, NEW t \in Threads, mutex \in {t, NoThread}
  PROVE /\ pc[t] = "enq_clear" => FirstIndex = Inc(tail)
        /\ pc[t] # "enq_clear" => FirstIndex = head
BY NoThreadAssumption, Zenon DEF FirstIndex, TypeInv, Locked, CriticalSection

\* The contents are the segment from FirstIndex to tail.
LEMMA ContentsSegment ==
  /\ Contents = Segment(buffer, FirstIndex, tail)
  /\ Contents' = Segment(buffer', FirstIndex', tail')
BY Zenon DEF Contents, Segment, Distance, Slot

\* A step that does not move the ring leaves the contents alone.
LEMMA ContentsSame ==
  ASSUME UNCHANGED <<buffer, head, tail>>,
         \A t \in Threads : pc'[t] = "enq_clear" <=> pc[t] = "enq_clear"
  PROVE UNCHANGED Contents
<1>1. FirstIndex' = FirstIndex
  BY Zenon DEF FirstIndex, Inc
<1> QED
  BY <1>1, ContentsSegment, Zenon

\* The store is the abstract enqueue, drop included.
LEMMA StoreContents ==
  ASSUME TwoSlots, TypeInv, RingInv, TypeInv', NEW t \in Threads, EnqStore(t)
  PROVE /\ Contents' = Append(Segment(buffer, head, tail), hold[t])
        /\ Contents' = Abstract!Enq(Contents, hold[t], Capacity)
<1>1. /\ head \in Indices /\ tail \in Indices /\ buffer \in [Indices -> Cells]
      /\ hold[t] \in Cells /\ mutex = t
      /\ pc \in [Threads -> PCs]
  BY Zenon DEF TypeInv, TypeOK, Cells, Locked, CriticalSection, EnqStore
<1>2. Inc(tail) # head /\ Inc(tail) \in Indices
  BY <1>1, StoreHasRoom, IncEq, Zenon
<1>3. /\ buffer' = [buffer EXCEPT ![tail] = hold[t]] /\ tail' = Inc(tail)
      /\ head' = head /\ mutex' = t /\ pc'[t] = "enq_signal"
  BY <1>1, Zenon DEF EnqStore, Goto
<1>4. FirstIndex' = head
  <2>1. \A u \in Threads : pc'[u] # "enq_clear"
    BY <1>3, NoThreadAssumption, Zenon DEF TypeInv, Locked, CriticalSection
  <2> QED
    BY <1>3, <2>1, Zenon DEF FirstIndex
<1>5. Contents' = Append(Segment(buffer, head, tail), hold[t])
  BY <1>1, <1>2, <1>3, <1>4, ContentsSegment, SegmentStore, Zenon
<1>6. /\ Segment(buffer, head, tail) \in Seq(Cells)
      /\ Len(Segment(buffer, head, tail)) = Distance(head, tail)
  BY <1>1, SegmentSeq, Zenon
<1>7. CASE pc[t] = "enq_store"
  <2>1. Contents = Segment(buffer, head, tail)
    BY <1>1, <1>7, OneClears, ContentsSegment, Zenon
  <2>2. Distance(head, tail) # Capacity - 1
    <3>1. Inc(tail) = IF tail = Capacity - 1 THEN 0 ELSE tail + 1
      BY <1>1, IncEq, Zenon
    <3> QED
      BY <1>1, <1>2, <3>1, CapacityAssumption, SMTT(30) DEF Distance, Indices
  <2>3. SubSeq(Contents, 1, Len(Contents)) = Contents
    BY <1>6, <2>1, SMTT(30)
  <2> QED
    BY <1>5, <1>6, <2>1, <2>2, <2>3, SMTT(30) DEF Abstract!Enq, Abstract!Dropped
<1>8. CASE pc[t] = "enq_clear" /\ head = ClearTarget
  <2> DEFINE n == Inc(tail)
  <2> DEFINE H == Capacity \div 2
  <2>1. Contents = Segment(buffer, n, tail)
    BY <1>1, <1>8, OneClears, ContentsSegment, Zenon
  <2>2. Distance(n, tail) = Capacity - 1
    <3>1. Inc(tail) = IF tail = Capacity - 1 THEN 0 ELSE tail + 1
      BY <1>1, IncEq, Zenon
    <3> QED
      BY <1>1, <3>1, CapacityAssumption, SMTT(30) DEF Distance, Indices
  <2>3. H \in 0 .. Distance(n, tail) /\ head = Slot(n, H)
    BY <1>8, <2>2, HalfEq, CapacityAssumption, SMTT(30) DEF TwoSlots, ClearTarget
  <2>4. Segment(buffer, head, tail) = SubSeq(Contents, H + 1, Len(Contents))
    <3> HIDE DEF n, H
    <3>1. n \in Indices
      BY <1>2, Zenon DEF n
    <3> QED
      BY <1>1, <2>1, <2>3, <3>1, SegmentDrop, Zenon
  <2>5. Len(Contents) = Capacity - 1
    BY <1>1, <1>2, <2>1, <2>2, SegmentSeq, Zenon
  <2> QED
    BY <1>5, <2>4, <2>5, Zenon DEF Abstract!Enq, Abstract!Dropped
<1> QED
  BY <1>5, <1>7, <1>8, Zenon DEF EnqStore

\* Taking the head is the abstract dequeue.
LEMMA TakeContents ==
  ASSUME TypeInv, TypeInv', NEW t \in Threads, mutex = NoThread, pc[t] # "enq_clear",
         head # tail, TakeHead(t)
  PROVE Contents # <<>> /\ buffer[head] = Head(Contents) /\ Contents' = Tail(Contents)
<1>1. /\ head \in Indices /\ tail \in Indices /\ buffer \in [Indices -> Cells]
      /\ pc \in [Threads -> PCs]
  BY Zenon DEF TypeInv, TypeOK, Cells
<1>2. /\ buffer' = buffer /\ tail' = tail /\ head' = Inc(head) /\ mutex' = t
      /\ pc'[t] = "deq_unlock"
  BY <1>1, Zenon DEF TakeHead, Goto
<1>3. FirstIndex = head
  BY OneClears, Zenon
<1>4. FirstIndex' = Inc(head)
  <2>1. \A u \in Threads : pc'[u] # "enq_clear"
    BY <1>2, NoThreadAssumption, Zenon DEF TypeInv, Locked, CriticalSection
  <2> QED
    BY <1>2, <2>1, Zenon DEF FirstIndex
<1>5. /\ Contents = Segment(buffer, head, tail) /\ Contents \in Seq(Cells)
      /\ Len(Contents) = Distance(head, tail)
      /\ \A i \in 1 .. Distance(head, tail) : Contents[i] = buffer[Slot(head, i - 1)]
  BY <1>1, <1>3, ContentsSegment, SegmentSeq, Zenon
<1>6. Distance(head, tail) \in Nat \ {0}
  BY <1>1, CapacityAssumption DEF Distance, Indices
<1>7. Slot(head, 0) = head /\ Slot(head, 1) = Inc(head)
  <2>1. Slot(head, 0) = head
    BY <1>1, SlotEq, CapacityAssumption, SMTT(30) DEF Indices
  <2> QED
    BY <2>1, Zenon DEF Slot, Inc
<1>8. Contents' = SubSeq(Contents, 2, Len(Contents))
  <2>1. Segment(buffer, Slot(head, 1), tail)
          = SubSeq(Segment(buffer, head, tail), 1 + 1, Len(Segment(buffer, head, tail)))
    BY <1>1, <1>6, SegmentDrop, SMTT(30)
  <2>2. Contents' = Segment(buffer, Slot(head, 1), tail)
    BY ONLY <1>2, <1>4, <1>7, ContentsSegment, Zenon
  <2>3. 1 + 1 = 2
    BY SMTT(30)
  <2> QED
    BY ONLY <1>5, <2>1, <2>2, <2>3, Zenon
<1>9. Contents[1] = buffer[head]
  <2>1. 1 \in 1 .. Distance(head, tail) /\ 1 - 1 = 0
    BY ONLY <1>6, SMTT(30)
  <2>2. Contents[1] = buffer[Slot(head, 1 - 1)]
    BY ONLY <1>5, <2>1, Zenon
  <2> QED
    BY ONLY <1>7, <2>1, <2>2, Zenon
<1> QED
  BY <1>5, <1>6, <1>8, <1>9, SMTT(30)

\* The message just stored is the last of the queue until the enqueue returns.
Published ==
  \A t \in Threads : pc[t] \in {"enq_signal", "enq_unlock"} =>
    Contents # <<>> /\ Contents[Len(Contents)] = hold[t]

\* While an enqueue that has stored its message has the mutex, no other step
\* changes the contents.
LEMMA PublishedStep ==
  ASSUME TwoSlots, TypeInv, RingInv, Published, [Next]_vars, TypeInv'
  PROVE Published'
<1> DEFINE Stored == {"enq_signal", "enq_unlock"}
<1> SUFFICES ASSUME NEW t \in Threads, pc'[t] \in Stored
             PROVE Contents' # <<>> /\ Contents'[Len(Contents')] = hold'[t]
  BY Zenon DEF Published
<1>t. /\ pc \in [Threads -> PCs] /\ hold \in [Threads -> Cells]
      /\ \A u \in Threads : /\ pc[u] \in CriticalSection => mutex = u
                            /\ pc'[u] \in CriticalSection => mutex' = u
  BY Zenon DEF TypeInv, TypeOK, Cells, Locked
<1>a. ASSUME UNCHANGED <<buffer, head, tail>>, hold'[t] = hold[t], pc[t] \in Stored,
             \A u \in Threads : pc'[u] = "enq_clear" <=> pc[u] = "enq_clear"
      PROVE Contents' # <<>> /\ Contents'[Len(Contents')] = hold'[t]
  BY <1>a, ContentsSame, Zenon DEF Published
<1>1. ASSUME NEW u \in Threads, EnqStore(u)
      PROVE Contents' # <<>> /\ Contents'[Len(Contents')] = hold'[t]
  <2>1. /\ pc[u] \in CriticalSection /\ mutex' = mutex /\ hold' = hold
    BY <1>1, Zenon DEF EnqStore, CriticalSection
  <2>2. t = u
    BY <1>t, <2>1, Zenon DEF CriticalSection
  <2>3. Contents' = Append(Segment(buffer, head, tail), hold[t])
    BY <1>1, <2>2, StoreContents, Zenon
  <2>4. Segment(buffer, head, tail) \in Seq(Cells) /\ hold[t] \in Cells
    BY SegmentSeq, Zenon DEF TypeInv, TypeOK, Cells
  <2>5. Contents' # <<>> /\ Contents'[Len(Contents')] = hold[t]
    BY ONLY <2>3, <2>4, AppendLast, Zenon
  <2> QED
    BY <2>1, <2>5, Zenon
<1>2. CASE Create \/ Delete
  <2>1. pc' = pc /\ pc[t] = "idle"
    BY <1>2, Zenon DEF Create, Delete, RingInv
  <2> QED
    BY <2>1, Zenon
<1>3. ASSUME NEW u \in Threads, NewMessage(u) \/ FreeMessage(u)
      PROVE Contents' # <<>> /\ Contents'[Len(Contents')] = hold'[t]
  <2>1. /\ pc' = pc /\ pc[u] = "idle" /\ UNCHANGED <<buffer, head, tail>>
        /\ \E m \in Cells : hold' = [hold EXCEPT ![u] = m]
    BY <1>3, Zenon DEF NewMessage, FreeMessage, qvars, Cells
  <2> QED
    BY <1>a, <1>t, <2>1, Zenon
<1>4. ASSUME NEW u \in Threads, EnqLock(u) \/ EnqClear(u) \/ Dequeue(u) \/ TryDequeue(u)
                                 \/ WaitFails(u)
      PROVE FALSE
  <2>1. \/ mutex = NoThread
        \/ pc[u] = "enq_clear"
    BY <1>4, Zenon DEF EnqLock, EnqClear, Dequeue, TryDequeue, WaitFails
  <2>2. \E l \in PCs \ Stored : pc' = [pc EXCEPT ![u] = l]
    <3>1. EnqClear(u) => pc' = pc /\ pc[u] = "enq_clear"
      BY Zenon DEF EnqClear
    <3>2. CASE EnqClear(u)
      BY <1>t, <3>1, <3>2, Zenon DEF PCs
    <3>3. CASE EnqLock(u) \/ Dequeue(u) \/ TryDequeue(u) \/ WaitFails(u)
      BY <3>3, Zenon DEF EnqLock, Dequeue, TryDequeue, WaitFails, TakeHead, Goto, PCs
    <3> QED
      BY <1>4, <3>2, <3>3, Zenon
  <2>3. pc[t] \in Stored
    BY <1>t, <2>2, Zenon
  <2>4. mutex = t /\ pc[u] # "enq_clear"
    BY <1>t, <2>3, Zenon DEF CriticalSection
  <2> QED
    BY <2>1, <2>4, NoThreadAssumption, Zenon
<1>5. ASSUME NEW u \in Threads, EnqSignal(u)
      PROVE Contents' # <<>> /\ Contents'[Len(Contents')] = hold'[t]
  <2>1. UNCHANGED <<buffer, head, tail, hold>> /\ pc[u] = "enq_signal"
    BY <1>5, Zenon DEF EnqSignal, qvars
  <2>2. \A v \in Threads : /\ pc'[v] = "enq_clear" <=> pc[v] = "enq_clear"
                           /\ pc'[v] \in Stored <=> pc[v] \in Stored
    BY <1>5, <1>t, Zenon DEF EnqSignal, Goto, Waiting
  <2> QED
    BY <1>a, <2>1, <2>2, Zenon
<1>6. ASSUME NEW u \in Threads, Call(u) \/ LockFails(u) \/ SpuriousWakeup(u)
                                 \/ EnqSignalFails(u) \/ EnqReturn(u) \/ DeqReturn(u)
                                 \/ UnlockFails(u)
      PROVE Contents' # <<>> /\ Contents'[Len(Contents')] = hold'[t]
  <2>1. /\ UNCHANGED <<buffer, head, tail>> /\ pc[u] # "enq_clear"
        /\ \E l \in PCs \ (Stored \cup {"enq_clear"}) : pc' = [pc EXCEPT ![u] = l]
    BY <1>6, Zenon DEF Call, LockFails, SpuriousWakeup, EnqSignalFails, EnqReturn, DeqReturn,
                UnlockFails, qvars, Goto, PCs
  <2>2. hold' = hold \/ hold' = [hold EXCEPT ![u] = NoMsg]
    BY <1>6, Zenon DEF Call, LockFails, SpuriousWakeup, EnqSignalFails, EnqReturn, DeqReturn,
                UnlockFails
  <2>3. t # u /\ pc[t] \in Stored /\ hold'[t] = hold[t]
    BY <1>t, <2>1, <2>2, Zenon
  <2>4. \A v \in Threads : pc'[v] = "enq_clear" <=> pc[v] = "enq_clear"
    BY <1>t, <2>1, Zenon
  <2> QED
    BY <1>a, <2>1, <2>3, <2>4, Zenon
<1>7. CASE UNCHANGED vars
  BY <1>7, <1>a, Zenon DEF vars
<1> QED
  BY <1>1, <1>2, <1>3, <1>4, <1>5, <1>6, <1>7, Zenon DEF Next, Step, Fault

\* An initial state of the ring buffer is one of the abstract queue.
LEMMA RefineInit == Init => Abstract!Init
<1> SUFFICES ASSUME Init PROVE Abstract!Init
  BY Zenon
<1>1. FirstIndex = 0 /\ Distance(0, 0) = 0
  BY SMTT(30) DEF Init, FirstIndex, Distance
<1>2. Contents = <<>>
  BY <1>1, SMTT(30) DEF Init, Contents
<1> QED
  BY <1>2, Zenon DEF Init, Abstract!Init, AbstractHold, AbstractOp, OpOf

\* A step of the ring buffer is a step of the abstract queue or a stutter.
LEMMA RefineStep ==
  ASSUME TwoSlots, TypeInv, RingInv, Published, [Next]_vars, TypeInv'
  PROVE [Abstract!Next]_(Abstract!dvars)
<1> DEFINE Stored == {"enq_signal", "enq_unlock"}
<1> DEFINE AH == [t \in Threads |-> IF pc[t] \in Stored THEN NoMsg ELSE hold[t]]
<1> DEFINE AH2 == [t \in Threads |-> IF pc'[t] \in Stored THEN NoMsg ELSE hold'[t]]
<1>t. /\ pc \in [Threads -> PCs] /\ hold \in [Threads -> Cells]
      /\ head \in Indices /\ tail \in Indices
  BY Zenon DEF TypeInv, TypeOK, Cells
<1> DEFINE AO == [t \in Threads |-> OpOf(pc[t])]
<1> DEFINE AO2 == [t \in Threads |-> OpOf(pc'[t])]
<1>h. /\ AbstractHold = AH /\ AbstractHold' = AH2
      /\ AbstractOp = AO /\ AbstractOp' = AO2
  BY Zenon DEF AbstractHold, AbstractOp, OpOf
<1>o. /\ OpOf("idle") = "none"
      /\ \A l \in {"enq_lock", "enq_store", "enq_clear", "enq_signal", "enq_unlock"} :
           OpOf(l) = "enqueue"
      /\ \A l \in {"deq_lock", "try_lock", "deq_wait", "deq_woken", "deq_unlock"} :
           OpOf(l) = "dequeue"
  BY Zenon DEF OpOf
<1> USE DEF Abstract!dvars
<1>a. ASSUME UNCHANGED <<buffer, head, tail, hold>>,
             \A t \in Threads : /\ pc'[t] = "enq_clear" <=> pc[t] = "enq_clear"
                                /\ pc'[t] \in Stored <=> pc[t] \in Stored
                                /\ OpOf(pc'[t]) = OpOf(pc[t])
      PROVE UNCHANGED Abstract!dvars
  BY <1>a, <1>h, ContentsSame, Zenon
\* A step that only ends the call of t.
<1>b. ASSUME NEW t \in Threads, UNCHANGED <<buffer, head, tail>>, pc[t] \in PCs \ {"idle"},
             pc' = [pc EXCEPT ![t] = "idle"], pc[t] # "enq_clear"
      PROVE /\ UNCHANGED Contents /\ AO2 = [AO EXCEPT ![t] = "none"]
            /\ AH2 = AH => Abstract!Next
  <2>1. UNCHANGED Contents
    BY <1>b, <1>t, ContentsSame, Zenon
  <2>2. AO2 = [AO EXCEPT ![t] = "none"]
    BY <1>b, <1>t, <1>o, Zenon
  <2>3. AO[t] # "none"
    BY <1>b, <1>o, Zenon DEF PCs
  <2>4. AH2 = AH => Abstract!Return(t)
    BY <1>h, <2>1, <2>2, <2>3, Zenon DEF Abstract!Return
  <2> QED
    BY <2>1, <2>2, <2>4, Zenon DEF Abstract!Next
<1>1. CASE Create
  <2>1. /\ FirstIndex = head /\ FirstIndex' = 0 /\ head = tail /\ tail' = 0
        /\ UNCHANGED <<pc, hold>>
    BY <1>1, Zenon DEF Create, RingInv, FirstIndex
  <2>2. Contents = <<>> /\ Contents' = <<>>
    BY <1>t, <2>1, ContentsSegment, SMTT(30) DEF Segment, Distance, Indices
  <2> QED
    BY <1>h, <2>1, <2>2, Zenon
<1>2. CASE Delete
  <2>1. /\ FirstIndex' = 0 /\ tail' = 0 /\ UNCHANGED <<pc, hold>>
        /\ \A t \in Threads : pc[t] = "idle"
    BY <1>2, Zenon DEF Delete, FirstIndex
  <2>2. Contents' = <<>>
    BY <2>1, ContentsSegment, SMTT(30) DEF Segment, Distance
  <2>3. \A t \in Threads : AO[t] = "none"
    BY <1>o, <2>1, Zenon
  <2> QED
    BY <1>h, <2>1, <2>2, <2>3, Zenon DEF Abstract!Next, Abstract!Clear
<1>3. ASSUME NEW t \in Threads, NewMessage(t) PROVE Abstract!Next
  <2>1. PICK m \in Msgs : hold' = [hold EXCEPT ![t] = m]
    BY <1>3, Zenon DEF NewMessage
  <2>2. /\ pc[t] = "idle" /\ hold[t] = NoMsg /\ UNCHANGED <<buffer, head, tail, pc>>
    BY <1>3, Zenon DEF NewMessage, qvars
  <2>3. AH[t] = NoMsg /\ AH2 = [AH EXCEPT ![t] = m]
    BY <1>t, <2>1, <2>2, Zenon
  <2>4. UNCHANGED Contents /\ AO2 = AO /\ AO[t] = "none"
    BY <1>o, <2>2, ContentsSame, Zenon
  <2>5. Abstract!Obtain(t)
    BY <1>h, <2>3, <2>4, Zenon DEF Abstract!Obtain
  <2> QED
    BY <2>5, Zenon DEF Abstract!Next
<1>4. ASSUME NEW t \in Threads, FreeMessage(t) PROVE Abstract!Next
  <2>1. /\ pc[t] = "idle" /\ hold[t] # NoMsg /\ hold' = [hold EXCEPT ![t] = NoMsg]
        /\ UNCHANGED <<buffer, head, tail, pc>>
    BY <1>4, Zenon DEF FreeMessage, qvars
  <2>2. AH[t] # NoMsg /\ AH2 = [AH EXCEPT ![t] = NoMsg]
    BY <1>t, <2>1, Zenon
  <2>3. UNCHANGED Contents /\ AO2 = AO /\ AO[t] = "none"
    BY <1>o, <2>1, ContentsSame, Zenon
  <2>4. Abstract!Discard(t)
    BY <1>h, <2>2, <2>3, Zenon DEF Abstract!Discard
  <2> QED
    BY <2>4, Zenon DEF Abstract!Next
<1>5. ASSUME NEW t \in Threads, Call(t) PROVE Abstract!Next
  <2>1. /\ UNCHANGED <<buffer, head, tail, hold>> /\ pc[t] = "idle"
        /\ \/ hold[t] # NoMsg /\ pc' = [pc EXCEPT ![t] = "enq_lock"]
           \/ hold[t] = NoMsg /\ pc' = [pc EXCEPT ![t] = "deq_lock"]
           \/ hold[t] = NoMsg /\ pc' = [pc EXCEPT ![t] = "try_lock"]
    BY <1>5, Zenon DEF Call, qvars, Goto
  <2>2. UNCHANGED Contents
    BY <1>t, <2>1, ContentsSame, Zenon
  <2>3. AH2 = AH /\ AH[t] = hold[t]
    BY <1>t, <2>1, Zenon
  <2>4. /\ AO[t] = "none"
        /\ AO2 = [AO EXCEPT ![t] = IF hold[t] = NoMsg THEN "dequeue" ELSE "enqueue"]
    BY <1>t, <1>o, <2>1, Zenon
  <2>5. Abstract!Call(t)
    BY <1>h, <2>2, <2>3, <2>4, Zenon DEF Abstract!Call
  <2> QED
    BY <2>5, Zenon DEF Abstract!Next
<1>16. ASSUME NEW t \in Threads, LockFails(t) \/ WaitFails(t) \/ DeqReturn(t)
       PROVE Abstract!Next
  <2>1. /\ UNCHANGED <<buffer, head, tail, hold>>
        /\ pc[t] \in PCs \ (Stored \cup {"enq_clear", "idle"})
        /\ pc' = [pc EXCEPT ![t] = "idle"]
    BY <1>16, Zenon DEF LockFails, WaitFails, DeqReturn, qvars, Goto, PCs
  <2>2. AH2 = AH
    BY <1>t, <2>1, Zenon
  <2> QED
    BY <1>b, <2>1, <2>2, Zenon
<1>17. ASSUME NEW t \in Threads, SpuriousWakeup(t) PROVE UNCHANGED Abstract!dvars
  <2>1. /\ UNCHANGED <<buffer, head, tail, hold>> /\ pc[t] = "deq_wait"
        /\ pc' = [pc EXCEPT ![t] = "deq_woken"]
    BY <1>17, Zenon DEF SpuriousWakeup, qvars, Goto
  <2>2. \A u \in Threads : /\ pc'[u] = "enq_clear" <=> pc[u] = "enq_clear"
                           /\ pc'[u] \in Stored <=> pc[u] \in Stored
                           /\ OpOf(pc'[u]) = OpOf(pc[u])
    BY <1>t, <1>o, <2>1, Zenon
  <2> QED
    BY <1>a, <2>1, <2>2, Zenon
<1>6. ASSUME NEW t \in Threads, EnqLock(t) PROVE UNCHANGED Abstract!dvars
  <2>1. /\ UNCHANGED <<buffer, head, tail, hold>> /\ pc[t] = "enq_lock" /\ mutex = NoThread
        /\ pc' = [pc EXCEPT ![t] = IF Inc(tail) = head THEN "enq_clear" ELSE "enq_store"]
    BY <1>6, Zenon DEF EnqLock, qvars, Goto
  <2>2. FirstIndex = head
    BY <2>1, OneClears, Zenon
  <2>3. FirstIndex' = head
    <3>1. \A u \in Threads : pc[u] # "enq_clear"
      BY <2>1, NoThreadAssumption, Zenon DEF TypeInv, Locked, CriticalSection
    <3>2. FirstIndex' = IF \E u \in Threads : pc'[u] = "enq_clear" THEN Inc(tail) ELSE head
      BY <2>1, Zenon DEF FirstIndex, Inc
    <3> QED
      BY <1>t, <2>1, <3>1, <3>2, Zenon
  <2>4. AH2 = AH /\ AO2 = AO
    BY <1>t, <1>o, <2>1, Zenon
  <2> QED
    BY <1>h, <2>1, <2>2, <2>3, <2>4, ContentsSegment, Zenon
<1>7. ASSUME NEW t \in Threads, EnqClear(t) PROVE UNCHANGED Abstract!dvars
  <2>1. UNCHANGED <<buffer, tail, pc, hold>> /\ pc[t] = "enq_clear"
    BY <1>7, Zenon DEF EnqClear
  <2>2. FirstIndex' = FirstIndex
    BY <2>1, Zenon DEF FirstIndex, Inc
  <2> QED
    BY <1>h, <2>1, <2>2, ContentsSegment, Zenon
<1>8. ASSUME NEW t \in Threads, EnqStore(t) PROVE Abstract!Next
  <2>1. /\ pc[t] \in {"enq_store", "enq_clear"} /\ hold[t] \in Msgs /\ hold' = hold
        /\ pc' = [pc EXCEPT ![t] = "enq_signal"]
    BY <1>8, Zenon DEF EnqStore, Goto, TypeInv, Loaded
  <2>2. AH[t] = hold[t] /\ hold[t] # NoMsg /\ AH2 = [AH EXCEPT ![t] = NoMsg]
    BY <1>t, <2>1, NoMsgAssumption, Zenon
  <2>3. Contents' = Abstract!Enq(Contents, hold[t], Capacity)
    BY <1>8, StoreContents, Zenon
  <2>5. AO2 = AO /\ AO[t] = "enqueue"
    BY <1>t, <1>o, <2>1, Zenon
  <2>4. Abstract!Put(t)
    BY <1>h, <2>2, <2>3, <2>5, Zenon DEF Abstract!Put
  <2> QED
    BY <2>4, Zenon DEF Abstract!Next
<1>9. ASSUME NEW t \in Threads, EnqSignal(t) PROVE UNCHANGED Abstract!dvars
  <2>1. UNCHANGED <<buffer, head, tail, hold>> /\ pc[t] = "enq_signal"
    BY <1>9, Zenon DEF EnqSignal, qvars
  <2>2. \A u \in Threads : /\ pc'[u] = "enq_clear" <=> pc[u] = "enq_clear"
                           /\ pc'[u] \in Stored <=> pc[u] \in Stored
                           /\ OpOf(pc'[u]) = OpOf(pc[u])
    BY <1>9, <1>t, <1>o, SMTT(30) DEF EnqSignal, Goto, Waiting
  <2> QED
    BY <1>a, <2>1, <2>2, Zenon
\* An enqueue that stored its message and reports an error.
<1>c. ASSUME NEW t \in Threads, UNCHANGED <<buffer, head, tail, hold>>, pc[t] \in Stored,
             pc' = [pc EXCEPT ![t] = "idle"]
      PROVE Abstract!Next
  <2>1. UNCHANGED Contents /\ AO2 = [AO EXCEPT ![t] = "none"]
    BY <1>c, <1>b, Zenon DEF PCs
  <2>2. AH[t] = NoMsg /\ AH2 = [AH EXCEPT ![t] = hold[t]] /\ AO[t] = "enqueue"
    BY <1>t, <1>o, <1>c, Zenon
  <2>3. Contents # <<>> /\ Contents[Len(Contents)] = hold[t]
    BY <1>c, Zenon DEF Published
  <2>4. Abstract!Retain(t)
    BY <1>h, <2>1, <2>2, <2>3, Zenon DEF Abstract!Retain
  <2> QED
    BY <2>4, Zenon DEF Abstract!Next
<1>10. ASSUME NEW t \in Threads, EnqSignalFails(t) PROVE Abstract!Next
  BY <1>10, <1>c, Zenon DEF EnqSignalFails, qvars, Goto
<1>11. ASSUME NEW t \in Threads, EnqReturn(t) PROVE Abstract!Next
  <2>1. /\ UNCHANGED <<buffer, head, tail>> /\ pc[t] = "enq_unlock"
        /\ pc' = [pc EXCEPT ![t] = "idle"] /\ hold' = [hold EXCEPT ![t] = NoMsg]
    BY <1>11, Zenon DEF EnqReturn, qvars, Goto
  <2>2. AH2 = AH
    BY <1>t, <2>1, Zenon
  <2> QED
    BY <1>b, <2>1, <2>2, Zenon DEF PCs
<1>12. ASSUME NEW t \in Threads, Dequeue(t) \/ TryDequeue(t), head # tail PROVE Abstract!Next
  <2>1. /\ TakeHead(t) /\ mutex = NoThread /\ hold[t] = NoMsg
        /\ pc[t] \in {"deq_lock", "deq_woken", "try_lock"}
    BY <1>12, Zenon DEF Dequeue, TryDequeue, TypeInv, Loaded
  <2>2. Contents # <<>> /\ buffer[head] = Head(Contents) /\ Contents' = Tail(Contents)
    BY <1>12, <2>1, TakeContents, Zenon
  <2>3. AH[t] = NoMsg /\ AH2 = [AH EXCEPT ![t] = buffer[head]]
    BY <1>t, <2>1, Zenon DEF TakeHead, Goto
  <2>5. AO2 = AO /\ AO[t] = "dequeue"
    BY <1>t, <1>o, <2>1, Zenon DEF TakeHead, Goto
  <2>4. Abstract!Take(t)
    BY <1>h, <2>2, <2>3, <2>5, Zenon DEF Abstract!Take
  <2> QED
    BY <2>4, Zenon DEF Abstract!Next
<1>13. ASSUME NEW t \in Threads, Dequeue(t) \/ TryDequeue(t), head = tail
       PROVE UNCHANGED Abstract!dvars
  <2>1. /\ UNCHANGED <<buffer, head, tail, hold>>
        /\ pc[t] \in {"deq_lock", "deq_woken", "try_lock"}
        /\ \E l \in {"deq_wait", "deq_unlock"} : pc' = [pc EXCEPT ![t] = l]
    BY <1>13, Zenon DEF Dequeue, TryDequeue, qvars, Goto
  <2>2. \A u \in Threads : /\ pc'[u] = "enq_clear" <=> pc[u] = "enq_clear"
                           /\ pc'[u] \in Stored <=> pc[u] \in Stored
                           /\ OpOf(pc'[u]) = OpOf(pc[u])
    BY <1>t, <1>o, <2>1, SMTT(30)
  <2> QED
    BY <1>a, <2>1, <2>2, Zenon
<1>14. ASSUME NEW t \in Threads, UnlockFails(t) PROVE Abstract!Next
  <2>1. /\ UNCHANGED <<buffer, head, tail>> /\ pc[t] \in {"enq_unlock", "deq_unlock"}
        /\ pc' = [pc EXCEPT ![t] = "idle"]
        /\ hold' = IF pc[t] = "deq_unlock" THEN [hold EXCEPT ![t] = NoMsg] ELSE hold
    BY <1>14, Zenon DEF UnlockFails, qvars, Goto
  <2>2. CASE pc[t] = "deq_unlock"
    <3>1. AH2 = [AH EXCEPT ![t] = NoMsg] /\ AO[t] = "dequeue"
      BY <1>t, <1>o, <2>1, <2>2, Zenon
    <3>2. UNCHANGED Contents /\ AO2 = [AO EXCEPT ![t] = "none"]
      BY <1>b, <2>1, <2>2, Zenon DEF PCs
    <3>3. Abstract!Lose(t)
      BY <1>h, <3>1, <3>2, Zenon DEF Abstract!Lose
    <3> QED
      BY <3>3, Zenon DEF Abstract!Next
  <2>3. CASE pc[t] = "enq_unlock"
    BY <1>c, <2>1, <2>3, Zenon
  <2> QED
    BY <2>1, <2>2, <2>3, Zenon
<1>15. CASE UNCHANGED vars
  BY <1>15, <1>a, Zenon DEF vars
<1> QED
  BY SMTT(30), <1>1, <1>2, <1>3, <1>4, <1>5, <1>6, <1>7, <1>8, <1>9, <1>10, <1>11, <1>12, <1>13,
     <1>14, <1>15, <1>16, <1>17
  DEF Next, Step, Fault

\* Unless the queue has a single slot, the ring buffer implements the atomic
\* FIFO queue that drops the oldest half on overflow.
THEOREM QueueImplementsDropQueue ==
  ASSUME TwoSlots PROVE Spec => ImplementsDropQueue
<1> DEFINE I == TypeInv /\ RingInv /\ Published
<1>1. Init => I /\ Abstract!Init
  <2>1. Init => Published
    BY Zenon DEF Init, Published
  <2> QED
    BY <2>1, TypeInit, RingInit, RefineInit, Zenon
<1>2. I /\ [Next]_vars => I'
  BY TypeStep, RingStep, PublishedStep, Zenon
<1>3. I /\ I' /\ [Next]_vars => [Abstract!Next]_(Abstract!dvars)
  BY RefineStep, Zenon
<1> QED
  BY <1>1, <1>2, <1>3, PTL DEF Spec, ImplementsDropQueue, Abstract!Spec

\* Unless the queue has a single slot, message_queue_enqueue leaves its
\* message at the end of the queue.
THEOREM QueueEnqueueAppends == ASSUME TwoSlots PROVE Spec => EnqueueAppends
<1> DEFINE I == TypeInv /\ RingInv
<1> DEFINE Appends == \A t \in Threads : EnqStore(t) =>
                        Contents' # <<>> /\ Contents'[Len(Contents')] = hold[t]
<1>1. Init => I
  BY TypeInit, RingInit, Zenon
<1>2. I /\ [Next]_vars => I'
  BY TypeStep, RingStep, Zenon
<1>3. ASSUME I, I', NEW t \in Threads, EnqStore(t)
      PROVE Contents' # <<>> /\ Contents'[Len(Contents')] = hold[t]
  <2>1. Contents' = Append(Segment(buffer, head, tail), hold[t])
    BY <1>3, StoreContents, Zenon
  <2>2. Segment(buffer, head, tail) \in Seq(Cells) /\ hold[t] \in Cells
    BY <1>3, SegmentSeq, Zenon DEF TypeInv, TypeOK, Cells
  <2> QED
    BY <2>1, <2>2, SMTT(30)
<1>4. I /\ I' /\ [Next]_vars => [Appends]_vars
  BY <1>3, Zenon
<1> QED
  BY <1>1, <1>2, <1>4, PTL DEF Spec, EnqueueAppends
=============================================================================
