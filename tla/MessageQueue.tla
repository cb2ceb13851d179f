----------------------------- MODULE MessageQueue -----------------------------
(***************************************************************************)
(* src/network/message_queue.c: a ring buffer of message pointers with a   *)
(* mutex and a condition variable, used by any number of threads.          *)
(*                                                                         *)
(* Each thread owns at most one message (hold[t]) and calls one operation  *)
(* at a time; pc[t] says how far it is.  What runs under the mutex is      *)
(* split where the code loops or calls a pthread function that can fail:   *)
(* the clearing loop takes one step per message.  heap is the set of       *)
(* allocated messages, so an address may be allocated again once it is     *)
(* freed.  Faults names the pthread calls that may return an error.        *)
(***************************************************************************)
EXTENDS Integers, Sequences, FiniteSets

CONSTANTS Threads, Msgs, NoMsg, NoThread, Capacity, Faults

ASSUME CapacityAssumption == Capacity \in Nat \ {0}
ASSUME NoMsgAssumption == NoMsg \notin Msgs
ASSUME NoThreadAssumption == NoThread \notin Threads
ASSUME ThreadsAssumption == IsFiniteSet(Threads)
ASSUME FaultsAssumption == Faults \subseteq {"lock", "wait", "signal", "unlock"}

VARIABLES
  created,   \* between message_queue_create and message_queue_delete
  buffer, head, tail,
  mutex,     \* the thread that owns queue->mutex, or NoThread
  pc,        \* pc[t]: where thread t is
  hold,      \* hold[t]: the message thread t owns, or NoMsg
  heap,      \* the messages allocated and not freed
  tainted    \* messages of a call that returned an error after it took effect

qvars == <<created, buffer, head, tail>>
vars == <<created, buffer, head, tail, mutex, pc, hold, heap, tainted>>

Indices == 0 .. Capacity - 1

\* Slip: the index is not wrapped.
IncUnwrapped(i) == i + 1

\* (i + 1) % queue->capacity
Inc(i) == (i + 1) % Capacity

\* The index k places after i.
Slot(i, k) == (i + k) % Capacity

\* How many times i must be incremented to reach j.
Distance(i, j) == IF i <= j THEN j - i ELSE j - i + Capacity

Count == Distance(head, tail)

\* Slip: the loop clears one message too many.
ClearTargetPast == Slot(Inc(tail), Capacity \div 2 + 1)

\* (next_tail + capacity / 2) % capacity: where the clearing loop stops.
ClearTarget == Slot(Inc(tail), Capacity \div 2)
-----------------------------------------------------------------------------
Init == /\ created = FALSE
        /\ buffer = [i \in Indices |-> NoMsg]
        /\ head = 0
        /\ tail = 0
        /\ mutex = NoThread
        /\ pc = [t \in Threads |-> "idle"]
        /\ hold = [t \in Threads |-> NoMsg]
        /\ heap = {}
        /\ tainted = {}

Goto(t, l) == pc' = [pc EXCEPT ![t] = l]

\* message_queue_create: the buffer is allocated and not yet written.
Create == /\ ~created
          /\ created' = TRUE
          /\ head' = 0
          /\ tail' = 0
          /\ UNCHANGED <<buffer, mutex, pc, hold, heap, tainted>>

\* message_queue_delete, which the caller runs once no thread uses the queue.
Delete == /\ created
          /\ \A t \in Threads : pc[t] = "idle"
          /\ mutex = NoThread
          /\ heap' = heap \ {buffer[Slot(head, k)] : k \in 0 .. Count - 1}
          /\ head' = 0
          /\ tail' = 0
          /\ buffer' = [i \in Indices |-> NoMsg]
          /\ created' = FALSE
          /\ UNCHANGED <<mutex, pc, hold, tainted>>

\* message_create
NewMessage(t) == /\ pc[t] = "idle"
                 /\ hold[t] = NoMsg
                 /\ \E m \in Msgs \ heap : /\ hold' = [hold EXCEPT ![t] = m]
                                           /\ heap' = heap \cup {m}
                 /\ UNCHANGED <<qvars, mutex, pc, tainted>>

\* message_delete by the owner
FreeMessage(t) == /\ pc[t] = "idle"
                  /\ hold[t] # NoMsg
                  /\ heap' = heap \ {hold[t]}
                  /\ hold' = [hold EXCEPT ![t] = NoMsg]
                  /\ UNCHANGED <<qvars, mutex, pc, tainted>>

\* A thread calls message_queue_enqueue, message_queue_dequeue (or
\* message_queue_wait, which only calls it) or the nonblocking dequeue.
Call(t) == /\ created
           /\ pc[t] = "idle"
           /\ \/ hold[t] # NoMsg /\ Goto(t, "enq_lock")
              \/ hold[t] = NoMsg /\ Goto(t, "deq_lock")
              \/ hold[t] = NoMsg /\ Goto(t, "try_lock")
           /\ UNCHANGED <<qvars, mutex, hold, heap, tainted>>

\* pthread_mutex_lock fails: the call returns and nothing has changed.
LockFails(t) == /\ "lock" \in Faults
                /\ pc[t] \in {"enq_lock", "deq_lock", "try_lock"}
                /\ Goto(t, "idle")
                /\ UNCHANGED <<qvars, mutex, hold, heap, tainted>>

\* message_queue_enqueue locks the mutex and tests for a full queue.
EnqLock(t) == /\ pc[t] = "enq_lock"
              /\ mutex = NoThread
              /\ mutex' = t
              /\ Goto(t, IF Inc(tail) = head THEN "enq_clear" ELSE "enq_store")
              /\ UNCHANGED <<qvars, hold, heap, tainted>>

\* Slip: the cleared messages are not deleted.
EnqClearLeaks(t) == /\ pc[t] = "enq_clear"
                    /\ head # ClearTarget
                    /\ head' = Inc(head)
                    /\ UNCHANGED <<created, buffer, tail, mutex, pc, hold, heap, tainted>>

\* One iteration of the loop that clears half of the queue.
EnqClear(t) == /\ pc[t] = "enq_clear"
               /\ head # ClearTarget
               /\ heap' = heap \ {buffer[head]}
               /\ head' = Inc(head)
               /\ UNCHANGED <<created, buffer, tail, mutex, pc, hold, tainted>>

\* Slip: tail is advanced before the message is stored.
EnqStoreLate(t) == /\ \/ pc[t] = "enq_store"
                      \/ pc[t] = "enq_clear" /\ head = ClearTarget
                   /\ buffer' = [buffer EXCEPT ![Inc(tail)] = hold[t]]
                   /\ tail' = Inc(tail)
                   /\ Goto(t, "enq_signal")
                   /\ UNCHANGED <<created, head, mutex, hold, heap, tainted>>

\* buffer[tail] = message; tail = next_tail
EnqStore(t) == /\ \/ pc[t] = "enq_store"
                  \/ pc[t] = "enq_clear" /\ head = ClearTarget
               /\ buffer' = [buffer EXCEPT ![tail] = hold[t]]
               /\ tail' = Inc(tail)
               /\ Goto(t, "enq_signal")
               /\ UNCHANGED <<created, head, mutex, hold, heap, tainted>>

Waiting == {t \in Threads : pc[t] = "deq_wait"}

\* Slip: the signal is sent only when the queue was empty.
EnqSignalWhenEmpty(t) ==
  /\ pc[t] = "enq_signal"
  /\ \/ (Waiting = {} \/ Count > 1) /\ Goto(t, "enq_unlock")
     \/ /\ Count = 1
        /\ \E w \in Waiting :
             pc' = [pc EXCEPT ![t] = "enq_unlock", ![w] = "deq_woken"]
  /\ UNCHANGED <<qvars, mutex, hold, heap, tainted>>

\* pthread_cond_signal wakes one waiting thread, if there is one.
EnqSignal(t) ==
  /\ pc[t] = "enq_signal"
  /\ \/ Waiting = {} /\ Goto(t, "enq_unlock")
     \/ \E w \in Waiting :
          pc' = [pc EXCEPT ![t] = "enq_unlock", ![w] = "deq_woken"]
  /\ UNCHANGED <<qvars, mutex, hold, heap, tainted>>

\* pthread_cond_signal fails: the mutex is unlocked and ERROR_CONDVAR is
\* returned, although the message is in the buffer.
EnqSignalFails(t) == /\ "signal" \in Faults
                     /\ pc[t] = "enq_signal"
                     /\ Goto(t, "idle")
                     /\ mutex' = NoThread
                     /\ tainted' = tainted \cup {hold[t]}
                     /\ UNCHANGED <<qvars, hold, heap>>

\* message_queue_enqueue returns MESSAGE_QUEUE_STATUS_SUCCESS.
EnqReturn(t) == /\ pc[t] = "enq_unlock"
                /\ mutex' = NoThread
                /\ hold' = [hold EXCEPT ![t] = NoMsg]
                /\ Goto(t, "idle")
                /\ UNCHANGED <<qvars, heap, tainted>>

\* message = buffer[head]; head = (head + 1) % capacity
TakeHead(t) == /\ hold' = [hold EXCEPT ![t] = buffer[head]]
               /\ head' = Inc(head)
               /\ mutex' = t
               /\ Goto(t, "deq_unlock")
               /\ UNCHANGED <<created, buffer, tail, heap, tainted>>

\* message_queue_dequeue with the mutex, either just locked or given back
\* by pthread_cond_wait: takes a message or waits, which releases the mutex.
Dequeue(t) ==
  /\ pc[t] \in {"deq_lock", "deq_woken"}
  /\ mutex = NoThread
  /\ \/ head # tail /\ TakeHead(t)
     \/ /\ head = tail
        /\ Goto(t, "deq_wait")
        /\ UNCHANGED <<qvars, mutex, hold, heap, tainted>>

\* pthread_cond_wait fails: unlock and return NULL.
WaitFails(t) == /\ "wait" \in Faults
                /\ pc[t] \in {"deq_lock", "deq_woken"}
                /\ mutex = NoThread
                /\ head = tail
                /\ Goto(t, "idle")
                /\ UNCHANGED <<qvars, mutex, hold, heap, tainted>>

\* pthread_cond_wait may return without a signal.
SpuriousWakeup(t) == /\ pc[t] = "deq_wait"
                     /\ Goto(t, "deq_woken")
                     /\ UNCHANGED <<qvars, mutex, hold, heap, tainted>>

\* Slip: the early return on an empty queue does not unlock.
TryDequeueKeepsLock(t) ==
  /\ pc[t] = "try_lock"
  /\ mutex = NoThread
  /\ \/ head # tail /\ TakeHead(t)
     \/ /\ head = tail
        /\ mutex' = t
        /\ Goto(t, "idle")
        /\ UNCHANGED <<qvars, hold, heap, tainted>>

\* message_queue_dequeue_nonblocking with the mutex locked
TryDequeue(t) ==
  /\ pc[t] = "try_lock"
  /\ mutex = NoThread
  /\ \/ head # tail /\ TakeHead(t)
     \/ /\ head = tail
        /\ mutex' = t
        /\ Goto(t, "deq_unlock")
        /\ UNCHANGED <<qvars, hold, heap, tainted>>

\* Either dequeue unlocks the mutex and returns the message or NULL.
DeqReturn(t) == /\ pc[t] = "deq_unlock"
                /\ mutex' = NoThread
                /\ Goto(t, "idle")
                /\ UNCHANGED <<qvars, hold, heap, tainted>>

\* pthread_mutex_unlock fails, so the mutex stays locked.  Enqueue returns
\* ERROR_MUTEX with the message stored; dequeue returns NULL and the message
\* it took is lost.
UnlockFails(t) ==
  /\ "unlock" \in Faults
  /\ pc[t] \in {"enq_unlock", "deq_unlock"}
  /\ Goto(t, "idle")
  /\ tainted' = tainted \cup ({hold[t]} \ {NoMsg})
  /\ hold' = IF pc[t] = "deq_unlock" THEN [hold EXCEPT ![t] = NoMsg] ELSE hold
  /\ UNCHANGED <<qvars, mutex, heap>>
-----------------------------------------------------------------------------
\* What a thread does inside a call until the call returns.
Step(t) == \/ EnqLock(t) \/ EnqClear(t) \/ EnqStore(t) \/ EnqSignal(t)
           \/ EnqReturn(t) \/ Dequeue(t) \/ TryDequeue(t) \/ DeqReturn(t)

Fault(t) == LockFails(t) \/ EnqSignalFails(t) \/ WaitFails(t) \/ UnlockFails(t)

Next == \/ Create \/ Delete
        \/ \E t \in Threads : \/ NewMessage(t) \/ FreeMessage(t) \/ Call(t)
                              \/ Step(t) \/ Fault(t) \/ SpuriousWakeup(t)

Spec == Init /\ [][Next]_vars

\* The scheduler runs every thread that can run.
FairSpec == Spec /\ \A t \in Threads : WF_vars(Step(t))
-----------------------------------------------------------------------------
PCs == {"idle", "enq_lock", "enq_store", "enq_clear", "enq_signal",
        "enq_unlock", "deq_lock", "try_lock", "deq_wait", "deq_woken",
        "deq_unlock"}

\* Every variable has its type; head and tail index the buffer.
TypeOK == /\ created \in BOOLEAN
          /\ buffer \in [Indices -> Msgs \cup {NoMsg}]
          /\ head \in Indices
          /\ tail \in Indices
          /\ mutex \in Threads \cup {NoThread}
          /\ pc \in [Threads -> PCs]
          /\ hold \in [Threads -> Msgs \cup {NoMsg}]
          /\ heap \subseteq Msgs
          /\ tainted \subseteq Msgs

\* The slots between head and tail.
LiveSlots == {Slot(head, k) : k \in 0 .. Count - 1}

\* Once stored, a message belongs to the queue and not to its producer.
OwnerThreads(m) ==
  {t \in Threads : hold[t] = m /\ pc[t] \notin {"enq_signal", "enq_unlock"}}

OwnerSlots(m) == {i \in LiveSlots : buffer[i] = m}

\* Every allocated message is in one slot between head and tail or with one
\* thread, never both and never twice, and what is in either is allocated:
\* neither clearing half of the queue nor message_queue_delete frees a
\* message twice, leaks one or leaves a freed one to be dequeued.  Only a
\* call that returned an error after it took effect is excepted.
OneOwner ==
  \A m \in Msgs \ tainted :
    /\ m \in heap <=> OwnerThreads(m) \cup OwnerSlots(m) # {}
    /\ OwnerThreads(m) = {} \/ OwnerSlots(m) = {}
    /\ \A t, u \in OwnerThreads(m) : t = u
    /\ \A i, j \in OwnerSlots(m) : i = j

\* Threads that will look at the queue or wake one that will.
Rousing == {t \in Threads : pc[t] \in {"deq_woken", "enq_signal"}}

\* One pthread_cond_signal per enqueue is enough: while a thread waits in
\* message_queue_dequeue, every queued message has a woken thread, or a
\* signal about to be sent, of its own.  Excepted is a failed signal.
NoStuckWaiter ==
  tainted = {} /\ Waiting # {} => Count <= Cardinality(Rousing)

\* While half of the queue is being cleared the messages already freed still
\* count: the drop and the store are one step of the abstract queue.
FirstIndex == IF \E t \in Threads : pc[t] = "enq_clear" THEN Inc(tail) ELSE head

Contents == [i \in 1 .. Distance(FirstIndex, tail) |->
               buffer[Slot(FirstIndex, i - 1)]]

\* "Adds the message to the end of the queue": after the store, the last
\* message of the queue is the one being enqueued.
EnqueueAppends ==
  [][\A t \in Threads : EnqStore(t) =>
       Contents' # <<>> /\ Contents'[Len(Contents')] = hold[t]]_vars

\* A stored message is no longer its producer's.
AbstractHold ==
  [t \in Threads |-> IF pc[t] \in {"enq_signal", "enq_unlock"} THEN NoMsg
                     ELSE hold[t]]

\* The operation a thread at label l is in.
OpOf(l) == CASE l = "idle" -> "none"
             [] l \in {"enq_lock", "enq_store", "enq_clear", "enq_signal", "enq_unlock"}
                  -> "enqueue"
             [] OTHER -> "dequeue"

AbstractOp == [t \in Threads |-> OpOf(pc[t])]

Abstract == INSTANCE DropQueue
              WITH q <- Contents, hold <- AbstractHold, op <- AbstractOp

\* The ring buffer implements the FIFO queue that drops the Capacity \div 2
\* oldest messages on overflow: every message_queue_enqueue and every dequeue
\* takes effect once, in one step, between its call and its return.
ImplementsDropQueue == Abstract!Spec

\* Once the threads stop making calls, every call returns except a blocking
\* dequeue on an empty queue: no thread waits beside a message forever, and
\* no call keeps the mutex.
QuietQueueSettles ==
  <>[][\A t \in Threads : ~Call(t)]_vars
    => <>[](\A t \in Threads : \/ pc[t] = "idle"
                               \/ pc[t] \in {"deq_wait", "deq_woken"} /\ Count = 0)
=============================================================================
