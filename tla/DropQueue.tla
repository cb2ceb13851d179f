------------------------------ MODULE DropQueue ------------------------------
(***************************************************************************)
(* What message_queue_t promises to the threads that share it: a FIFO      *)
(* queue holding at most Capacity - 1 messages, in which an enqueue on a   *)
(* full queue first discards the Capacity \div 2 oldest messages.  Between *)
(* its call and its return an operation takes effect in one step, at most  *)
(* once.  MessageQueue is shown to implement it.                           *)
(***************************************************************************)
EXTENDS QueueOps

CONSTANTS Threads, Msgs, NoMsg, Capacity

VARIABLES
  q,     \* the queued messages, oldest first
  hold,  \* hold[t]: the message thread t owns, or NoMsg
  op     \* op[t]: the operation thread t is in

dvars == <<q, hold, op>>

-----------------------------------------------------------------------------
Init == /\ q = <<>>
        /\ hold = [t \in Threads |-> NoMsg]
        /\ op = [t \in Threads |-> "none"]

\* Outside a call the thread gets a message from the allocator ...
Obtain(t) == /\ op[t] = "none"
             /\ hold[t] = NoMsg
             /\ \E m \in Msgs : hold' = [hold EXCEPT ![t] = m]
             /\ UNCHANGED <<q, op>>

\* ... or gives its message up.
Discard(t) == /\ op[t] = "none"
              /\ hold[t] # NoMsg
              /\ hold' = [hold EXCEPT ![t] = NoMsg]
              /\ UNCHANGED <<q, op>>

\* A thread with a message enqueues it, one without dequeues.
Call(t) ==
  /\ op[t] = "none"
  /\ op' = [op EXCEPT ![t] = IF hold[t] = NoMsg THEN "dequeue" ELSE "enqueue"]
  /\ UNCHANGED <<q, hold>>

Put(t) == /\ op[t] = "enqueue"
          /\ hold[t] # NoMsg
          /\ q' = Enq(q, hold[t], Capacity)
          /\ hold' = [hold EXCEPT ![t] = NoMsg]
          /\ UNCHANGED op

Take(t) == /\ op[t] = "dequeue"
           /\ hold[t] = NoMsg
           /\ q # <<>>
           /\ hold' = [hold EXCEPT ![t] = Head(q)]
           /\ q' = Tail(q)
           /\ UNCHANGED op

\* The operation returns, whether it took effect or not.
Return(t) == /\ op[t] # "none"
             /\ op' = [op EXCEPT ![t] = "none"]
             /\ UNCHANGED <<q, hold>>

\* The enqueue took effect and reports an error, so that its caller takes
\* itself for the owner of the message at the end of the queue.
Retain(t) == /\ op[t] = "enqueue"
             /\ hold[t] = NoMsg
             /\ q # <<>>
             /\ hold' = [hold EXCEPT ![t] = q[Len(q)]]
             /\ op' = [op EXCEPT ![t] = "none"]
             /\ UNCHANGED q

\* The dequeue took effect and reports an error: the message is lost.
Lose(t) == /\ op[t] = "dequeue"
           /\ hold' = [hold EXCEPT ![t] = NoMsg]
           /\ op' = [op EXCEPT ![t] = "none"]
           /\ UNCHANGED q

\* message_queue_delete, when no thread is in a call
Clear == /\ \A t \in Threads : op[t] = "none"
         /\ q' = <<>>
         /\ UNCHANGED <<hold, op>>

Next == \/ \E t \in Threads : \/ Obtain(t) \/ Discard(t) \/ Call(t)
                              \/ Put(t) \/ Take(t)
                              \/ Return(t) \/ Retain(t) \/ Lose(t)
        \/ Clear

Spec == Init /\ [][Next]_dvars
=============================================================================
