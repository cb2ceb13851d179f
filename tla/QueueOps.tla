------------------------------ MODULE QueueOps ------------------------------
(* What message_queue_enqueue does to the contents of a queue, as an         *)
(* operator on sequences (oldest message first).                             *)
EXTENDS Naturals, Sequences

\* Slip: the full test counts the slot that stays free.
DroppedLate(s, cap) == IF Len(s) = cap THEN cap \div 2 ELSE 0

\* How many messages an enqueue on a queue with contents s discards: half of
\* the capacity when capacity - 1 messages are queued.
Dropped(s, cap) == IF Len(s) = cap - 1 THEN cap \div 2 ELSE 0

\* The contents after enqueueing m on a queue of the given capacity.
Enq(s, m, cap) == Append(SubSeq(s, Dropped(s, cap) + 1, Len(s)), m)
=============================================================================
