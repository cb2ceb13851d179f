---------------------------- MODULE JournalProofs ----------------------------
(***************************************************************************)
(* Proofs about Journal, for every number of actors and processes, every   *)
(* size of the journal and of the entries, and with failing pthread calls. *)
(***************************************************************************)
EXTENDS Journal, TLAPS

\* A call of journal_write in progress has a number and a size.
Calling == \A a \in Actors :
             pc[a] \in {"write_lock", "write_copy"} =>
               writes[a] \in 1 .. MaxWrites /\ size[a] \in Sizes

BoundsInv == TypeOK /\ Calling /\ WithinBounds

\* The bound on cur_size and on every memcpy is inductive together with the
\* types: a call compares the cur_size it read, and uses that same value.
LEMMA BoundsInit == Init => BoundsInv
<1> SUFFICES ASSUME Init PROVE BoundsInv
  BY Zenon
<1>1. Blank \in Bytes
  BY DEF Bytes
<1>2. TypeOK
  BY <1>1, SizeAssumption, SMTT(30) DEF Init, TypeOK, PCs, Processes, EntryRecords
<1>3. Calling /\ WithinBounds
  BY SizeAssumption, SMTT(30) DEF Init, Calling, WithinBounds
<1> QED
  BY <1>2, <1>3, Zenon DEF BoundsInv

\* Every step of journal_write and journal_read keeps the bounds.
LEMMA BoundsStep == BoundsInv /\ [Next]_vars => BoundsInv'
<1> SUFFICES ASSUME BoundsInv, [Next]_vars PROVE BoundsInv'
  BY Zenon
<1> USE SizeAssumption DEF BoundsInv, TypeOK, Calling, WithinBounds, PCs
<1>0. Blank \in Bytes
  BY DEF Bytes
<1>1. ASSUME NEW a \in Actors, CallWrite(a) PROVE BoundsInv'
  BY <1>1, SMTT(30) DEF CallWrite, Goto, mvars
<1>2. ASSUME NEW a \in Actors, CallRead(a) \/ LockFails(a) PROVE BoundsInv'
  BY <1>2, Zenon DEF CallRead, LockFails, Goto, mvars
<1>3. ASSUME NEW a \in Actors, WriteLock(a) PROVE BoundsInv'
  <2>1. cur_size \in Nat /\ size[a] \in Nat
    BY Zenon
  <2>2. CASE cur_size + size[a] > MaxSize
    <3>1. /\ UNCHANGED <<mvars, local, size, copied, out, writes>> /\ Goto(a, "idle")
          /\ mutex' = mutex \/ mutex' = [mutex EXCEPT ![ProcessOf[a]] = a]
      BY <1>3, <2>1, <2>2 DEF WriteLock, ReturnEarly, Lock
    <3>2. mutex' \in [Processes -> Actors \cup {Nobody}]
      BY <3>1, Zenon
    <3> QED
      BY <3>1, <3>2, Zenon DEF Goto, mvars
  <2>3. CASE cur_size + size[a] <= MaxSize
    <3>1. /\ UNCHANGED <<mvars, size, out, writes>>
          /\ Goto(a, "write_copy")
          /\ local' = [local EXCEPT ![a] = cur_size]
          /\ copied' = [copied EXCEPT ![a] = 0]
          /\ mutex' = [mutex EXCEPT ![ProcessOf[a]] = a]
      BY <1>3, <2>1, <2>3 DEF WriteLock, BeginCopy, Lock
    <3>2. mutex' \in [Processes -> Actors \cup {Nobody}]
      BY <3>1, Zenon
    <3>3. TypeOK'
      BY <3>1, <3>2, Zenon DEF Goto, mvars
    <3>4. Calling'
      BY <1>3, <3>1, Zenon DEF WriteLock, BeginCopy, Goto, mvars
    <3>5. WithinBounds'
      BY <3>1, <2>1, <2>3 DEF Goto, mvars
    <3> QED
      BY <3>3, <3>4, <3>5, Zenon
  <2>4. (cur_size + size[a] > MaxSize) \/ (cur_size + size[a] <= MaxSize)
    BY <2>1
  <2> QED
    BY <2>2, <2>3, <2>4, Zenon
<1>4. ASSUME NEW a \in Actors, WriteCopy(a) PROVE BoundsInv'
  <2>1. Byte(a, writes[a], copied[a]) \in Bytes
    BY <1>4 DEF WriteCopy, Bytes
  <2>2. cells' \in [Offsets -> Bytes]
    BY <1>4, <2>1, Zenon DEF WriteCopy
  <2>3. copied' \in [Actors -> Nat] /\ copied'[a] <= size[a]
    BY <1>4, SMTT(30) DEF WriteCopy
  <2>4. \A b \in Actors \ {a} : copied'[b] = copied[b]
    BY <1>4, Zenon DEF WriteCopy
  <2> QED
    BY <1>4, <2>2, <2>3, <2>4, Zenon DEF WriteCopy
<1>5. ASSUME NEW a \in Actors, WriteSize(a) PROVE BoundsInv'
  <2>1. [by |-> a, nr |-> writes[a], at |-> local[a], len |-> size[a]] \in EntryRecords
    BY <1>5, SMTT(30) DEF WriteSize, NewEntry, EntryRecords, Offsets
  <2> QED
    BY <1>5, <2>1, SMTT(30) DEF WriteSize, NewEntry, Goto
<1>6. ASSUME NEW a \in Actors, ReadLock(a) PROVE BoundsInv'
  <2>1. cur_size \in Nat /\ size[a] \in Nat
    BY Zenon
  <2>2. CASE BufferSize < cur_size
    <3>1. /\ UNCHANGED <<mvars, local, size, copied, out, writes>> /\ Goto(a, "idle")
          /\ mutex' = mutex \/ mutex' = [mutex EXCEPT ![ProcessOf[a]] = a]
      BY <1>6, <2>1, <2>2 DEF ReadLock, ReturnEarly, Lock
    <3>2. mutex' \in [Processes -> Actors \cup {Nobody}]
      BY <3>1, Zenon
    <3> QED
      BY <3>1, <3>2, Zenon DEF Goto, mvars
  <2>3. CASE BufferSize >= cur_size
    <3>1. /\ UNCHANGED <<mvars, size, out, writes>>
          /\ Goto(a, "read_copy")
          /\ local' = [local EXCEPT ![a] = cur_size]
          /\ copied' = [copied EXCEPT ![a] = 0]
          /\ mutex' = [mutex EXCEPT ![ProcessOf[a]] = a]
      BY <1>6, <2>1, <2>3 DEF ReadLock, BeginCopy, Lock
    <3>2. mutex' \in [Processes -> Actors \cup {Nobody}]
      BY <3>1, Zenon
    <3>3. TypeOK'
      BY <3>1, <3>2, Zenon DEF Goto, mvars
    <3>4. Calling'
      BY <1>6, <3>1, Zenon DEF ReadLock, BeginCopy, Goto, mvars
    <3>5. WithinBounds'
      BY <3>1, <2>1, <2>3 DEF Goto, mvars
    <3> QED
      BY <3>3, <3>4, <3>5, Zenon
  <2>4. (BufferSize < cur_size) \/ (BufferSize >= cur_size)
    BY <2>1
  <2> QED
    BY <2>2, <2>3, <2>4, Zenon
<1>7. ASSUME NEW a \in Actors, ReadCopy(a) PROVE BoundsInv'
  <2>1. cells[HeaderSize + copied[a]] \in Bytes
    <3>1. copied[a] \in Nat /\ copied[a] < local[a] - HeaderSize /\ local[a] \in Nat
      BY <1>7, Zenon DEF ReadCopy
    <3>2. local[a] <= MaxSize
      BY <1>7, Zenon DEF ReadCopy
    <3>3. HeaderSize + copied[a] \in Offsets
      BY <3>1, <3>2 DEF Offsets
    <3> QED
      BY <3>3, Zenon
  <2>2. out' \in [Actors -> [0 .. BufferSize - 1 -> Bytes]]
    BY <1>7, <2>1, Zenon DEF ReadCopy
  <2>3. copied' \in [Actors -> Nat] /\ copied'[a] <= local[a] - HeaderSize
    BY <1>7, SMTT(30) DEF ReadCopy
  <2>4. \A b \in Actors \ {a} : copied'[b] = copied[b]
    BY <1>7, Zenon DEF ReadCopy
  <2> QED
    BY <1>7, <2>2, <2>3, <2>4, Zenon DEF ReadCopy, mvars
<1>8. ASSUME NEW a \in Actors, ReadDone(a) PROVE BoundsInv'
  BY <1>8, Zenon DEF ReadDone, Goto, mvars
<1>9. ASSUME NEW a \in Actors, Return(a) PROVE BoundsInv'
  BY <1>9, <1>0, Zenon DEF Return, Goto, Unlock, mvars, Processes
<1>10. ASSUME NEW a \in Actors, UnlockFails(a) PROVE BoundsInv'
  BY <1>10, <1>0, Zenon DEF UnlockFails, Goto, mvars
<1>11. CASE UNCHANGED vars
  BY <1>11, Zenon DEF vars
<1> QED
  BY <1>1, <1>2, <1>3, <1>4, <1>5, <1>6, <1>7, <1>8, <1>9, <1>10, <1>11, Zenon
  DEF Next, Step

\* Every variable of the journal keeps its type.
THEOREM JournalTyped == Spec => []TypeOK
BY BoundsInit, BoundsStep, PTL DEF Spec, BoundsInv

\* Whatever the processes do to each other, cur_size stays between the header
\* and max_size, and journal_write and journal_read copy inside the journal.
THEOREM JournalWithinBounds == Spec => []WithinBounds
BY BoundsInit, BoundsStep, PTL DEF Spec, BoundsInv
-----------------------------------------------------------------------------
(* With one mutex for all actors, as between the threads of a process. *)

SharedMutex == \A a, b \in Actors : ProcessOf[a] = ProcessOf[b]

Busy == {"write_copy", "unlock", "read_copy", "read_unlock"}

\* An actor between lock and unlock owns its mutex.
Owns == \A a \in Actors : pc[a] \in Busy => mutex[ProcessOf[a]] = a

\* The value of cur_size it read is still the current one.
Current == \A a \in Actors :
             pc[a] \in {"write_copy", "read_copy", "read_unlock"} => local[a] = cur_size

\* What it has copied so far is there.
Written == \A a \in Actors : pc[a] = "write_copy" =>
             \A k \in 0 .. copied[a] - 1 : cells[local[a] + k] = Byte(a, writes[a], k)

ReadSoFar == \A a \in Actors : pc[a] \in {"read_copy", "read_unlock"} =>
               \A k \in 0 .. copied[a] - 1 : out[a][k] = cells[HeaderSize + k]

ReadAll == \A a \in Actors :
             pc[a] = "read_unlock" => copied[a] = local[a] - HeaderSize

SharedInv == Owns /\ Current /\ Written /\ ReadSoFar /\ ReadAll /\ NothingLost

\* Ownership of the mutex is preserved by every step, whatever ProcessOf is:
\* a mutex changes hands only while it is free.
LEMMA OwnsStep == ASSUME TypeOK, Owns, [Next]_vars PROVE Owns'
<1> USE DEF TypeOK, Owns, Busy, Goto, Processes
<1>1. ASSUME NEW a \in Actors, CallWrite(a) \/ CallRead(a) \/ LockFails(a) PROVE Owns'
  BY <1>1, Zenon DEF CallWrite, CallRead, LockFails
<1>2. ASSUME NEW a \in Actors, WriteLock(a) PROVE Owns'
  <2>1. \A b \in Actors : pc[b] \in Busy => ProcessOf[b] # ProcessOf[a]
    BY <1>2, ActorAssumption, Zenon DEF WriteLock, BeginCopy
  <2>2. \/ mutex' = mutex /\ pc' = [pc EXCEPT ![a] = "idle"]
        \/ mutex' = [mutex EXCEPT ![ProcessOf[a]] = a] /\ \A b \in Actors \ {a} : pc'[b] = pc[b]
    BY <1>2, Zenon DEF WriteLock, BeginCopy, ReturnEarly, Lock
  <2> SUFFICES ASSUME NEW b \in Actors, pc'[b] \in Busy
               PROVE mutex'[ProcessOf[b]] = b
    BY Zenon
  <2>3. CASE b = a
    BY <2>2, <2>3
  <2>4. CASE b # a
    <3>1. pc[b] \in Busy
      BY <2>2, <2>4, Zenon
    <3>2. mutex[ProcessOf[b]] = b /\ ProcessOf[b] # ProcessOf[a]
      BY <2>1, <3>1, Zenon
    <3>3. ProcessOf[b] \in Processes /\ DOMAIN mutex = Processes
      BY Zenon
    <3> QED
      BY <2>2, <3>2, <3>3, Zenon
  <2> QED
    BY <2>3, <2>4, Zenon
<1>3. ASSUME NEW a \in Actors, ReadLock(a) PROVE Owns'
  <2>1. \A b \in Actors : pc[b] \in Busy => ProcessOf[b] # ProcessOf[a]
    BY <1>3, ActorAssumption, Zenon DEF ReadLock, BeginCopy
  <2>2. \/ mutex' = mutex /\ pc' = [pc EXCEPT ![a] = "idle"]
        \/ mutex' = [mutex EXCEPT ![ProcessOf[a]] = a] /\ \A b \in Actors \ {a} : pc'[b] = pc[b]
    BY <1>3, Zenon DEF ReadLock, BeginCopy, ReturnEarly, Lock
  <2> SUFFICES ASSUME NEW b \in Actors, pc'[b] \in Busy
               PROVE mutex'[ProcessOf[b]] = b
    BY Zenon
  <2>3. CASE b = a
    BY <2>2, <2>3, Zenon
  <2>4. CASE b # a
    <3>1. pc[b] \in Busy
      BY <2>2, <2>4, Zenon
    <3>2. mutex[ProcessOf[b]] = b /\ ProcessOf[b] # ProcessOf[a]
      BY <2>1, <3>1, Zenon
    <3>3. ProcessOf[b] \in Processes /\ DOMAIN mutex = Processes
      BY Zenon
    <3> QED
      BY <2>2, <3>2, <3>3, Zenon
  <2> QED
    BY <2>3, <2>4, Zenon
<1>4. ASSUME NEW a \in Actors, WriteCopy(a) \/ ReadCopy(a) PROVE Owns'
  BY <1>4, Zenon DEF WriteCopy, ReadCopy
<1>5. ASSUME NEW a \in Actors, WriteSize(a) \/ ReadDone(a) PROVE Owns'
  BY <1>5, Zenon DEF WriteSize, NewEntry, ReadDone
<1>6. ASSUME NEW a \in Actors, Return(a) PROVE Owns'
  <2>1. \A b \in Actors \ {a} : pc[b] \in Busy => ProcessOf[b] # ProcessOf[a]
    BY <1>6, Zenon DEF Return
  <2> QED
    BY <1>6, <2>1, Zenon DEF Return, Unlock
<1>7. ASSUME NEW a \in Actors, UnlockFails(a) PROVE Owns'
  BY <1>7, Zenon DEF UnlockFails
<1>8. CASE UNCHANGED vars
  BY <1>8, Zenon DEF vars
<1> QED
  BY <1>1, <1>2, <1>3, <1>4, <1>5, <1>6, <1>7, <1>8, Zenon DEF Next, Step

\* With a shared mutex only one actor is between lock and unlock.
LEMMA OneBusy ==
  ASSUME SharedMutex, Owns, NEW a \in Actors, NEW b \in Actors,
         pc[a] \in Busy, pc[b] \in Busy
  PROVE a = b
BY Zenon DEF SharedMutex, Owns

\* The entry an actor in write_copy appends is a well-formed record.
LEMMA EntryTyped ==
  ASSUME TypeOK, NEW e \in entries PROVE e.at \in Offsets /\ e.len \in Nat
BY SizeAssumption, Zenon DEF TypeOK, EntryRecords

\* A journal fresh from journal_create has no entry to lose.
LEMMA SharedInit == Init => SharedInv
BY SizeAssumption
DEF Init, SharedInv, Owns, Current, Written, ReadSoFar, ReadAll, NothingLost, Busy

\* With one mutex for all actors, every step keeps the entries whole.
LEMMA SharedStep ==
  ASSUME SharedMutex, BoundsInv, SharedInv, [Next]_vars PROVE SharedInv'
<1> USE SizeAssumption DEF SharedInv
<1>0. Owns'
  BY OwnsStep, Zenon DEF BoundsInv
<1>1. ASSUME NEW a \in Actors, CallWrite(a) \/ CallRead(a) \/ LockFails(a) PROVE SharedInv'
  <2>0. /\ UNCHANGED <<cells, cur_size, entries, local, copied, out>>
        /\ \A b \in Actors : pc'[b] \in Busy => pc'[b] = pc[b] /\ writes'[b] = writes[b]
                                                 /\ size'[b] = size[b]
    BY <1>1, SMTT(30) DEF CallWrite, CallRead, LockFails, Goto, mvars, Busy, BoundsInv, TypeOK
  <2>1. Current' /\ ReadAll'
    BY <2>0, Zenon DEF Current, ReadAll, Busy
  <2>2. Written'
    BY <2>0 DEF Written, Busy
  <2>3. ReadSoFar'
    BY <2>0, Zenon DEF ReadSoFar, Busy
  <2>4. NothingLost'
    BY <2>0, Zenon DEF NothingLost, Intact
  <2> QED
    BY <1>0, <2>1, <2>2, <2>3, <2>4, Zenon
<1>2. ASSUME NEW a \in Actors, WriteLock(a) \/ ReadLock(a) PROVE SharedInv'
  <2>0. /\ UNCHANGED <<cells, cur_size, entries, size, out, writes>>
        /\ \A b \in Actors \ {a} : pc'[b] = pc[b] /\ local'[b] = local[b] /\ copied'[b] = copied[b]
        /\ \/ pc'[a] = "idle"
           \/ /\ pc'[a] \in {"write_copy", "read_copy"}
              /\ local'[a] = cur_size /\ copied'[a] = 0
    BY <1>2, Zenon DEF WriteLock, ReadLock, BeginCopy, ReturnEarly, Goto, mvars, BoundsInv, TypeOK
  <2>1. Current' /\ ReadAll'
    BY <2>0, Zenon DEF Current, ReadAll
  <2>2. Written'
    <3> SUFFICES ASSUME NEW b \in Actors, pc'[b] = "write_copy",
                        NEW k \in 0 .. copied'[b] - 1
                 PROVE cells'[local'[b] + k] = Byte(b, writes'[b], k)
      BY Zenon DEF Written
    <3>1. b # a
      BY <2>0
    <3> QED
      BY <2>0, <3>1, SMTT(30) DEF Written
  <2>3. ReadSoFar'
    <3> SUFFICES ASSUME NEW b \in Actors, pc'[b] \in {"read_copy", "read_unlock"},
                        NEW k \in 0 .. copied'[b] - 1
                 PROVE out'[b][k] = cells'[HeaderSize + k]
      BY Zenon DEF ReadSoFar
    <3>1. b # a
      BY <2>0
    <3> QED
      BY <2>0, <3>1, Zenon DEF ReadSoFar
  <2>4. NothingLost'
    BY <2>0, Zenon DEF NothingLost, Intact
  <2> QED
    BY <1>0, <2>1, <2>2, <2>3, <2>4, Zenon
<1>3. ASSUME NEW a \in Actors, WriteCopy(a) PROVE SharedInv'
  <2>1. pc[a] = "write_copy" /\ local[a] = cur_size /\ cells \in [Offsets -> Bytes]
        /\ copied[a] \in Nat /\ cur_size \in Nat /\ cur_size + copied[a] \in Offsets
        /\ HeaderSize <= cur_size
    BY <1>3, SMTT(30) DEF WriteCopy, Current, BoundsInv, TypeOK, WithinBounds, Offsets
  <2>2. \A b \in Actors \ {a} : pc[b] \notin Busy
    BY <2>1, OneBusy, Zenon DEF Busy
  <2>3. HeaderSize \in Nat /\ MaxSize \in Nat /\ cur_size <= MaxSize
    BY Zenon DEF BoundsInv, WithinBounds
  <2>4. \A i \in Offsets : i # cur_size + copied[a] => cells'[i] = cells[i]
    BY <1>3, <2>1, Zenon DEF WriteCopy
  <2>5. cells'[cur_size + copied[a]] = Byte(a, writes[a], copied[a])
    BY <1>3, <2>1, Zenon DEF WriteCopy
  <2>6. Current' /\ ReadAll' /\ ReadSoFar'
    BY <1>3, <2>1, <2>2, Zenon DEF WriteCopy, Current, ReadAll, ReadSoFar, Busy
  <2>7. Written'
    <3> SUFFICES ASSUME NEW b \in Actors, pc'[b] = "write_copy",
                        NEW k \in 0 .. copied'[b] - 1
                 PROVE cells'[local'[b] + k] = Byte(b, writes'[b], k)
      BY Zenon DEF Written
    <3>1. UNCHANGED <<pc, local, writes>> /\ copied'[a] = copied[a] + 1
      BY <1>3, Zenon DEF WriteCopy, BoundsInv, TypeOK
    <3>2. b = a
      BY <2>2, <3>1, Zenon DEF Busy
    <3>3. CASE k = copied[a]
      BY <2>1, <2>5, <3>1, <3>2, <3>3, Zenon
    <3>4. CASE k # copied[a]
      <4>1. k \in 0 .. copied[a] - 1
        BY <2>1, <3>1, <3>2, <3>4, SMTT(30)
      <4>2. cur_size + k \in Offsets /\ cur_size + k # cur_size + copied[a]
        BY <2>1, <2>3, <4>1, SMTT(30) DEF Offsets
      <4>3. cells'[cur_size + k] = cells[cur_size + k]
        BY <2>4, <4>2, Zenon
      <4>4. cells[cur_size + k] = Byte(a, writes[a], k)
        BY <2>1, <4>1, Zenon DEF Written
      <4> QED
        BY <2>1, <3>1, <3>2, <4>3, <4>4, Zenon
    <3> QED
      BY <3>3, <3>4, Zenon
  <2>8. ASSUME NEW e \in entries PROVE Intact(e)'
    <3>1. e.at \in Offsets /\ e.len \in Nat /\ e.at + e.len <= cur_size
      BY EntryTyped, Zenon DEF NothingLost, Intact, BoundsInv
    <3>2. ASSUME NEW k \in 0 .. e.len - 1 PROVE cells'[e.at + k] = cells[e.at + k]
      <4>1. e.at \in Nat /\ k \in Nat /\ HeaderSize <= e.at + k /\ e.at + k < cur_size
        BY <2>1, <3>1, SMTT(30) DEF Offsets
      <4>2. e.at + k \in Offsets /\ e.at + k # cur_size + copied[a]
        BY <2>1, <2>3, <4>1, SMTT(30) DEF Offsets
      <4> QED
        BY <2>4, <4>2, Zenon
    <3>3. UNCHANGED cur_size
      BY <1>3, Zenon DEF WriteCopy
    <3> QED
      BY <3>2, <3>3, Zenon DEF NothingLost, Intact
  <2>9. NothingLost'
    BY <1>3, <2>8, Zenon DEF WriteCopy, NothingLost
  <2> QED
    BY <1>0, <2>6, <2>7, <2>9, Zenon
<1>4. ASSUME NEW a \in Actors, WriteSize(a) PROVE SharedInv'
  <2>1. pc[a] = "write_copy" /\ local[a] = cur_size /\ copied[a] = size[a]
        /\ size[a] \in Nat /\ cur_size \in Nat
    BY <1>4, Zenon DEF WriteSize, NewEntry, Current, BoundsInv, TypeOK
  <2>2. \A b \in Actors \ {a} : pc[b] \notin Busy
    BY <2>1, OneBusy, Zenon DEF Busy
  <2>3. pc' = [pc EXCEPT ![a] = "unlock"] /\ UNCHANGED <<cells, local, copied, out, writes>>
    BY <1>4, Zenon DEF WriteSize, NewEntry, Goto
  <2>4. Current' /\ ReadAll' /\ ReadSoFar' /\ Written'
    BY <2>2, <2>3, Zenon DEF Current, ReadAll, ReadSoFar, Written, Busy, BoundsInv, TypeOK
  <2>5. \A k \in 0 .. size[a] - 1 : cells[local[a] + k] = Byte(a, writes[a], k)
    BY <2>1, Zenon DEF Written
  <2>6. cur_size' = cur_size + size[a]
    BY <1>4, <2>1, Zenon DEF WriteSize, NewEntry
  <2>7. ASSUME NEW e \in entries PROVE Intact(e)'
    <3>1. e.at \in Offsets /\ e.len \in Nat /\ e.at + e.len <= cur_size
      BY EntryTyped, Zenon DEF NothingLost, Intact, BoundsInv
    <3>2. e.at + e.len <= cur_size'
      BY <2>1, <2>6, <3>1, SMTT(30) DEF Offsets
    <3> QED
      BY <2>3, <3>2, Zenon DEF NothingLost, Intact
  <2>8. ASSUME NEW e, e = NewEntry(a) PROVE Intact(e)'
    <3>1. e.at = local[a] /\ e.len = size[a] /\ e.by = a /\ e.nr = writes[a]
      BY <2>8, Zenon DEF NewEntry
    <3>2. e.at + e.len <= cur_size'
      BY <2>1, <2>6, <3>1, SMTT(30)
    <3> QED
      BY <2>3, <2>5, <3>1, <3>2, Zenon DEF Intact
  <2>9. entries' = entries \cup {NewEntry(a)}
    BY <1>4, Zenon DEF WriteSize
  <2>10. NothingLost'
    BY <2>7, <2>8, <2>9, Zenon DEF NothingLost
  <2> QED
    BY <1>0, <2>4, <2>10, Zenon
<1>5. ASSUME NEW a \in Actors, ReadCopy(a) PROVE SharedInv'
  <2>1. /\ UNCHANGED <<cells, cur_size, entries, pc, local, writes>>
        /\ \A b \in Actors \ {a} : copied'[b] = copied[b] /\ out'[b] = out[b]
        /\ pc[a] = "read_copy" /\ copied[a] \in Nat /\ copied'[a] = copied[a] + 1
    BY <1>5, Zenon DEF ReadCopy, mvars, BoundsInv, TypeOK
  <2>2. copied[a] \in 0 .. BufferSize - 1
    BY <1>5, SMTT(30) DEF ReadCopy, BoundsInv, TypeOK, WithinBounds
  <2>3. out'[a] = [out[a] EXCEPT ![copied[a]] = cells[HeaderSize + copied[a]]]
    BY <1>5, Zenon DEF ReadCopy, BoundsInv, TypeOK
  <2>4. \A k \in 0 .. copied'[a] - 1 : out'[a][k] = cells[HeaderSize + k]
    <3> SUFFICES ASSUME NEW k \in 0 .. copied'[a] - 1
                 PROVE out'[a][k] = cells[HeaderSize + k]
      BY Zenon
    <3>1. out[a] \in [0 .. BufferSize - 1 -> Bytes]
      BY Zenon DEF BoundsInv, TypeOK
    <3>2. CASE k = copied[a]
      BY <2>2, <2>3, <3>1, <3>2, Zenon
    <3>3. CASE k # copied[a]
      <4>1. k \in 0 .. copied[a] - 1 /\ k \in 0 .. BufferSize - 1
        BY <2>1, <2>2, <3>3, SMTT(30)
      <4> QED
        BY <2>1, <2>3, <3>1, <3>3, <4>1, SMTT(30) DEF ReadSoFar
    <3> QED
      BY <3>2, <3>3, Zenon
  <2>5. ReadSoFar' /\ ReadAll' /\ Current' /\ Written'
    BY <2>1, <2>4, SMTT(30) DEF ReadSoFar, ReadAll, Current, Written
  <2>6. NothingLost'
    BY <2>1, Zenon DEF NothingLost, Intact
  <2> QED
    BY <1>0, <2>5, <2>6, Zenon
<1>6. ASSUME NEW a \in Actors, ReadDone(a) PROVE SharedInv'
  <2> USE <1>6 DEF ReadDone, Goto, mvars, BoundsInv, TypeOK
  <2>1. Current' /\ ReadAll' /\ Written'
    BY Zenon DEF Current, ReadAll, Written
  <2>2. ReadSoFar'
    BY Zenon DEF ReadSoFar
  <2>3. NothingLost'
    BY Zenon DEF NothingLost, Intact
  <2> QED
    BY <1>0, <2>1, <2>2, <2>3, Zenon
<1>7. ASSUME NEW a \in Actors, Return(a) \/ UnlockFails(a) PROVE SharedInv'
  <2>1. /\ UNCHANGED <<cells, cur_size, entries, local, size, copied, writes>>
        /\ pc' = [pc EXCEPT ![a] = "idle"]
        /\ \A b \in Actors \ {a} : out'[b] = out[b]
    BY <1>7, Zenon DEF Return, UnlockFails, Goto, mvars, BoundsInv, TypeOK
  <2>2. Current' /\ ReadAll' /\ Written'
    BY <2>1, Zenon DEF Current, ReadAll, Written, BoundsInv, TypeOK
  <2>3. ReadSoFar'
    BY <2>1, SMTT(30) DEF ReadSoFar, BoundsInv, TypeOK
  <2>4. NothingLost'
    BY <2>1, Zenon DEF NothingLost, Intact
  <2> QED
    BY <1>0, <2>2, <2>3, <2>4, Zenon
<1>8. CASE UNCHANGED vars
  BY <1>8, Zenon DEF vars, Owns, Current, Written, ReadSoFar, ReadAll, NothingLost, Intact
<1> QED
  BY <1>1, <1>2, <1>3, <1>4, <1>5, <1>6, <1>7, <1>8, Zenon DEF Next, Step

\* When all actors share the mutex, an entry journal_write has appended stays
\* in the journal whole, however the writers and readers interleave.
THEOREM SharedJournalKeepsAll ==
  ASSUME SharedMutex PROVE Spec => []NothingLost
<1>1. Init => BoundsInv /\ SharedInv
  BY BoundsInit, SharedInit, Zenon
<1>2. BoundsInv /\ SharedInv /\ [Next]_vars => (BoundsInv /\ SharedInv)'
  BY BoundsStep, SharedStep, Zenon
<1>3. SharedInv => NothingLost
  BY Zenon DEF SharedInv
<1> QED
  BY <1>1, <1>2, <1>3, PTL DEF Spec

\* When all actors share the mutex, journal_read returns the journal as it is
\* at one moment.
THEOREM SharedJournalSnapshot ==
  ASSUME SharedMutex PROVE Spec => []ReadIsSnapshot
<1>1. Init => BoundsInv /\ SharedInv
  BY BoundsInit, SharedInit, Zenon
<1>2. BoundsInv /\ SharedInv /\ [Next]_vars => (BoundsInv /\ SharedInv)'
  BY BoundsStep, SharedStep, Zenon
<1>3. SharedInv => ReadIsSnapshot
  BY Zenon DEF SharedInv, ReadIsSnapshot, Current, ReadSoFar, ReadAll
<1> QED
  BY <1>1, <1>2, <1>3, PTL DEF Spec

\* When all actors share the mutex, cur_size never moves back.
THEOREM SharedJournalNeverShrinks ==
  ASSUME SharedMutex PROVE Spec => NeverShrinks
<1>1. Init => BoundsInv /\ SharedInv
  BY BoundsInit, SharedInit, Zenon
<1>2. BoundsInv /\ SharedInv /\ [Next]_vars => (BoundsInv /\ SharedInv)'
  BY BoundsStep, SharedStep, Zenon
<1>3. BoundsInv /\ SharedInv /\ [Next]_vars => [cur_size' >= cur_size]_vars
  <2> SUFFICES ASSUME BoundsInv, SharedInv, Next PROVE cur_size' >= cur_size
    BY Zenon DEF vars
  <2>1. cur_size \in Nat
    BY Zenon DEF BoundsInv, TypeOK
  <2>2. ASSUME NEW a \in Actors, WriteSize(a) PROVE cur_size' >= cur_size
    BY <2>1, <2>2, SMTT(30) DEF WriteSize, NewEntry, SharedInv, Current, BoundsInv, TypeOK
  <2>3. ASSUME NEW a \in Actors, ~WriteSize(a),
               \/ CallWrite(a) \/ CallRead(a) \/ Step(a) \/ LockFails(a) \/ UnlockFails(a)
        PROVE cur_size' = cur_size
    BY <2>3, Zenon DEF CallWrite, CallRead, Step, LockFails, UnlockFails, WriteLock, BeginCopy, WriteCopy,
                ReadLock, ReadCopy, ReadDone, Return, mvars
  <2> QED
    BY <2>1, <2>2, <2>3 DEF Next
<1> QED
  BY <1>1, <1>2, <1>3, PTL DEF Spec, NeverShrinks
=============================================================================
