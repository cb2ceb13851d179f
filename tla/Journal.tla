------------------------------- MODULE Journal -------------------------------
(***************************************************************************)
(* src/server/journal.c: an append-only byte log in anonymous shared       *)
(* memory.  The memory starts with cur_size; the entries follow it.        *)
(*                                                                         *)
(* The mutex lies in the journal_t that journal_create allocates with      *)
(* malloc, not in the shared memory.  After a fork every process has a     *)
(* copy of it: only the actors (threads) of one process exclude each       *)
(* other.  ProcessOf[a] is the process of actor a; mutex[p] is the copy    *)
(* of process p.  memcpy takes a step for each byte, so the copies of two  *)
(* processes interleave; cur_size is one aligned word, read and written in *)
(* one step.                                                               *)
(***************************************************************************)
EXTENDS Integers

CONSTANTS
  Actors, ProcessOf, Nobody,
  HeaderSize,   \* sizeof(size_t)
  MaxSize,      \* journal->max_size, in bytes
  Sizes,        \* the sizes of the entries
  BufferSize,   \* *buffer_size of journal_read
  MaxWrites,    \* bound: the calls of journal_write each actor makes
  Faults        \* the pthread calls that may return an error

ASSUME SizeAssumption == /\ HeaderSize \in Nat
                         /\ MaxSize \in Nat
                         /\ HeaderSize < MaxSize
                         /\ BufferSize \in Nat
                         /\ Sizes \subseteq Nat \ {0}
                         /\ MaxWrites \in Nat
ASSUME ActorAssumption == Nobody \notin Actors
ASSUME FaultAssumption == Faults \subseteq {"lock", "unlock"}

VARIABLES
  cells,     \* the bytes after the header
  cur_size,  \* the word at the start of the shared memory
  mutex,     \* mutex[p]: the actor that owns the copy of process p, or Nobody
  pc, local, \* local[a]: the value of cur_size actor a read
  size,      \* size[a]: data_size of a's journal_write
  copied,    \* copied[a]: how many bytes a's memcpy has copied
  out,       \* out[a]: the buffer a's journal_read fills
  writes,    \* writes[a]: the calls of journal_write a has made
  entries    \* every entry appended so far

mvars == <<cells, cur_size, entries>>
vars == <<cells, cur_size, mutex, pc, local, size, copied, out, writes, entries>>

Processes == {ProcessOf[a] : a \in Actors}
Offsets == HeaderSize .. MaxSize - 1
Blank == <<Nobody, 0, 0>>

\* The k-th byte of the entry actor a writes with its n-th call.
Byte(a, n, k) == <<a, n, k>>
-----------------------------------------------------------------------------
\* journal_create, in the process that then forks the others
Init == /\ cells = [i \in Offsets |-> Blank]
        /\ cur_size = HeaderSize
        /\ mutex = [p \in Processes |-> Nobody]
        /\ pc = [a \in Actors |-> "idle"]
        /\ local = [a \in Actors |-> 0]
        /\ size = [a \in Actors |-> 0]
        /\ copied = [a \in Actors |-> 0]
        /\ out = [a \in Actors |-> [k \in 0 .. BufferSize - 1 |-> Blank]]
        /\ writes = [a \in Actors |-> 0]
        /\ entries = {}

Goto(a, l) == pc' = [pc EXCEPT ![a] = l]
Lock(a) == mutex' = [mutex EXCEPT ![ProcessOf[a]] = a]
Unlock(a) == mutex' = [mutex EXCEPT ![ProcessOf[a]] = Nobody]

\* An actor calls journal_write with an entry of n bytes.
CallWrite(a) ==
  /\ pc[a] = "idle"
  /\ writes[a] < MaxWrites
  /\ \E n \in Sizes : size' = [size EXCEPT ![a] = n]
  /\ writes' = [writes EXCEPT ![a] = @ + 1]
  /\ Goto(a, "write_lock")
  /\ UNCHANGED <<mvars, mutex, local, copied, out>>

CallRead(a) == /\ pc[a] = "idle"
               /\ Goto(a, "read_lock")
               /\ UNCHANGED <<mvars, mutex, local, size, copied, out, writes>>

\* pthread_mutex_lock fails: the call returns and nothing has changed.
LockFails(a) == /\ "lock" \in Faults
                /\ pc[a] \in {"write_lock", "read_lock"}
                /\ Goto(a, "idle")
                /\ UNCHANGED <<mvars, mutex, local, size, copied, out, writes>>

\* The size of the journal is read, and the copying of bytes begins.
BeginCopy(a) == /\ local' = [local EXCEPT ![a] = cur_size]
                /\ copied' = [copied EXCEPT ![a] = 0]
                /\ Lock(a)

\* An early return unlocks the mutex and does not look at the result.
ReturnEarly(a) == /\ Goto(a, "idle")
                  /\ UNCHANGED mutex \/ ("unlock" \in Faults /\ Lock(a))
                  /\ UNCHANGED <<local, copied>>

\* Slip: the size of the entry is left out of the comparison.
WriteLockUnsized(a) ==
  /\ pc[a] = "write_lock"
  /\ mutex[ProcessOf[a]] = Nobody
  /\ \/ cur_size > MaxSize /\ ReturnEarly(a)
     \/ cur_size <= MaxSize /\ BeginCopy(a) /\ Goto(a, "write_copy")
  /\ UNCHANGED <<mvars, size, out, writes>>

\* Slip: the comparison allows one byte too many.
WriteLockPast(a) ==
  /\ pc[a] = "write_lock"
  /\ mutex[ProcessOf[a]] = Nobody
  /\ \/ cur_size + size[a] > MaxSize + 1 /\ ReturnEarly(a)
     \/ cur_size + size[a] <= MaxSize + 1 /\ BeginCopy(a) /\ Goto(a, "write_copy")
  /\ UNCHANGED <<mvars, size, out, writes>>

\* Slip: the mutex is not waited for.
WriteLockUnguarded(a) ==
  /\ pc[a] = "write_lock"
  /\ \/ cur_size + size[a] > MaxSize /\ ReturnEarly(a)
     \/ cur_size + size[a] <= MaxSize /\ BeginCopy(a) /\ Goto(a, "write_copy")
  /\ UNCHANGED <<mvars, size, out, writes>>

\* journal_write locks its mutex, reads cur_size and compares: the entry
\* fits, or the mutex is unlocked and ERROR_NO_SPACE returned.
WriteLock(a) ==
  /\ pc[a] = "write_lock"
  /\ mutex[ProcessOf[a]] = Nobody
  /\ \/ cur_size + size[a] > MaxSize /\ ReturnEarly(a)
     \/ cur_size + size[a] <= MaxSize /\ BeginCopy(a) /\ Goto(a, "write_copy")
  /\ UNCHANGED <<mvars, size, out, writes>>

\* memcpy(journal_ptr + cur_size, data, data_size), byte by byte
WriteCopy(a) ==
  /\ pc[a] = "write_copy"
  /\ copied[a] < size[a]
  /\ cells' = [cells EXCEPT ![local[a] + copied[a]] =
                              Byte(a, writes[a], copied[a])]
  /\ copied' = [copied EXCEPT ![a] = @ + 1]
  /\ UNCHANGED <<cur_size, mutex, pc, local, size, out, writes, entries>>

NewEntry(a) == [by |-> a, nr |-> writes[a], at |-> local[a], len |-> size[a]]

\* Slip: cur_size is set to the size of the entry.
WriteSizeOnly(a) ==
  /\ pc[a] = "write_copy"
  /\ copied[a] = size[a]
  /\ cur_size' = HeaderSize + size[a]
  /\ entries' = entries \cup {NewEntry(a)}
  /\ Goto(a, "unlock")
  /\ UNCHANGED <<cells, mutex, local, size, copied, out, writes>>

\* cur_size += data_size; memcpy(journal_ptr, &cur_size, sizeof(cur_size))
WriteSize(a) ==
  /\ pc[a] = "write_copy"
  /\ copied[a] = size[a]
  /\ cur_size' = local[a] + size[a]
  /\ entries' = entries \cup {NewEntry(a)}
  /\ Goto(a, "unlock")
  /\ UNCHANGED <<cells, mutex, local, size, copied, out, writes>>

\* Slip: the mutex is not waited for.
ReadLockUnguarded(a) ==
  /\ pc[a] = "read_lock"
  /\ \/ BufferSize < cur_size /\ ReturnEarly(a)
     \/ BufferSize >= cur_size /\ BeginCopy(a) /\ Goto(a, "read_copy")
  /\ UNCHANGED <<mvars, size, out, writes>>

\* journal_read locks its mutex and reads cur_size; a buffer smaller than
\* cur_size gets ERROR_READ.
ReadLock(a) ==
  /\ pc[a] = "read_lock"
  /\ mutex[ProcessOf[a]] = Nobody
  /\ \/ BufferSize < cur_size /\ ReturnEarly(a)
     \/ BufferSize >= cur_size /\ BeginCopy(a) /\ Goto(a, "read_copy")
  /\ UNCHANGED <<mvars, size, out, writes>>

\* memcpy(buffer, journal_ptr + sizeof(size_t), cur_size - sizeof(size_t))
ReadCopy(a) ==
  /\ pc[a] = "read_copy"
  /\ copied[a] < local[a] - HeaderSize
  /\ out' = [out EXCEPT ![a][copied[a]] = cells[HeaderSize + copied[a]]]
  /\ copied' = [copied EXCEPT ![a] = @ + 1]
  /\ UNCHANGED <<mvars, mutex, pc, local, size, writes>>

ReadDone(a) == /\ pc[a] = "read_copy"
               /\ copied[a] = local[a] - HeaderSize
               /\ Goto(a, "read_unlock")
               /\ UNCHANGED <<mvars, mutex, local, size, copied, out, writes>>

\* Either call unlocks its mutex and returns; the caller uses up the buffer.
Return(a) ==
  /\ pc[a] \in {"unlock", "read_unlock"}
  /\ Unlock(a)
  /\ Goto(a, "idle")
  /\ out' = [out EXCEPT ![a] = [k \in 0 .. BufferSize - 1 |-> Blank]]
  /\ UNCHANGED <<mvars, local, size, copied, writes>>

\* pthread_mutex_unlock fails: an error is returned, the mutex stays locked
\* and what was written stays written.
UnlockFails(a) ==
  /\ "unlock" \in Faults
  /\ pc[a] \in {"unlock", "read_unlock"}
  /\ Goto(a, "idle")
  /\ out' = [out EXCEPT ![a] = [k \in 0 .. BufferSize - 1 |-> Blank]]
  /\ UNCHANGED <<mvars, mutex, local, size, copied, writes>>

Step(a) == \/ WriteLock(a) \/ WriteCopy(a) \/ WriteSize(a)
           \/ ReadLock(a) \/ ReadCopy(a) \/ ReadDone(a) \/ Return(a)

Next == \E a \in Actors : \/ CallWrite(a) \/ CallRead(a) \/ Step(a)
                          \/ LockFails(a) \/ UnlockFails(a)

Spec == Init /\ [][Next]_vars
-----------------------------------------------------------------------------
PCs == {"idle", "write_lock", "write_copy", "unlock",
        "read_lock", "read_copy", "read_unlock"}
Bytes == {Byte(a, n, k) : a \in Actors, n \in 1 .. MaxWrites, k \in 0 .. MaxSize}
           \cup {Blank}
EntryRecords == [by : Actors, nr : 1 .. MaxWrites, at : Offsets, len : Sizes]

\* Every variable has its type.
TypeOK == /\ cells \in [Offsets -> Bytes]
          /\ cur_size \in Nat
          /\ mutex \in [Processes -> Actors \cup {Nobody}]
          /\ pc \in [Actors -> PCs]
          /\ local \in [Actors -> Nat]
          /\ size \in [Actors -> Nat]
          /\ copied \in [Actors -> Nat]
          /\ out \in [Actors -> [0 .. BufferSize - 1 -> Bytes]]
          /\ writes \in [Actors -> 0 .. MaxWrites]
          /\ entries \subseteq EntryRecords

\* cur_size stays between the header and max_size, and every memcpy of
\* journal_write and journal_read stays inside the journal and the buffer,
\* also after calls that returned with the mutex still locked: the checks use
\* the value of cur_size the call read, not the shared word.
WithinBounds ==
  /\ HeaderSize <= cur_size /\ cur_size <= MaxSize
  /\ \A a \in Actors :
       /\ pc[a] = "write_copy" => /\ HeaderSize <= local[a]
                                  /\ local[a] + size[a] <= MaxSize
                                  /\ copied[a] <= size[a]
       /\ pc[a] = "read_copy" => /\ local[a] <= MaxSize
                                 /\ local[a] <= BufferSize
                                 /\ copied[a] <= local[a] - HeaderSize

\* An appended entry lies below cur_size, whole and with its own bytes.
Intact(e) == /\ e.at + e.len <= cur_size
             /\ \A k \in 0 .. e.len - 1 : cells[e.at + k] = Byte(e.by, e.nr, k)

\* The journal keeps every entry journal_write has appended, as "Write to
\* the end of journal" and the Readme's journal of all requests have it.
NothingLost == \A e \in entries : Intact(e)

\* cur_size never moves back: the journal is append-only.
NeverShrinks == [][cur_size' >= cur_size]_vars

\* What journal_read returns is the journal at one moment: each byte up to
\* cur_size, all as they are when the read unlocks its mutex.
ReadIsSnapshot ==
  \A a \in Actors : pc[a] = "read_unlock" =>
    /\ local[a] = cur_size
    /\ \A k \in 0 .. local[a] - HeaderSize - 1 : out[a][k] = cells[HeaderSize + k]
=============================================================================
