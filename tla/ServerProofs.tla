---------------------------- MODULE ServerProofs ----------------------------
(***************************************************************************)
(* Proofs about Server, for every number of workers and utilities, every   *)
(* size of the journal and of the entries, and with all faults.            *)
(***************************************************************************)
EXTENDS Server, JournalProofs

\* The steps of an actor inside the calls of journal.c.
ActorStep(a) == CallWrite(a) \/ CallRead(a) \/ Step(a) \/ LockFails(a) \/ UnlockFails(a)

\* Those of journal_read alone.
ReadStep(a) == \/ CallRead(a) \/ ReadLock(a) \/ ReadCopy(a) \/ ReadDone(a) \/ Return(a)
               \/ LockFails(a) \/ UnlockFails(a)

LEMMA ReadStepActs == ASSUME NEW a, ReadStep(a) PROVE ActorStep(a)
BY Zenon DEF ReadStep, ActorStep, Step

\* What a step of the server is to the journal and to the place of main.
LEMMA ServerSteps ==
  ASSUME ServerNext
  PROVE  \/ UNCHANGED vars
         \/ WriteHello
         \/ thread \in {"read", "malloc"} /\ ReadStep(Thread) /\ UNCHANGED mainvars
         \/ \E w \in Workers : WorkerWrites(w)
<1>1. ASSUME MainThread, ~WriteHello PROVE UNCHANGED vars
  BY <1>1, Zenon DEF MainThread, CreateJournal, Fork, StartThread, Wait, DeleteJournal,
              ReturnFromMain, Exit, ProcessEnds
<1>2. ASSUME JournalThread
      PROVE  \/ UNCHANGED vars
             \/ thread \in {"read", "malloc"} /\ ReadStep(Thread) /\ UNCHANGED mainvars
  <2>1. CASE Receiver
    BY <1>2, <2>1, Zenon DEF JournalThread, Receiver, Listen, Accept, AcceptFails, CloseSocket,
                      Allocate, SendByte, SendReturns, SendFails, ReadStep
  <2>2. CASE ReadJournal
    BY <1>2, <2>2, Zenon DEF JournalThread, ReadJournal, ReadStep
  <2> QED
    BY <1>2, <2>1, <2>2, Zenon DEF JournalThread
<1>3. ASSUME ThreadKills PROVE UNCHANGED vars
  BY <1>3, Zenon DEF ThreadKills, Exit, ProcessEnds
<1>4. ASSUME NEW w \in Workers, WorkerEnds(w) PROVE UNCHANGED vars
  BY <1>4, Zenon DEF WorkerEnds
<1>5. ASSUME NEW u \in Utilities, Utility(u) PROVE UNCHANGED vars
  BY <1>5, Zenon DEF Utility, Connect, SendTrigger, OpenFile, ReceiveBytes, ReceiveEnd
<1> QED
  BY <1>1, <1>2, <1>3, <1>4, <1>5, Zenon DEF ServerNext

\* Every step of the server is a step of the journal or leaves it alone.
LEMMA ServerIsJournal == [ServerNext]_servervars => [Next]_vars
<1>1. ASSUME ServerNext PROVE [Next]_vars
  <2>1. CASE WriteHello
    BY <2>1, ServerAssumption, Zenon DEF WriteHello, WriteStep, Next, Step
  <2>2. CASE ReadStep(Thread)
    BY <2>2, ReadStepActs, TransferAssumption, Zenon DEF ActorStep, Next
  <2>3. ASSUME NEW w \in Workers, WorkerWrites(w) PROVE Next
    BY <2>3, Zenon DEF WorkerWrites, WriteStep, Workers, Next, Step
  <2> QED
    BY <1>1, ServerSteps, <2>1, <2>2, <2>3, Zenon
<1> QED
  BY <1>1, Zenon DEF servervars

\* Every journal_write and journal_read of the server stays in bounds, with
\* the mutex split among its processes and workers that end at any moment.
THEOREM ServerWithinBounds == ServerSpec => []WithinBounds
<1>1. ServerInit => BoundsInv
  BY BoundsInit, Zenon DEF ServerInit
<1>2. BoundsInv /\ [ServerNext]_servervars => BoundsInv'
  BY ServerIsJournal, BoundsStep, Zenon
<1> QED
  BY <1>1, <1>2, PTL DEF ServerSpec, BoundsInv
-----------------------------------------------------------------------------
(* The first entry. *)

\* Until the first entry is written main is alone: no worker is forked, and
\* the thread does not exist.
Alone == /\ main \in {"create", "hello"} => \A w \in Workers : worker[w] = "unborn"
         /\ main \in {"create", "hello", "fork", "thread"} => thread = "none"
         /\ main \in {"create", "hello"} =>
              \A a \in Actors \ {Main} : pc[a] = "idle"

\* Where main is in its one journal_write, and what it has done of it.
HelloInProgress ==
  /\ main = "create" => writes[Main] = 0
  /\ writes[Main] = 0 => pc[Main] = "idle"
  /\ main # "hello" => pc[Main] = "idle"
  /\ main = "hello" /\ pc[Main] = "idle" => writes[Main] = 0
  /\ main = "create" \/ (main = "hello" /\ pc[Main] # "unlock") =>
       Hello = {} /\ cur_size = HeaderSize
  /\ pc[Main] \in {"idle", "write_lock", "write_copy", "unlock"}
  /\ pc[Main] = "write_copy" =>
       /\ local[Main] = HeaderSize
       /\ \A k \in 0 .. copied[Main] - 1 :
            cells[HeaderSize + k] = Byte(Main, writes[Main], k)

\* Every journal_write in progress goes to the bytes behind the first entry.
WritesBehind == \A e \in Hello : \A a \in Actors :
                  pc[a] = "write_copy" => e.at + e.len <= local[a]

HelloInv == Alone /\ HelloInProgress /\ HelloKept /\ WritesBehind

LEMMA HelloInit == ServerInit => HelloInv
BY ServerAssumption, SizeAssumption, SMTT(30)
DEF ServerInit, Init, TransferInit, HelloInv, Alone, HelloInProgress, HelloKept,
    WritesBehind, Hello

\* A step of another actor than main leaves the first entry as it is.
LEMMA OthersKeepHello ==
  ASSUME BoundsInv, HelloKept, WritesBehind,
         NEW a \in Actors \ {Main}, ActorStep(a)
  PROVE  /\ HelloKept' /\ WritesBehind' /\ Hello' = Hello
         /\ \A b \in Actors \ {a} : pc'[b] = pc[b] /\ local'[b] = local[b]
                                    /\ copied'[b] = copied[b] /\ writes'[b] = writes[b]
<1> USE SizeAssumption DEF BoundsInv, TypeOK
<1>0. \A e \in Hello : /\ e.at \in Nat /\ e.len \in Nat
                       /\ e.at + e.len <= cur_size /\ cur_size \in Nat
  BY Zenon DEF Hello, EntryRecords, Offsets, HelloKept, Intact
<1>1. CASE WriteLock(a)
  <2>1. /\ UNCHANGED <<mvars, size, out, writes>>
        /\ \/ Goto(a, "idle") /\ UNCHANGED <<local, copied>>
           \/ /\ Goto(a, "write_copy")
              /\ local' = [local EXCEPT ![a] = cur_size]
              /\ copied' = [copied EXCEPT ![a] = 0]
    BY <1>1, Zenon DEF WriteLock, BeginCopy, ReturnEarly
  <2>2. Hello' = Hello /\ HelloKept'
    BY <2>1, Zenon DEF mvars, Hello, HelloKept, Intact
  <2>3. WritesBehind'
    BY <2>1, <2>2, <1>0 DEF WritesBehind, Goto
  <2> QED
    BY <2>1, <2>2, <2>3, Zenon DEF Goto
<1>2. CASE WriteCopy(a)
  <2>1. Hello' = Hello
    BY <1>2, Zenon DEF WriteCopy, Hello
  <2>2. ASSUME NEW e \in Hello, NEW k \in 0 .. e.len - 1
        PROVE  cells'[e.at + k] = cells[e.at + k]
    <3>1. e.at + e.len <= local[a] /\ local[a] \in Nat /\ copied[a] \in Nat
      BY <1>2, <2>2, Zenon DEF WriteCopy, WritesBehind
    <3>2. e.at + k # local[a] + copied[a]
      BY <3>1, <1>0, SMTT(30)
    <3> QED
      BY <1>2, <3>2 DEF WriteCopy
  <2>3. HelloKept'
    BY <1>2, <2>1, <2>2, SMTT(30) DEF HelloKept, Intact, WriteCopy
  <2>4. WritesBehind'
    BY <1>2, <2>1, Zenon DEF WritesBehind, WriteCopy
  <2> QED
    BY <1>2, <2>1, <2>3, <2>4, Zenon DEF WriteCopy
<1>3. CASE WriteSize(a)
  <2>1. Hello' = Hello
    BY <1>3 DEF WriteSize, NewEntry, Hello
  <2>2. \A e \in Hello : e.at + e.len <= cur_size'
    BY <1>3, <1>0, SMTT(30) DEF WriteSize, WritesBehind
  <2>3. HelloKept'
    BY <1>3, <2>1, <2>2, Zenon DEF HelloKept, Intact, WriteSize
  <2>4. WritesBehind'
    BY <1>3, <2>1, Zenon DEF WritesBehind, WriteSize, Goto
  <2> QED
    BY <1>3, <2>1, <2>3, <2>4, Zenon DEF WriteSize, Goto
<1>4. CASE ReadLock(a)
  <2>1. /\ UNCHANGED <<mvars, size, out, writes>>
        /\ \/ Goto(a, "idle") /\ UNCHANGED <<local, copied>>
           \/ /\ Goto(a, "read_copy")
              /\ local' = [local EXCEPT ![a] = cur_size]
              /\ copied' = [copied EXCEPT ![a] = 0]
    BY <1>4, Zenon DEF ReadLock, BeginCopy, ReturnEarly
  <2>2. Hello' = Hello /\ HelloKept'
    BY <2>1, Zenon DEF mvars, Hello, HelloKept, Intact
  <2>3. WritesBehind'
    BY <2>1, <2>2, Zenon DEF WritesBehind, Goto
  <2> QED
    BY <2>1, <2>2, <2>3, Zenon DEF Goto
<1>5. CASE CallWrite(a) \/ CallRead(a) \/ ReadCopy(a) \/ ReadDone(a) \/ Return(a) \/ LockFails(a)
           \/ UnlockFails(a)
  <2>1. /\ UNCHANGED <<mvars, local>>
        /\ \A b \in Actors \ {a} : /\ pc'[b] = pc[b] /\ copied'[b] = copied[b]
                                   /\ writes'[b] = writes[b]
        /\ \A b \in Actors : pc'[b] = "write_copy" => pc[b] = "write_copy"
    BY <1>5, Zenon DEF CallWrite, CallRead, ReadCopy, ReadDone, Return, LockFails, UnlockFails,
                    Goto
  <2>2. Hello' = Hello /\ HelloKept'
    BY <2>1, Zenon DEF mvars, Hello, HelloKept, Intact
  <2> QED
    BY <2>1, <2>2, Zenon DEF WritesBehind
<1> QED
  BY <1>1, <1>2, <1>3, <1>4, <1>5, Zenon DEF ActorStep, Step

\* A step that leaves the journal alone keeps main where it may be.
LEMMA IdleStep ==
  ASSUME BoundsInv, HelloInv, ServerNext, UNCHANGED vars
  PROVE  HelloInv'
<1> USE DEF HelloInv
<1>1. Hello' = Hello /\ HelloKept' /\ WritesBehind'
  BY Zenon DEF vars, Hello, HelloKept, Intact, WritesBehind
<1>2. ASSUME main \notin {"create", "hello"}, main' \notin {"create", "hello"},
             main' \in {"fork", "thread"} => thread' = "none"
      PROVE  HelloInv'
  BY <1>1, <1>2, Zenon DEF vars, Alone, HelloInProgress
<1>3. ASSUME main' = main, worker' = worker, thread' = thread PROVE HelloInv'
  BY <1>1, <1>3, Zenon DEF vars, Alone, HelloInProgress
<1>4. CASE CreateJournal
  <2>1. CASE main' = "hello" /\ UNCHANGED transfervars
    BY <1>1, <1>4, <2>1, Zenon DEF CreateJournal, vars, transfervars, threadvars, Alone, HelloInProgress

  <2>2. CASE Exit
    BY <1>1, <1>4, <2>2, Zenon DEF CreateJournal, Exit, vars, Alone, HelloInProgress
  <2> QED
    BY <1>4, <2>1, <2>2, Zenon DEF CreateJournal
<1>5. CASE WriteHello
  <2>1. pc' = pc
    BY Zenon DEF vars
  <2>2. main' = IF pc[Main] = "idle" THEN "fork" ELSE "hello"
    BY <1>5, <2>1, Zenon DEF WriteHello
  <2>3. pc[Main] # "idle"
    <3>1. CASE CallWrite(Main)
      BY <3>1, <2>1, ServerAssumption, Zenon DEF CallWrite, Goto, BoundsInv, TypeOK
    <3>2. CASE WriteStep(Main)
      BY <3>2, Zenon DEF WriteStep, WriteLock, WriteCopy, WriteSize, Return, LockFails,
                      UnlockFails
    <3> QED
      BY <1>5, <3>1, <3>2, Zenon DEF WriteHello
  <2> QED
    BY <1>3, <1>5, <2>2, <2>3, Zenon DEF WriteHello, transfervars, threadvars
<1>6. CASE Fork
  <2>1. main = "fork" /\ main' \in {"fork", "thread", "ended"}
    BY <1>6, Zenon DEF Fork, Exit
  <2>2. main' # "ended" => thread' = "none"
    BY <1>6, Zenon DEF Fork, Exit, transfervars, threadvars, Alone
  <2> QED
    BY <1>2, <2>1, <2>2, Zenon
<1>7. CASE StartThread \/ Wait \/ DeleteJournal \/ ReturnFromMain
  BY <1>2, <1>7, Zenon DEF StartThread, Wait, DeleteJournal, ReturnFromMain, Exit
<1>8. CASE JournalThread \/ ThreadKills
  <2>1. thread # "none"
    BY <1>8, Zenon DEF JournalThread, ThreadKills, BrokenPipe, Receiver, Listen, Accept,
                AcceptFails, CloseSocket, Allocate, SendByte, SendReturns, SendFails,
                ReadJournal
  <2>2. main' \in {main, "ended"}
    BY <1>8, Zenon DEF JournalThread, ThreadKills, Exit, mainvars
  <2> QED
    BY <1>2, <2>1, <2>2, Zenon DEF Alone
<1>9. ASSUME NEW w \in Workers, WorkerWrites(w) \/ WorkerEnds(w) PROVE HelloInv'
  <2>1. worker[w] = "running" /\ main' = main /\ thread' = thread
    BY <1>9, Zenon DEF WorkerWrites, WorkerEnds, mainvars, transfervars, threadvars
  <2> QED
    BY <1>2, <2>1, Zenon DEF Alone
<1>10. ASSUME NEW u \in Utilities, Utility(u), UNCHANGED mainvars PROVE HelloInv'
  BY <1>3, <1>10, Zenon DEF Utility, Connect, SendTrigger, OpenFile, ReceiveBytes, ReceiveEnd,
                     threadvars, mainvars
<1> QED
  BY <1>4, <1>5, <1>6, <1>7, <1>8, <1>9, <1>10, Zenon DEF ServerNext, MainThread

\* Main writes the first entry, alone, to the start of the journal.
LEMMA HelloStep ==
  ASSUME BoundsInv, HelloInv, WriteHello
  PROVE  HelloInv'
<1> USE ServerAssumption DEF Goto
<1>a. HeaderSize \in Nat
  BY SizeAssumption, Zenon
<1>b. Alone /\ HelloInProgress /\ HelloKept /\ WithinBounds
  BY Zenon DEF HelloInv, BoundsInv
<1>c. /\ pc \in [Actors -> PCs] /\ cells \in [Offsets -> Bytes] /\ writes \in [Actors -> 0 .. MaxWrites]
      /\ local \in [Actors -> Nat] /\ size \in [Actors -> Nat] /\ copied \in [Actors -> Nat]
  BY Zenon DEF BoundsInv, TypeOK
<1>1. /\ main = "hello" /\ thread' = thread /\ worker' = worker
      /\ main' = IF pc'[Main] = "idle" THEN "fork" ELSE "hello"
  BY Zenon DEF WriteHello, transfervars, threadvars
<1>2. CASE writes[Main] = 0 /\ CallWrite(Main)
  <2>1. /\ pc[Main] = "idle" /\ pc' = [pc EXCEPT ![Main] = "write_lock"]
        /\ UNCHANGED mvars /\ writes'[Main] # 0
    BY <1>2, <1>c, SMTT(30) DEF CallWrite
  <2>2. Hello' = Hello /\ Hello = {} /\ cur_size' = HeaderSize
    BY <1>1, <1>b, <2>1, Zenon DEF mvars, Hello, HelloInProgress
  <2>3. Alone' /\ HelloInProgress'
    BY <1>1, <1>b, <1>c, <2>1, <2>2, Zenon DEF Alone, HelloInProgress
  <2> QED
    BY <2>2, <2>3, Zenon DEF HelloInv, HelloKept, WritesBehind
<1>3. CASE WriteLock(Main)
  <2>1. /\ UNCHANGED <<mvars, writes>> /\ pc[Main] = "write_lock"
        /\ \/ pc' = [pc EXCEPT ![Main] = "idle"]
           \/ /\ pc' = [pc EXCEPT ![Main] = "write_copy"]
              /\ local' = [local EXCEPT ![Main] = cur_size]
              /\ copied' = [copied EXCEPT ![Main] = 0]
    BY <1>3, Zenon DEF WriteLock, BeginCopy, ReturnEarly
  <2>2. /\ Hello' = Hello /\ Hello = {} /\ writes[Main] # 0
        /\ cur_size' = HeaderSize /\ cur_size = HeaderSize
    BY <1>1, <1>b, <2>1, Zenon DEF mvars, Hello, HelloInProgress
  <2>3. Alone'
    BY <1>1, <1>b, <1>c, <2>1, Zenon DEF Alone
  <2>4. HelloInProgress'
    BY <1>1, <1>b, <1>c, <2>1, <2>2, SMTT(30) DEF HelloInProgress
  <2> QED
    BY <2>2, <2>3, <2>4, Zenon DEF HelloInv, HelloKept, WritesBehind
<1>4. CASE WriteCopy(Main)
  <2>1. /\ pc' = pc /\ pc[Main] = "write_copy"
        /\ UNCHANGED <<cur_size, entries, writes, local>>
        /\ copied[Main] \in Nat /\ copied'[Main] = copied[Main] + 1
        /\ copied[Main] < size[Main] /\ size[Main] \in Nat
    BY <1>4, <1>c, Zenon DEF WriteCopy
  <2>2. /\ local[Main] = HeaderSize
        /\ \A k \in 0 .. copied[Main] - 1 :
             cells[HeaderSize + k] = Byte(Main, writes[Main], k)
    BY <1>b, <2>1, Zenon DEF HelloInProgress
  <2>3. HeaderSize + copied[Main] \in Offsets
    BY <1>a, <1>b, <2>1, <2>2, SizeAssumption, SMTT(30) DEF WithinBounds, Offsets
  <2>4. cells' = [cells EXCEPT ![HeaderSize + copied[Main]] =
                                 Byte(Main, writes[Main], copied[Main])]
    BY <1>4, <2>2, Zenon DEF WriteCopy
  <2>5. \A k \in 0 .. copied'[Main] - 1 :
          cells'[HeaderSize + k] = Byte(Main, writes[Main], k)
    <3> SUFFICES ASSUME NEW k \in 0 .. copied'[Main] - 1
                 PROVE  cells'[HeaderSize + k] = Byte(Main, writes[Main], k)
      BY Zenon
    <3>1. CASE k = copied[Main]
      BY <1>c, <2>3, <2>4, <3>1, Zenon
    <3>2. CASE k # copied[Main]
      <4>1. k \in 0 .. copied[Main] - 1 /\ HeaderSize + k # HeaderSize + copied[Main]
        BY <1>a, <2>1, <3>2, SMTT(30)
      <4>2. cells'[HeaderSize + k] = cells[HeaderSize + k]
        BY <1>c, <2>4, <4>1, SMTT(30)
      <4> QED
        BY <2>2, <4>1, <4>2, Zenon
    <3> QED
      BY <3>1, <3>2, Zenon
  <2>6. Hello' = Hello /\ Hello = {} /\ cur_size' = HeaderSize
    BY <1>1, <1>b, <2>1, Zenon DEF Hello, HelloInProgress
  <2>7. Alone'
    BY <1>1, <1>b, <2>1, Zenon DEF Alone
  <2>8. HelloInProgress'
    BY <1>1, <1>b, <2>1, <2>2, <2>5, <2>6, Zenon DEF HelloInProgress
  <2> QED
    BY <2>6, <2>7, <2>8, Zenon DEF HelloInv, HelloKept, WritesBehind
<1>5. CASE WriteSize(Main)
  <2>1. /\ pc[Main] = "write_copy" /\ pc' = [pc EXCEPT ![Main] = "unlock"]
        /\ UNCHANGED <<cells, writes>> /\ copied[Main] = size[Main]
        /\ entries' = entries \cup {NewEntry(Main)} /\ cur_size' = local[Main] + size[Main]
    BY <1>5, Zenon DEF WriteSize
  <2>2. /\ local[Main] = HeaderSize /\ writes[Main] # 0 /\ Hello = {}
        /\ \A k \in 0 .. copied[Main] - 1 :
             cells[HeaderSize + k] = Byte(Main, writes[Main], k)
    BY <1>1, <1>b, <2>1, Zenon DEF HelloInProgress
  <2>3. /\ NewEntry(Main).by = Main /\ NewEntry(Main).nr = writes[Main]
        /\ NewEntry(Main).at = HeaderSize /\ NewEntry(Main).len = size[Main]
    BY <2>2, Zenon DEF NewEntry
  <2>4. Hello' = {NewEntry(Main)}
    BY <2>1, <2>2, <2>3, Zenon DEF Hello
  <2>5. HelloKept'
    <3> SUFFICES ASSUME NEW e \in Hello' PROVE Intact(e)' /\ e.at = HeaderSize
      BY Zenon DEF HelloKept
    <3>1. /\ e.by = Main /\ e.nr = writes[Main] /\ e.at = HeaderSize /\ e.len = size[Main]
      BY <2>3, <2>4, Zenon
    <3>2. e.at + e.len <= cur_size'
      <4>1. cur_size' = HeaderSize + size[Main]
        BY <2>1, <2>2, Zenon
      <4>2. size[Main] \in Nat
        BY <1>c, Zenon
      <4> QED
        BY <1>a, <3>1, <4>1, <4>2, SMTT(30)
    <3>3. \A k \in 0 .. e.len - 1 : cells'[e.at + k] = Byte(e.by, e.nr, k)
      BY <2>1, <2>2, <3>1, Zenon
    <3> QED
      BY <3>1, <3>2, <3>3, Zenon DEF Intact
  <2>6. Alone' /\ HelloInProgress'
    BY <1>1, <1>b, <1>c, <2>1, <2>2, Zenon DEF Alone, HelloInProgress
  <2>7. \A a \in Actors : pc'[a] # "write_copy"
    BY <1>1, <1>b, <1>c, <2>1, Zenon DEF Alone
  <2> QED
    BY <2>5, <2>6, <2>7, Zenon DEF HelloInv, WritesBehind
<1>6. CASE Return(Main) \/ LockFails(Main) \/ UnlockFails(Main)
  <2>1. /\ pc[Main] # "idle" /\ pc' = [pc EXCEPT ![Main] = "idle"]
        /\ UNCHANGED <<mvars, writes>>
    BY <1>6, Zenon DEF Return, LockFails, UnlockFails
  <2>2. main' = "fork" /\ writes[Main] # 0
    BY <1>1, <1>b, <1>c, <2>1, Zenon DEF HelloInProgress
  <2>3. Hello' = Hello /\ HelloKept'
    BY <1>b, <2>1, Zenon DEF mvars, Hello, HelloKept, Intact
  <2>4. Alone' /\ HelloInProgress'
    BY <1>1, <1>b, <1>c, <2>1, <2>2, Zenon DEF Alone, HelloInProgress
  <2>5. \A a \in Actors : pc'[a] # "write_copy"
    BY <1>1, <1>b, <1>c, <2>1, Zenon DEF Alone
  <2> QED
    BY <2>3, <2>4, <2>5, Zenon DEF HelloInv, WritesBehind
<1> QED
  BY <1>2, <1>3, <1>4, <1>5, <1>6, Zenon DEF WriteHello, WriteStep

\* The other actors act when main is past its first entry.
LEMMA OthersStep ==
  ASSUME BoundsInv, HelloInv, NEW a \in Actors \ {Main}, ActorStep(a),
         main' = main, main \notin {"create", "hello"},
         main \in {"fork", "thread"} => thread' = "none"
  PROVE  HelloInv'
<1>1. HelloKept' /\ WritesBehind' /\ pc'[Main] = pc[Main] /\ writes'[Main] = writes[Main]
  BY OthersKeepHello, ServerAssumption, Zenon DEF HelloInv
<1>2. Alone'
  BY Zenon DEF HelloInv, Alone
<1>3. HelloInProgress'
  BY <1>1, Zenon DEF HelloInv, HelloInProgress
<1> QED
  BY <1>1, <1>2, <1>3, Zenon DEF HelloInv

\* Every step of the server keeps the first entry where it is.
LEMMA HelloInvStep ==
  ASSUME BoundsInv, HelloInv, [ServerNext]_servervars
  PROVE  BoundsInv' /\ HelloInv'
<1>1. BoundsInv'
  BY ServerIsJournal, BoundsStep, Zenon
<1>2. CASE UNCHANGED servervars
  <2>1. UNCHANGED <<vars, main, worker, thread>>
    BY <1>2, Zenon DEF servervars, transfervars, threadvars, mainvars
  <2>2. Hello' = Hello /\ HelloKept' /\ WritesBehind'
    BY <2>1, Zenon DEF vars, HelloInv, Hello, HelloKept, Intact, WritesBehind
  <2>3. Alone' /\ HelloInProgress'
    BY <2>1, <2>2, Zenon DEF vars, HelloInv, Alone, HelloInProgress
  <2> QED
    BY <1>1, <2>2, <2>3, Zenon DEF HelloInv
<1>3. CASE ServerNext
  <2>1. ASSUME thread \in {"read", "malloc"}, ReadStep(Thread), UNCHANGED mainvars
        PROVE  HelloInv'
    <3>1. Thread \in Actors \ {Main}
      BY TransferAssumption, ServerAssumption, Zenon
    <3>2. main' = main /\ main \notin {"create", "hello", "fork", "thread"}
      BY <2>1, Zenon DEF mainvars, HelloInv, Alone
    <3> QED
      BY <2>1, <3>1, <3>2, ReadStepActs, OthersStep, Zenon
  <2>3. ASSUME NEW w \in Workers, WorkerWrites(w) PROVE HelloInv'
    <3>1. w \in Actors \ {Main} /\ ActorStep(w)
      BY <2>3, Zenon DEF Workers, WorkerWrites, WriteStep, ActorStep, Step
    <3>2. /\ main' = main /\ thread' = thread /\ main \notin {"create", "hello"}
          /\ main \in {"fork", "thread"} => thread = "none"
      BY <2>3, Zenon DEF WorkerWrites, mainvars, transfervars, threadvars, HelloInv, Alone
    <3> QED
      BY <3>1, <3>2, OthersStep, Zenon
  <2>4. UNCHANGED vars => HelloInv'
    BY <1>3, IdleStep, Zenon
  <2>5. WriteHello => HelloInv'
    BY HelloStep, Zenon
  <2>6. HelloInv'
    BY <1>3, ServerSteps, <2>1, <2>3, <2>4, <2>5, Zenon
  <2> QED
    BY <1>1, <2>6, Zenon
<1> QED
  BY <1>1, <1>2, <1>3, Zenon

\* The first entry stays at the start of the journal, whole, for any number
\* of workers that do not exclude each other and end at any moment.
THEOREM ServerKeepsHello == ServerSpec => []HelloKept
<1>1. ServerInit => BoundsInv /\ HelloInv
  BY BoundsInit, HelloInit, Zenon DEF ServerInit
<1>2. BoundsInv /\ HelloInv /\ [ServerNext]_servervars => BoundsInv' /\ HelloInv'
  BY HelloInvStep, Zenon
<1> QED
  BY <1>1, <1>2, PTL DEF ServerSpec, HelloInv

-----------------------------------------------------------------------------
(* The transfer. *)

\* What ServerTypeOK says of the variables of Transfer and of main.
TransferTypes ==
  /\ thread \in {"none", "socket", "accept", "accepted", "malloc", "read", "send",
                 "ended", "gone"}
  /\ listening \in BOOLEAN
  /\ backlog \in Seq(Utilities) /\ Len(backlog) <= Backlog + 1
  /\ client_sockfd \in Utilities \cup {NoUtility}
  /\ conn \in [Utilities -> Connections]
  /\ journal_content \in [Utilities -> Seq(Bytes)]
  /\ bytes_sent \in Nat
  /\ stream \in [Utilities -> Seq(Bytes)]
  /\ util \in [Utilities -> Done \cup {"start", "trigger", "open", "recv"}]
  /\ file \in [Utilities -> Seq(Bytes)]
  /\ unflushed \in [Utilities -> Seq(Bytes)]

MainTypes ==
  /\ main \in {"create", "hello", "fork", "thread", "wait", "delete", "return", "ended"}
  /\ worker \in [Workers -> {"unborn", "running", "ended"}]
  /\ mapped \in BOOLEAN

\* The thread has a client while it serves one, whose connection is open and
\* not in the backlog; it has read no more than fits its buffer.
Serving == {"accepted", "malloc", "read", "send"}

Sockets ==
  /\ thread \in Serving <=> client_sockfd \in Utilities
  /\ client_sockfd \in Utilities => conn[client_sockfd] = "open" /\ client_sockfd \notin Waiting
  /\ \A i \in DOMAIN backlog : conn[backlog[i]] = "open"
  /\ \A i, j \in DOMAIN backlog : backlog[i] = backlog[j] => i = j
  /\ thread # "send" => bytes_sent = 0

ReadFits == /\ pc[Thread] \in {"idle", "read_lock", "read_copy", "read_unlock"}
            /\ pc[Thread] \in {"read_copy", "read_unlock"} =>
                 HeaderSize <= local[Thread] /\ local[Thread] <= BufferSize

\* What came to a utility: the bytes its stdio holds, then those in its stream.
Sending(u) == thread = "send" /\ client_sockfd = u
Came(u) == Len(unflushed[u]) + Len(stream[u])

\* The file of u is what SavedFromOneRead says.
Saved(u) == /\ PrefixOf(file[u], journal_content[u])
            /\ file[u] = journal_content[u] \/ Truncated(u)

\* What came is a part of what was read for u: as much as was sent, all once
\* the connection is closed, nothing if there was an error before the first
\* byte.
Flow(u) ==
  /\ util[u] \notin Done =>
       /\ Came(u) <= Len(journal_content[u])
       /\ \A i \in 1 .. Len(unflushed[u]) : unflushed[u][i] = journal_content[u][i]
       /\ \A i \in 1 .. Len(stream[u]) :
            stream[u][i] = journal_content[u][Len(unflushed[u]) + i]
       /\ Sending(u) => Came(u) = bytes_sent
       /\ conn[u] = "closed" => Came(u) = Len(journal_content[u])
       /\ /\ ~Sending(u) /\ conn[u] \notin {"closed", "cut"}
          /\ conn[u] = "reset" => main # "ended"
          => Came(u) = 0
  /\ util[u] = "start" => conn[u] = "none"
  /\ conn[u] = "none" => util[u] \in {"start", "failed"}
  /\ util[u] = "ok" => Saved(u) /\ conn[u] \in {"closed", "cut", "reset"}

FlowInv == \A u \in Utilities : Flow(u)

\* The one entry of main is its first, and what is read and sent begins with it.
HelloIsFirst == writes[Main] <= 1 /\ \A e \in Hello : e.nr = 1

BeginsWithHello ==
  \A e \in Hello :
    /\ pc[Thread] = "read_copy" =>
         \A k \in 0 .. copied[Thread] - 1 : k < e.len => out[Thread][k] = Byte(Main, 1, k)
    /\ pc[Thread] = "read_unlock" =>
         \A k \in 0 .. local[Thread] - HeaderSize - 1 : k < e.len => out[Thread][k] = Byte(Main, 1, k)
    /\ \A u \in Utilities : \A k \in 1 .. e.len :
         k <= Len(journal_content[u]) => journal_content[u][k] = Byte(Main, 1, k - 1)

NothingRead == thread = "none" => \A u \in Utilities : journal_content[u] = <<>>

\* What is at an index of a concatenation.
LEMMA ConcatIndex ==
  ASSUME NEW S, NEW r \in Seq(S), NEW t \in Seq(S)
  PROVE  /\ Len(r \o t) = Len(r) + Len(t)
         /\ \A i \in 1 .. Len(r) + Len(t) :
              (r \o t)[i] = IF i <= Len(r) THEN r[i] ELSE t[i - Len(r)]
  BY SMTT(30)

\* The two parts of a sequence that is cut behind its index k.
LEMMA SubSeqParts ==
  ASSUME NEW S, NEW s \in Seq(S), NEW k \in 0 .. Len(s)
  PROVE  /\ SubSeq(s, 1, k) \in Seq(S) /\ Len(SubSeq(s, 1, k)) = k
         /\ \A i \in 1 .. k : SubSeq(s, 1, k)[i] = s[i]
         /\ SubSeq(s, k + 1, Len(s)) \in Seq(S)
         /\ k < Len(s) => SubSeq(s, k + 1, Len(s)) # <<>>
<1>1. SubSeq(s, 1, k) \in Seq(S) /\ Len(SubSeq(s, 1, k)) = k
  BY SMTT(30)
<1>2. \A i \in 1 .. k : SubSeq(s, 1, k)[i] = s[i]
  BY SMTT(30)
<1>3. SubSeq(s, k + 1, Len(s)) \in Seq(S) /\ Len(SubSeq(s, k + 1, Len(s))) = Len(s) - k
  BY SMTT(30)
<1>4. k < Len(s) => Len(s) - k # 0
  BY SMTT(30)
<1>5. Len(<<>>) = 0
  OBVIOUS
<1> QED
  BY <1>1, <1>2, <1>3, <1>4, <1>5, Zenon

\* What a step of the server is to the transfer.
LEMMA TransferSteps ==
  ASSUME [ServerNext]_servervars
  PROVE  \/ UNCHANGED transfervars /\ (main' = "ended" <=> main = "ended")
         \/ /\ main = "thread" /\ main' = "wait" /\ thread' = "socket"
            /\ UNCHANGED <<client_sockfd, journal_content, bytes_sent, sockets, utilvars>>
         \/ ProcessEnds /\ main' = "ended"
         \/ /\ main' = main
            /\ Receiver \/ ReadJournal \/ \E u \in Utilities : Utility(u)
<1>1. CASE MainThread
  <2>1. CASE CreateJournal
    BY <2>1, Zenon DEF CreateJournal, Exit
  <2>2. CASE WriteHello
    BY <2>2, Zenon DEF WriteHello
  <2>3. CASE Fork
    BY <2>3, Zenon DEF Fork, Exit
  <2>4. CASE StartThread
    BY <2>4, Zenon DEF StartThread, Exit
  <2>5. CASE Wait \/ DeleteJournal
    BY <2>5, Zenon DEF Wait, DeleteJournal
  <2>6. CASE ReturnFromMain
    BY <2>6, Zenon DEF ReturnFromMain, Exit
  <2> QED
    BY <1>1, <2>1, <2>2, <2>3, <2>4, <2>5, <2>6, Zenon DEF MainThread
<1>2. CASE JournalThread \/ ThreadKills
  BY <1>2, Zenon DEF JournalThread, ThreadKills, Exit, mainvars
<1>3. ASSUME NEW w \in Workers, WorkerWrites(w) \/ WorkerEnds(w)
      PROVE  UNCHANGED transfervars /\ (main' = "ended" <=> main = "ended")
  BY <1>3, Zenon DEF WorkerWrites, WorkerEnds, mainvars
<1>4. ASSUME NEW u \in Utilities, Utility(u) /\ UNCHANGED mainvars
      PROVE  main' = main /\ \E v \in Utilities : Utility(v)
  BY <1>4, Zenon DEF mainvars
<1>5. CASE UNCHANGED servervars
  BY <1>5, Zenon DEF servervars, mainvars
<1> QED
  BY <1>1, <1>2, <1>3, <1>4, <1>5, Zenon DEF ServerNext

\* A function on the indices of a sequence is one.
LEMMA FunctionIsSeq ==
  ASSUME NEW S, NEW m \in Nat, NEW f \in [1 .. m -> S]
  PROVE  f \in Seq(S) /\ Len(f) = m
  BY SMTT(30)

\* What journal_read returned is a sequence of bytes.
LEMMA ContentTyped ==
  ASSUME BoundsInv, ReadFits, pc[Thread] = "read_unlock"
  PROVE  Content \in Seq(Bytes) /\ Len(Content) = local[Thread] - HeaderSize
<1> DEFINE n == local[Thread] - HeaderSize
<1>1. /\ n \in Nat /\ n <= BufferSize /\ BufferSize \in Nat
      /\ out[Thread] \in [0 .. BufferSize - 1 -> Bytes]
  BY SizeAssumption, TransferAssumption DEF BoundsInv, TypeOK, ReadFits
<1>2. Content = [k \in 1 .. n |-> out[Thread][k - 1]]
  BY Zenon DEF Content
<1> HIDE DEF n
<1>3. \A k \in 1 .. n : out[Thread][k - 1] \in Bytes
  BY <1>1, SMTT(30)
<1>4. Content \in [1 .. n -> Bytes]
  BY <1>2, <1>3, Zenon
<1> QED
  BY <1>1, <1>4, FunctionIsSeq, Zenon DEF n

LEMMA BacklogTyped ==
  ASSUME backlog \in Seq(Utilities)
  PROVE  /\ Len(backlog) \in Nat /\ DOMAIN backlog = 1 .. Len(backlog)
         /\ Waiting = {backlog[i] : i \in 1 .. Len(backlog)} /\ Waiting \subseteq Utilities
         /\ backlog # <<>> =>
              /\ Head(backlog) \in Utilities /\ Tail(backlog) \in Seq(Utilities)
              /\ Len(backlog) >= 1 /\ Len(Tail(backlog)) = Len(backlog) - 1
              /\ Head(backlog) = backlog[1]
              /\ \A i \in 1 .. Len(backlog) - 1 : Tail(backlog)[i] = backlog[i + 1]
<1>1. Len(backlog) \in Nat /\ DOMAIN backlog = 1 .. Len(backlog)
  OBVIOUS
<1>2. \A i \in 1 .. Len(backlog) : backlog[i] \in Utilities
  OBVIOUS
<1>3. ASSUME backlog # <<>>
      PROVE  /\ Head(backlog) \in Utilities /\ Tail(backlog) \in Seq(Utilities)
             /\ Len(backlog) >= 1 /\ Len(Tail(backlog)) = Len(backlog) - 1
             /\ Head(backlog) = backlog[1]
             /\ \A i \in 1 .. Len(backlog) - 1 : Tail(backlog)[i] = backlog[i + 1]
  BY <1>3, <1>1, SMTT(30)
<1> QED
  BY <1>1, <1>2, <1>3, Zenon DEF Waiting

\* The reads of the thread fit its buffer.
LEMMA ReadFitsStep ==
  ASSUME BoundsInv, ReadFits, [ServerNext]_servervars
  PROVE  ReadFits'
<1>0. /\ Thread \in Actors /\ Main # Thread /\ Thread \notin Workers /\ HeaderSize <= cur_size
      /\ pc \in [Actors -> PCs] /\ local \in [Actors -> Nat] /\ copied \in [Actors -> Nat]
  BY TransferAssumption, ServerAssumption, Zenon DEF Workers, BoundsInv, TypeOK, WithinBounds
<1>1. ASSUME pc'[Thread] = pc[Thread], local'[Thread] = local[Thread] PROVE ReadFits'
  BY <1>1, Zenon DEF ReadFits
<1>2. CASE UNCHANGED vars
  BY <1>1, <1>2, Zenon DEF vars
<1>3. ASSUME NEW a \in Actors, a # Thread, CallWrite(a) \/ WriteStep(a) PROVE ReadFits'
  <2>1. pc'[Thread] = pc[Thread] /\ local'[Thread] = local[Thread]
    BY <1>0, <1>3, Zenon DEF CallWrite, WriteStep, LockFails, UnlockFails, WriteLock, WriteCopy,
       WriteSize, Return, Goto, BeginCopy, ReturnEarly
  <2> QED
    BY <1>1, <2>1, Zenon
<1>4. CASE WriteHello
  BY <1>0, <1>3, <1>4, ServerAssumption, Zenon DEF WriteHello
<1>5. ASSUME NEW w \in Workers, WorkerWrites(w) PROVE ReadFits'
  <2>1. w \in Actors /\ w # Thread
    BY Zenon DEF Workers
  <2>2. CallWrite(w) \/ WriteStep(w)
    BY <1>5, Zenon DEF WorkerWrites, WriteStep
  <2> QED
    BY <1>3, <2>1, <2>2, Zenon
<1>6. CASE ReadStep(Thread)
  <2>1. CASE ReadLock(Thread)
    <3>1. \/ pc'[Thread] = "idle"
          \/ pc'[Thread] = "read_copy" /\ local'[Thread] = cur_size /\ cur_size <= BufferSize
      <4>1. BufferSize >= cur_size => cur_size <= BufferSize
        BY SizeAssumption, SMTT(30) DEF BoundsInv, TypeOK
      <4> QED
        BY <1>0, <2>1, <4>1, Zenon DEF ReadLock, Goto, BeginCopy, ReturnEarly
    <3> QED
      BY <1>0, <3>1, Zenon DEF ReadFits
  <2>2. CASE ReadCopy(Thread) \/ ReadDone(Thread)
    BY <1>0, <2>2, Zenon DEF ReadCopy, ReadDone, ReadFits, Goto
  <2>3. CASE CallRead(Thread) \/ Return(Thread) \/ LockFails(Thread) \/ UnlockFails(Thread)
    <3>1. pc'[Thread] \in {"idle", "read_lock"}
      BY <1>0, <2>3, Zenon DEF CallRead, Return, LockFails, UnlockFails, Goto
    <3> QED
      BY <3>1, Zenon DEF ReadFits
  <2> QED
    BY <1>6, <2>1, <2>2, <2>3, Zenon DEF ReadStep
<1>7. UNCHANGED servervars => UNCHANGED vars
  BY Zenon DEF servervars
<1> QED
  BY <1>2, <1>4, <1>5, <1>6, <1>7, ServerSteps, Zenon

SocketInv == TransferTypes /\ Sockets

\* The three outcomes of a step of journal_read.
LEMMA ReadOutcomes ==
  ASSUME ReadFits, ReadJournal
  PROVE  \/ UNCHANGED <<thread, client_sockfd, conn, journal_content>>
         \/ /\ pc[Thread] = "read_unlock" /\ thread' = "send" /\ UNCHANGED <<client_sockfd, conn>>
            /\ journal_content' = [journal_content EXCEPT ![client_sockfd] = Content]
         \/ Abandon /\ UNCHANGED journal_content
BY Zenon DEF ReadFits, ReadJournal, Return

\* The steps of the thread keep the types and the sockets.
LEMMA ReceiverSockets ==
  ASSUME SocketInv, BoundsInv, ReadFits, Receiver \/ ReadJournal
  PROVE  SocketInv'
<1> USE DEF Serving
<1>0. /\ TransferTypes /\ Sockets
      /\ NoUtility \notin Utilities /\ "reset" \in Connections /\ "closed" \in Connections
      /\ "cut" \in Connections
  BY TransferAssumption, Zenon DEF SocketInv, Connections
<1>a. /\ Len(backlog) \in Nat /\ DOMAIN backlog = 1 .. Len(backlog)
      /\ Waiting = {backlog[i] : i \in 1 .. Len(backlog)} /\ Waiting \subseteq Utilities
  BY <1>0, BacklogTyped, Zenon DEF TransferTypes
<1>1. CASE Listen
  <2>1. /\ thread = "socket" /\ thread' \in {"accept", "ended"} /\ listening' \in BOOLEAN
        /\ UNCHANGED <<client_sockfd, journal_content, bytes_sent, backlog, conn, stream, util, file, unflushed>>
    BY <1>0, <1>1, Zenon DEF Listen, utilvars, TransferTypes
  <2>2. Waiting' = Waiting
    BY <2>1, Zenon DEF Waiting
  <2>3. TransferTypes'
    BY <1>0, <2>1, Zenon DEF TransferTypes
  <2>4. Sockets'
    BY <1>0, <2>1, <2>2, Zenon DEF Sockets
  <2> QED
    BY <2>3, <2>4, Zenon DEF SocketInv
<1>2. CASE Accept
  <2>1. /\ thread = "accept" /\ thread' = "accepted" /\ backlog # <<>>
        /\ client_sockfd' = Head(backlog) /\ backlog' = Tail(backlog)
        /\ UNCHANGED <<listening, journal_content, bytes_sent, conn, stream, util, file, unflushed>>
    BY <1>2, Zenon DEF Accept, utilvars
  <2>2. /\ Head(backlog) \in Utilities /\ Tail(backlog) \in Seq(Utilities)
        /\ Len(backlog) >= 1 /\ Len(Tail(backlog)) = Len(backlog) - 1
        /\ Head(backlog) = backlog[1]
        /\ \A i \in 1 .. Len(backlog) - 1 : Tail(backlog)[i] = backlog[i + 1]
    BY <1>0, <2>1, BacklogTyped, Zenon DEF TransferTypes
  <2>3. TransferTypes'
    BY <1>0, <1>a, <2>1, <2>2, TransferAssumption, SMTT(30) DEF TransferTypes
  <2> DEFINE n == Len(backlog)
             t == Tail(backlog)
  <2>4. DOMAIN t = 1 .. n - 1 /\ Waiting' = {t[i] : i \in DOMAIN t}
    BY <1>a, <2>1, <2>2 DEF Waiting
  <2>5. \A i \in 1 .. n - 1 : i + 1 \in 1 .. n /\ i + 1 # 1 /\ t[i] = backlog[i + 1]
    BY <1>a, <2>2
  <2>6. 1 \in 1 .. n /\ \A i, j \in 1 .. n - 1 : i + 1 = j + 1 => i = j
    BY <1>a, <2>2
  <2>7. Sockets'
    <3>1. client_sockfd' \in Utilities /\ conn'[client_sockfd'] = "open"
      BY <1>0, <1>a, <2>1, <2>2, <2>6, Zenon DEF Sockets
    <3>2. \A i, j \in 1 .. n : backlog[i] = backlog[j] => i = j
      BY <1>0, <1>a, Zenon DEF Sockets
    <3>3. client_sockfd' \notin Waiting'
      <4>1. \A i \in 1 .. n - 1 : t[i] # backlog[1]
        BY <2>5, <2>6, <3>2, Zenon
      <4> QED
        BY <2>1, <2>2, <2>4, <4>1, Zenon
    <3>4. \A i \in DOMAIN backlog' : conn'[backlog'[i]] = "open"
      BY <1>0, <1>a, <2>1, <2>4, <2>5 DEF Sockets
    <3>5. \A i, j \in DOMAIN backlog' : backlog'[i] = backlog'[j] => i = j
      <4> HIDE DEF n, t
      <4> SUFFICES ASSUME NEW i \in 1 .. n - 1, NEW j \in 1 .. n - 1, t[i] = t[j] PROVE i = j
        BY <2>1, <2>4, Zenon DEF t
      <4>1. backlog[i + 1] = backlog[j + 1]
        BY <2>5, Zenon
      <4> QED
        BY ONLY <2>5, <2>6, <3>2, <4>1, Zenon
    <3>6. bytes_sent' = 0
      BY <1>0, <2>1, Zenon DEF Sockets
    <3> QED
      BY <2>1, <3>1, <3>3, <3>4, <3>5, <3>6, Zenon DEF Sockets
  <2> QED
    BY <2>3, <2>7, Zenon DEF SocketInv
<1>3. CASE AcceptFails \/ CloseSocket
  <2>1. /\ \/ thread = "accept" /\ thread' = "ended"
           \/ thread = "accepted" /\ thread' = "malloc"
        /\ listening' = FALSE /\ backlog' = <<>>
        /\ conn' = [u \in Utilities |-> IF u \in Waiting THEN "reset" ELSE conn[u]]
        /\ UNCHANGED <<client_sockfd, journal_content, bytes_sent, stream, util, file, unflushed>>
    BY <1>3, Zenon DEF AcceptFails, CloseSocket, CloseListening, Reset, utilvars
  <2>2. TransferTypes'
    <3>1. <<>> \in Seq(Utilities) /\ Len(<<>>) = 0 /\ 0 <= Backlog + 1
      BY TransferAssumption
    <3>2. thread' \in {"ended", "malloc"} /\ conn' \in [Utilities -> Connections]
      BY <1>0, <2>1, Zenon DEF TransferTypes
    <3>3. listening' \in BOOLEAN /\ backlog' \in Seq(Utilities) /\ Len(backlog') <= Backlog + 1
      BY ONLY <2>1, <3>1, Zenon
    <3>4. /\ client_sockfd' \in Utilities \cup {NoUtility}
          /\ journal_content' \in [Utilities -> Seq(Bytes)]
          /\ bytes_sent' \in Nat
          /\ stream' \in [Utilities -> Seq(Bytes)]
          /\ util' \in [Utilities -> Done \cup {"start", "trigger", "open", "recv"}]
          /\ file' \in [Utilities -> Seq(Bytes)]
          /\ unflushed' \in [Utilities -> Seq(Bytes)]
      BY <1>0, <2>1, Zenon DEF TransferTypes
    <3> QED
      BY ONLY <3>2, <3>3, <3>4, Zenon DEF TransferTypes
  <2>3. Waiting' = {} /\ DOMAIN backlog' = {}
    BY <2>1 DEF Waiting
  <2>4. Sockets'
    BY <1>0, <2>1, <2>3, Zenon DEF Sockets
  <2> QED
    BY <2>2, <2>4, Zenon DEF SocketInv
<1>4. ASSUME Abandon, thread \in Serving, bytes_sent' = bytes_sent, bytes_sent = 0,
             UNCHANGED <<journal_content, listening, backlog, stream, util, file, unflushed>>
      PROVE  SocketInv'
  <2>1. /\ thread' = "ended" /\ client_sockfd' = NoUtility
        /\ conn' = [u \in Utilities |-> IF u \in {client_sockfd} THEN "reset" ELSE conn[u]]
    BY <1>4, Zenon DEF Abandon, Reset
  <2>2. TransferTypes'
    BY <1>0, <1>4, <2>1, Zenon DEF TransferTypes
  <2>3. Waiting' = Waiting
    BY <1>4, Zenon DEF Waiting
  <2>4. \A i \in DOMAIN backlog : backlog[i] # client_sockfd /\ backlog[i] \in Utilities
    BY <1>0, <1>4, <1>a, Zenon DEF Sockets
  <2>5. Sockets'
    BY <1>0, <1>4, <2>1, <2>4, Zenon DEF Sockets
  <2> QED
    BY <2>2, <2>5, Zenon DEF SocketInv
<1>5. CASE Allocate
  <2>1. bytes_sent = 0 /\ thread \in Serving
    BY <1>0, <1>5, Zenon DEF Allocate, Sockets
  <2>2. CASE Abandon
    BY <1>4, <1>5, <2>1, <2>2, Zenon DEF Allocate, utilvars
  <2>3. CASE ~Abandon
    <3>1. /\ thread = "malloc" /\ thread' = "read"
          /\ UNCHANGED <<client_sockfd, conn, journal_content, bytes_sent, listening,
                         backlog, stream, util, file, unflushed>>
      BY <1>5, <2>3, Zenon DEF Allocate, utilvars
    <3>2. Waiting' = Waiting
      BY <3>1, Zenon DEF Waiting
    <3> QED
      BY <1>0, <3>1, <3>2, Zenon DEF SocketInv, TransferTypes, Sockets
  <2> QED
    BY <2>2, <2>3, Zenon
<1>6. CASE ReadJournal
  <2>0. /\ UNCHANGED <<bytes_sent, listening, backlog, stream, util, file, unflushed>> /\ thread = "read"
        /\ bytes_sent = 0 /\ client_sockfd \in Utilities
    BY <1>0, <1>6, Zenon DEF ReadJournal, utilvars, Sockets
  <2>1. CASE UNCHANGED <<thread, client_sockfd, conn, journal_content>>
    <3>1. Waiting' = Waiting
      BY <2>0, Zenon DEF Waiting
    <3> QED
      BY <1>0, <2>0, <2>1, <3>1, Zenon DEF SocketInv, TransferTypes, Sockets
  <2>2. CASE /\ pc[Thread] = "read_unlock" /\ thread' = "send" /\ UNCHANGED <<client_sockfd, conn>>
             /\ journal_content' = [journal_content EXCEPT ![client_sockfd] = Content]
    <3>1. Content \in Seq(Bytes)
      BY <2>2, ContentTyped, Zenon
    <3>2. Waiting' = Waiting
      BY <2>0, Zenon DEF Waiting
    <3>3. TransferTypes'
      BY <1>0, <2>0, <2>2, <3>1, Zenon DEF TransferTypes
    <3>4. Sockets'
      BY <1>0, <2>0, <2>2, <3>2, Zenon DEF Sockets
    <3> QED
      BY <3>3, <3>4, Zenon DEF SocketInv
  <2>3. CASE Abandon /\ UNCHANGED journal_content
    BY <1>4, <2>0, <2>3, Zenon
  <2> QED
    BY <1>6, <2>1, <2>2, <2>3, ReadOutcomes, Zenon
<1>7. CASE SendByte
  <2> DEFINE c == client_sockfd
             b == journal_content[c][bytes_sent + 1]
  <2>1. /\ thread = "send" /\ bytes_sent < Len(journal_content[c])
        /\ stream' = [stream EXCEPT ![c] = Append(@, b)]
        /\ bytes_sent' = bytes_sent + 1
        /\ UNCHANGED <<thread, client_sockfd, journal_content, listening, backlog, conn, util, file, unflushed>>
    BY <1>7, Zenon DEF SendByte, utilvars
  <2>2. c \in Utilities
    BY <1>0, <2>1, Zenon DEF Sockets
  <2>3. b \in Bytes
    <3>1. journal_content[c] \in Seq(Bytes) /\ bytes_sent + 1 \in 1 .. Len(journal_content[c])
      BY <1>0, <2>1, <2>2, SMTT(30) DEF TransferTypes
    <3> QED
      BY <3>1
  <2>4. Append(stream[c], b) \in Seq(Bytes)
    BY <1>0, <2>2, <2>3 DEF TransferTypes
  <2> HIDE DEF b
  <2>5. TransferTypes'
    BY <1>0, <2>1, <2>2, <2>4, SMTT(30) DEF TransferTypes
  <2>6. Waiting' = Waiting
    BY <2>1, Zenon DEF Waiting
  <2>7. Sockets'
    BY <1>0, <2>1, <2>6, Zenon DEF Sockets
  <2> QED
    BY <2>5, <2>7, Zenon DEF SocketInv
<1>8. CASE SendReturns
  <2>1. /\ thread = "send" /\ thread' = "socket" /\ client_sockfd' = NoUtility /\ bytes_sent' = 0
        /\ conn' = [conn EXCEPT ![client_sockfd] = IF AllSent THEN "closed" ELSE "cut"]
        /\ UNCHANGED <<journal_content, listening, backlog, stream, util, file, unflushed>>
    BY <1>8, Zenon DEF SendReturns, utilvars
  <2>2. client_sockfd \in Utilities
    BY <1>0, <2>1, Zenon DEF Sockets
  <2>3. TransferTypes'
    BY <1>0, <2>1, <2>2, Zenon DEF TransferTypes
  <2>4. \A i \in DOMAIN backlog : backlog[i] # client_sockfd /\ backlog[i] \in Utilities
    BY <1>0, <1>a, <2>2, Zenon DEF Sockets
  <2>5. \A i \in DOMAIN backlog : conn'[backlog[i]] = "open"
    BY <1>0, <2>1, <2>2, <2>4, Zenon DEF Sockets, TransferTypes
  <2>6. Sockets'
    BY <1>0, <2>1, <2>5, Zenon DEF Sockets
  <2> QED
    BY <2>3, <2>6, Zenon DEF SocketInv
<1>9. CASE SendFails
  BY <1>4, <1>9, Zenon DEF SendFails, utilvars
<1> QED
  BY <1>1, <1>2, <1>3, <1>5, <1>6, <1>7, <1>8, <1>9, Zenon DEF Receiver

\* So do the steps of a utility.
LEMMA UtilitySockets ==
  ASSUME SocketInv, NEW u \in Utilities, Flow(u), Utility(u)
  PROVE  SocketInv'
<1>0. /\ TransferTypes /\ Sockets /\ "open" \in Connections
      /\ \A l \in {"trigger", "open", "recv", "ok", "failed", "killed"} :
           l \in Done \cup {"start", "trigger", "open", "recv"}
  BY Zenon DEF SocketInv, Connections, Done
<1>a. /\ Len(backlog) \in Nat /\ DOMAIN backlog = 1 .. Len(backlog)
      /\ Waiting = {backlog[i] : i \in 1 .. Len(backlog)} /\ Waiting \subseteq Utilities
  BY <1>0, BacklogTyped, Zenon DEF TransferTypes
<1>b. UNCHANGED <<thread, client_sockfd, journal_content, bytes_sent, listening>>
  BY Zenon DEF Utility, Connect, SendTrigger, OpenFile, ReceiveBytes, ReceiveEnd, threadvars, sockets
<1>c. ASSUME UNCHANGED <<backlog, conn>>, stream' \in [Utilities -> Seq(Bytes)],
             util' \in [Utilities -> Done \cup {"start", "trigger", "open", "recv"}],
             file' \in [Utilities -> Seq(Bytes)], unflushed' \in [Utilities -> Seq(Bytes)]
      PROVE  SocketInv'
  <2>1. Waiting' = Waiting
    BY <1>c, Zenon DEF Waiting
  <2>2. TransferTypes'
    BY <1>0, <1>b, <1>c, Zenon DEF TransferTypes
  <2>3. Sockets'
    BY <1>0, <1>b, <1>c, <2>1, Zenon DEF Sockets
  <2> QED
    BY <2>2, <2>3, Zenon DEF SocketInv
<1>1. CASE Connect(u) /\ conn' = conn
  <2>1. UNCHANGED <<backlog, conn, stream, file, unflushed>> /\ util' = [util EXCEPT ![u] = "failed"]
    <3>1. conn[u] = "none" /\ util[u] = "start"
      BY <1>1, Zenon DEF Connect, Flow
    <3>2. conn' # [conn EXCEPT ![u] = "open"]
      BY <1>0, <1>1, <3>1, Zenon DEF TransferTypes
    <3> QED
      BY <1>1, <3>2, Zenon DEF Connect
  <2> QED
    BY <1>0, <1>c, <2>1, Zenon DEF TransferTypes
<1>2. CASE Connect(u) /\ conn' # conn
  <2>1. /\ util[u] = "start" /\ Len(backlog) <= Backlog /\ backlog' = Append(backlog, u)
        /\ conn' = [conn EXCEPT ![u] = "open"] /\ util' = [util EXCEPT ![u] = "trigger"]
        /\ UNCHANGED <<stream, file, unflushed>>
    BY <1>2, Zenon DEF Connect
  <2>2. conn[u] = "none"
    BY <2>1, Zenon DEF Flow
  <2> DEFINE n == Len(backlog)
             t == Append(backlog, u)
  <2>3. /\ t \in Seq(Utilities) /\ Len(t) = n + 1 /\ t[n + 1] = u
        /\ \A i \in 1 .. n : t[i] = backlog[i]
    BY <1>0 DEF TransferTypes
  <2>4. DOMAIN t = 1 .. n + 1 /\ \A i \in 1 .. n + 1 : i \in 1 .. n \/ i = n + 1
    BY <1>a, <2>3
  <2>5. \A i \in 1 .. n : backlog[i] # u /\ conn[backlog[i]] = "open" /\ backlog[i] \in Utilities
    BY <1>0, <1>a, <2>2, Zenon DEF Sockets
  <2>6. TransferTypes'
    <3>1. Len(t) <= Backlog + 1
      BY <1>a, <2>1, <2>3, TransferAssumption, SMTT(30)
    <3>2. /\ conn' \in [Utilities -> Connections]
          /\ util' \in [Utilities -> Done \cup {"start", "trigger", "open", "recv"}]
      BY <1>0, <2>1, Zenon DEF TransferTypes
    <3> HIDE DEF t
    <3> QED
      BY <1>0, <1>b, <2>1, <2>3, <3>1, <3>2, Zenon DEF TransferTypes, t
  <2> HIDE DEF n, t
  <2>7. \A v \in Utilities : conn'[v] = IF v = u THEN "open" ELSE conn[v]
    BY <1>0, <2>1, Zenon DEF TransferTypes
  <2>8. Sockets'
    <3>1. \A i \in DOMAIN t : conn'[t[i]] = "open"
      BY <2>3, <2>4, <2>5, <2>7, SMTT(30)
    <3>2. ASSUME NEW i \in DOMAIN t, NEW j \in DOMAIN t, t[i] = t[j] PROVE i = j
      <4>1. \A k, l \in 1 .. n : backlog[k] = backlog[l] => k = l
        BY <1>0, <1>a, Zenon DEF Sockets, n
      <4> QED
        BY <2>3, <2>4, <2>5, <3>2, <4>1
    <3>3. client_sockfd \in Utilities =>
            /\ conn'[client_sockfd] = "open" /\ client_sockfd # u
            /\ \A i \in DOMAIN t : client_sockfd # t[i]
      <4> SUFFICES ASSUME client_sockfd \in Utilities
                   PROVE  /\ conn'[client_sockfd] = "open" /\ client_sockfd # u
                          /\ \A i \in DOMAIN t : client_sockfd # t[i]
        BY Zenon
      <4>1. conn[client_sockfd] = "open" /\ \A i \in 1 .. n : client_sockfd # backlog[i]
        BY <1>0, <1>a, Zenon DEF Sockets, n
      <4>2. client_sockfd # u
        BY <2>2, <4>1, Zenon
      <4> QED
        BY <2>3, <2>4, <2>7, <4>1, <4>2, Zenon
    <3>4. Waiting' = {t[i] : i \in DOMAIN t} /\ backlog' = t
      BY <2>1, Zenon DEF Waiting, t
    <3>5. client_sockfd \in Utilities => client_sockfd \notin Waiting'
      BY <3>3, <3>4, Zenon
    <3>6. /\ thread \in Serving <=> client_sockfd \in Utilities
          /\ thread # "send" => bytes_sent = 0
      BY <1>0, Zenon DEF Sockets
    <3> QED
      BY <1>b, <3>1, <3>2, <3>3, <3>4, <3>5, <3>6, Zenon DEF Sockets
  <2> QED
    BY <2>6, <2>8, Zenon DEF SocketInv
<1>3. CASE SendTrigger(u)
  <2>1. /\ UNCHANGED <<backlog, conn, stream, file, unflushed>>
        /\ \E l \in {"open", "killed", "failed"} : util' = [util EXCEPT ![u] = l]
    BY <1>3, Zenon DEF SendTrigger, sockets
  <2> QED
    BY <1>0, <1>c, <2>1, Zenon DEF TransferTypes
<1>4. CASE OpenFile(u)
  <2>1. /\ UNCHANGED <<backlog, conn, stream, unflushed>>
        /\ \/ util' = [util EXCEPT ![u] = "recv"] /\ file' = [file EXCEPT ![u] = <<>>]
           \/ util' = [util EXCEPT ![u] = "failed"] /\ UNCHANGED file
    BY <1>4, Zenon DEF OpenFile, sockets
  <2>2. <<>> \in Seq(Bytes)
    OBVIOUS
  <2> QED
    BY <1>0, <1>c, <2>1, <2>2, Zenon DEF TransferTypes
<1>5. CASE ReceiveBytes(u)
  <2>1. /\ UNCHANGED <<backlog, conn, file>> /\ stream' = [stream EXCEPT ![u] = <<>>]
        /\ util' = util \/ util' = [util EXCEPT ![u] = "failed"]
        /\ \E t \in {unflushed[u] \o stream[u], <<>>} : unflushed' = [unflushed EXCEPT ![u] = t]
    BY <1>5, Zenon DEF ReceiveBytes
  <2>2. <<>> \in Seq(Bytes) /\ unflushed[u] \o stream[u] \in Seq(Bytes)
    BY <1>0 DEF TransferTypes
  <2>3. unflushed' \in [Utilities -> Seq(Bytes)]
    <3>1. \A t \in Seq(Bytes) : [unflushed EXCEPT ![u] = t] \in [Utilities -> Seq(Bytes)]
      BY <1>0, Zenon DEF TransferTypes
    <3> QED
      BY <2>1, <2>2, <3>1, Zenon
  <2> QED
    BY <1>0, <1>c, <2>1, <2>2, <2>3, Zenon DEF TransferTypes
<1>6. CASE ReceiveEnd(u)
  <2> DEFINE s == unflushed[u]
  <2>1. PICK k \in 0 .. Len(s) : /\ file' = [file EXCEPT ![u] = SubSeq(s, 1, k)]
                                /\ unflushed' = [unflushed EXCEPT ![u] = SubSeq(s, k + 1, Len(s))]
    BY <1>6, Zenon DEF ReceiveEnd
  <2>2. UNCHANGED <<backlog, conn, stream>> /\ \E l \in {"ok", "failed"} : util' = [util EXCEPT ![u] = l]
    BY <1>6, Zenon DEF ReceiveEnd, sockets
  <2>3. SubSeq(s, 1, k) \in Seq(Bytes) /\ SubSeq(s, k + 1, Len(s)) \in Seq(Bytes)
    BY <1>0, SubSeqParts, Zenon DEF TransferTypes
  <2> HIDE DEF s
  <2>4. file' \in [Utilities -> Seq(Bytes)] /\ unflushed' \in [Utilities -> Seq(Bytes)]
    BY <1>0, <2>1, <2>3, Zenon DEF TransferTypes
  <2> QED
    BY <1>0, <1>c, <2>2, <2>4, Zenon DEF TransferTypes
<1> QED
  BY <1>1, <1>2, <1>3, <1>4, <1>5, <1>6, Zenon DEF Utility

LEMMA SocketStep ==
  ASSUME SocketInv, FlowInv, BoundsInv, ReadFits, Alone, [ServerNext]_servervars
  PROVE  SocketInv'
<1>0. /\ TransferTypes /\ Sockets
      /\ NoUtility \notin Utilities /\ "reset" \in Connections /\ Backlog \in Nat
  BY TransferAssumption, Zenon DEF SocketInv, Connections
<1>1. CASE UNCHANGED transfervars
  <2>1. UNCHANGED <<thread, listening, backlog, client_sockfd, conn, journal_content, bytes_sent,
                    stream, util, file, unflushed>>
    BY <1>1, Zenon DEF transfervars, threadvars, sockets, utilvars
  <2>2. Waiting' = Waiting
    BY <2>1, Zenon DEF Waiting
  <2> QED
    BY <1>0, <2>1, <2>2, Zenon DEF SocketInv, TransferTypes, Sockets
<1>2. CASE /\ main = "thread" /\ thread' = "socket"
           /\ UNCHANGED <<client_sockfd, journal_content, bytes_sent, sockets, utilvars>>
  <2>1. /\ UNCHANGED <<listening, backlog, client_sockfd, conn, journal_content, bytes_sent,
                       stream, util, file, unflushed>>
        /\ thread = "none"
    BY <1>2, Zenon DEF sockets, utilvars, Alone
  <2>2. Waiting' = Waiting
    BY <2>1, Zenon DEF Waiting
  <2>3. Sockets'
    BY <1>0, <1>2, <2>1, <2>2, Zenon DEF Sockets, Serving
  <2> QED
    BY <1>0, <1>2, <2>1, <2>3, Zenon DEF SocketInv, TransferTypes
<1>3. CASE ProcessEnds
  <2>1. /\ thread' = "gone" /\ client_sockfd' = NoUtility /\ bytes_sent' = 0 /\ listening' = FALSE
        /\ backlog' = <<>>
        /\ conn' = [v \in Utilities |-> IF v \in {u \in Utilities : conn[u] = "open"} THEN "reset"
                                        ELSE conn[v]]
        /\ UNCHANGED <<journal_content, stream, util, file, unflushed>>
    BY <1>3, Zenon DEF ProcessEnds, Reset, utilvars
  <2>2. <<>> \in Seq(Utilities) /\ Len(<<>>) = 0 /\ 0 <= Backlog + 1
    BY <1>0
  <2>3. backlog' \in Seq(Utilities) /\ Len(backlog') <= Backlog + 1
    BY <2>1, <2>2, Zenon
  <2>4. conn' \in [Utilities -> Connections]
    BY <1>0, <2>1, Zenon DEF TransferTypes
  <2>5. TransferTypes'
    BY <1>0, <2>1, <2>3, <2>4, Zenon DEF TransferTypes
  <2>6. DOMAIN backlog' = {}
    BY <2>1
  <2>7. Sockets'
    BY <1>0, <2>1, <2>6, Zenon DEF Sockets, Serving
  <2> QED
    BY <2>5, <2>7, Zenon DEF SocketInv
<1> QED
  BY <1>1, <1>2, <1>3, TransferSteps, ReceiverSockets, UtilitySockets, Zenon DEF FlowInv

LEMMA FlowKeeps ==
  ASSUME NEW u, Flow(u), util'[u] = util[u], file'[u] = file[u], unflushed'[u] = unflushed[u],
         stream'[u] = stream[u], conn'[u] = conn[u], journal_content'[u] = journal_content[u],
         Sending(u)' <=> Sending(u), Sending(u) => bytes_sent' = bytes_sent,
         main = "ended" => main' = "ended"
  PROVE  Flow(u)'
<1>1. Came(u)' = Came(u)
  BY Zenon DEF Came
<1>2. Saved(u) => Saved(u)'
  BY Zenon DEF Saved, Truncated, PrefixOf
<1> QED
  BY <1>1, <1>2, Zenon DEF Flow

\* A connection that is reset before the first byte carried none.
LEMMA FlowResets ==
  ASSUME NEW u, Flow(u), util'[u] = util[u], unflushed'[u] = unflushed[u], stream'[u] = stream[u],
         conn[u] = "open", conn'[u] = "reset", journal_content'[u] = journal_content[u],
         ~Sending(u)', main' = "ended" \/ (Sending(u) => bytes_sent = 0)
  PROVE  Flow(u)'
<1>1. Came(u)' = Came(u)
  BY Zenon DEF Came
<1>2. util[u] \notin Done /\ main' # "ended" => Came(u) = 0
  BY Zenon DEF Flow
<1> QED
  BY <1>1, <1>2, Zenon DEF Flow

\* The steps of the thread.
LEMMA ReceiverFlow ==
  ASSUME SocketInv, FlowInv, BoundsInv, ReadFits, Receiver \/ ReadJournal, main' = main,
         NEW u \in Utilities
  PROVE  Flow(u)'
<1>0. /\ TransferTypes /\ Sockets /\ Flow(u) /\ NoUtility \notin Utilities
      /\ UNCHANGED <<util, file, unflushed>>
  BY TransferAssumption, Zenon DEF SocketInv, FlowInv, Receiver, Listen, Accept, AcceptFails, CloseSocket,
     Allocate, SendByte, SendReturns, SendFails, ReadJournal, utilvars
<1>a. Sending(u) <=> thread = "send" /\ client_sockfd = u
  BY Zenon DEF Sending
<1>b. Sending(u)' <=> thread' = "send" /\ client_sockfd' = u
  BY Zenon DEF Sending
<1>c. client_sockfd = u => conn[u] = "open"
  BY <1>0, Zenon DEF Sockets
<1>1. CASE Listen \/ Accept
  <2>1. /\ UNCHANGED <<journal_content, conn, stream>>
        /\ thread \in {"socket", "accept"} /\ thread' \in {"accept", "ended", "accepted"}
    BY <1>1, Zenon DEF Listen, Accept
  <2> QED
    BY <1>0, <1>a, <1>b, <2>1, FlowKeeps, Zenon
<1>2. CASE AcceptFails \/ CloseSocket
  <2>1. /\ UNCHANGED <<journal_content, stream>>
        /\ thread # "send" /\ thread' # "send"
        /\ conn' = [v \in Utilities |-> IF v \in Waiting THEN "reset" ELSE conn[v]]
    BY <1>2, Zenon DEF AcceptFails, CloseSocket, CloseListening, Reset
  <2>2. CASE u \in Waiting
    <3>1. conn[u] = "open" /\ conn'[u] = "reset"
      BY <1>0, <2>1, <2>2, Zenon DEF Sockets, Waiting
    <3> QED
      BY <1>0, <1>a, <1>b, <2>1, <3>1, FlowResets, Zenon
  <2>3. CASE u \notin Waiting
    BY <1>0, <1>a, <1>b, <2>1, <2>3, FlowKeeps, Zenon
  <2> QED
    BY <2>2, <2>3, Zenon
<1>3. ASSUME Abandon, bytes_sent = 0, UNCHANGED <<journal_content, stream>>
      PROVE  Flow(u)'
  <2>1. /\ thread' = "ended"
        /\ conn'[u] = IF u = client_sockfd THEN "reset" ELSE conn[u]
    BY <1>3, Zenon DEF Abandon, Reset
  <2>2. CASE u = client_sockfd
    BY <1>0, <1>3, <1>b, <1>c, <2>1, <2>2, FlowResets, Zenon
  <2>3. CASE u # client_sockfd
    BY <1>0, <1>3, <1>a, <1>b, <2>1, <2>3, FlowKeeps, Zenon
  <2> QED
    BY <2>2, <2>3, Zenon
<1>4. CASE Allocate
  <2>1. bytes_sent = 0
    BY <1>0, <1>4, Zenon DEF Allocate, Sockets
  <2>2. CASE Abandon
    BY <1>3, <1>4, <2>1, <2>2, Zenon DEF Allocate
  <2>3. CASE ~Abandon
    <3>1. UNCHANGED <<conn, journal_content, stream>> /\ thread = "malloc" /\ thread' = "read"
      BY <1>4, <2>3, Zenon DEF Allocate
    <3> QED
      BY <1>0, <1>a, <1>b, <3>1, FlowKeeps, Zenon
  <2> QED
    BY <2>2, <2>3, Zenon
<1>5. CASE ReadJournal
  <2>0. UNCHANGED stream /\ bytes_sent' = bytes_sent /\ thread = "read" /\ bytes_sent = 0
    BY <1>0, <1>5, Zenon DEF ReadJournal, Sockets
  <2>1. CASE UNCHANGED <<thread, client_sockfd, conn, journal_content>>
    BY <1>0, <1>a, <1>b, <2>0, <2>1, FlowKeeps, Zenon
  <2>2. CASE /\ pc[Thread] = "read_unlock" /\ thread' = "send" /\ UNCHANGED <<client_sockfd, conn>>
             /\ journal_content' = [journal_content EXCEPT ![client_sockfd] = Content]
    <3>1. /\ thread' = "send" /\ UNCHANGED <<client_sockfd, conn>>
          /\ journal_content' = [journal_content EXCEPT ![client_sockfd] = Content]
      BY <2>2, Zenon
    <3>2. CASE u # client_sockfd
      <4>1. journal_content'[u] = journal_content[u]
        BY <1>0, <3>1, <3>2, Zenon DEF TransferTypes
      <4> QED
        BY <1>0, <1>a, <1>b, <2>0, <3>1, <3>2, <4>1, FlowKeeps, Zenon
    <3>3. CASE u = client_sockfd
      <4>1. journal_content'[u] = Content /\ Len(Content) \in Nat
        BY <1>0, <2>2, <3>1, <3>3, ContentTyped DEF TransferTypes
      <4>2. Came(u)' = Came(u)
        BY <1>0, <2>0, Zenon DEF Came
      <4>3. util[u] \notin Done => Came(u) = 0
        BY <1>0, <1>a, <1>c, <2>0, <3>3, Zenon DEF Flow
      <4>4. Len(unflushed[u]) \in Nat /\ Len(stream[u]) \in Nat
        BY <1>0 DEF TransferTypes
      <4>5. Came(u) = 0 => Len(unflushed[u]) = 0 /\ Len(stream[u]) = 0
        <5> DEFINE a == Len(unflushed[u])
                   b == Len(stream[u])
        <5>1. a \in Nat /\ b \in Nat /\ Came(u) = a + b
          BY <4>4, Zenon DEF Came
        <5>2. a + b = 0 => a = 0 /\ b = 0
          <6> HIDE DEF a, b
          <6> QED
            BY ONLY <5>1, SMTT(30)
        <5> QED
          BY <5>1, <5>2, Zenon
      <4>6. conn'[u] = "open" /\ bytes_sent' = 0 /\ Sending(u)'
        BY <1>b, <1>c, <2>0, <3>1, <3>3, Zenon
      <4>7. /\ util[u] = "start" => conn[u] = "none"
            /\ conn[u] = "none" => util[u] \in {"start", "failed"}
            /\ util[u] = "ok" => conn[u] \in {"closed", "cut", "reset"}
        BY <1>0, Zenon DEF Flow
      <4>8. /\ util'[u] = util[u] /\ stream'[u] = stream[u] /\ unflushed'[u] = unflushed[u]
            /\ conn[u] = "open"
        BY <1>0, <1>c, <2>0, <3>3, Zenon
      <4>9. Came(u) = 0 => \A i \in 1 .. Len(unflushed[u]) : FALSE
        BY <4>5, SMTT(30)
      <4>10. Came(u) = 0 => \A i \in 1 .. Len(stream[u]) : FALSE
        BY <4>5, SMTT(30)
      <4>11. 0 <= Len(Content)
        BY <4>1, SMTT(30)
      <4> QED
        BY ONLY <4>1, <4>2, <4>3, <4>6, <4>7, <4>8, <4>9, <4>10, <4>11, Zenon DEF Flow
    <3> QED
      BY <3>2, <3>3, Zenon
  <2>3. CASE Abandon /\ UNCHANGED journal_content
    BY <1>3, <2>0, <2>3, Zenon
  <2> QED
    BY <1>5, <2>1, <2>2, <2>3, ReadOutcomes, Zenon
<1>6. CASE SendByte
  <2> DEFINE b == journal_content[u][bytes_sent + 1]
  <2>1. /\ thread = "send" /\ UNCHANGED <<thread, client_sockfd, journal_content, conn>>
        /\ client_sockfd \in Utilities
    BY <1>0, <1>6, Zenon DEF SendByte, Sockets, Serving
  <2>2. CASE u # client_sockfd
    <3>1. stream'[u] = stream[u]
      BY <1>0, <1>6, <2>2, Zenon DEF SendByte, TransferTypes
    <3> QED
      BY <1>0, <1>a, <1>b, <2>1, <2>2, <3>1, FlowKeeps, Zenon
  <2>3. CASE u = client_sockfd
    <3>1. /\ util[u] \in {"trigger", "open", "recv"}
          /\ bytes_sent < Len(journal_content[u])
          /\ stream'[u] = Append(stream[u], b)
          /\ bytes_sent' = bytes_sent + 1
      BY <1>0, <1>6, <2>3, Zenon DEF SendByte, PeerOpen, TransferTypes
    <3>2. /\ stream[u] \in Seq(Bytes) /\ journal_content[u] \in Seq(Bytes)
          /\ unflushed[u] \in Seq(Bytes) /\ bytes_sent \in Nat
      BY <1>0, Zenon DEF TransferTypes
    <3> DEFINE n == Len(unflushed[u])
    <3>3. Len(stream[u]) \in Nat /\ Len(journal_content[u]) \in Nat /\ n \in Nat
      BY <3>2
    <3>4. b \in Bytes
      <4>1. bytes_sent + 1 \in 1 .. Len(journal_content[u])
        BY <3>1, <3>2, <3>3, SMTT(30)
      <4> QED
        BY <3>2, <4>1, SMTT(30)
    <3> DEFINE s == stream[u]
               t == Append(s, b)
    <3>5. /\ Len(t) = Len(s) + 1 /\ t[Len(s) + 1] = b
          /\ \A i \in 1 .. Len(s) : t[i] = s[i]
      BY <3>2, <3>4, SMTT(30)
    <3>6. util[u] \notin Done /\ util[u] # "start"
      BY <3>1, Zenon DEF Done
    <3>7. /\ Came(u) = bytes_sent /\ Came(u) = n + Len(s)
          /\ \A i \in 1 .. n : unflushed[u][i] = journal_content[u][i]
          /\ \A i \in 1 .. Len(s) : s[i] = journal_content[u][n + i]
      BY <1>0, <1>a, <2>1, <2>3, <3>6, Zenon DEF Flow, Came
    <3>8. stream'[u] = t /\ unflushed'[u] = unflushed[u] /\ Came(u)' = n + Len(t)
      BY <1>0, <3>1, Zenon DEF Came
    <3> HIDE DEF s, t, b, n
    <3>9. \A i \in 1 .. Len(t) : t[i] = journal_content[u][n + i]
      <4> SUFFICES ASSUME NEW i \in 1 .. Len(s) + 1 PROVE t[i] = journal_content[u][n + i]
        BY <3>5, Zenon
      <4>1. CASE i \in 1 .. Len(s)
        BY <3>5, <3>7, <4>1, Zenon
      <4>2. CASE i = Len(s) + 1
        <5>1. n + i = bytes_sent + 1
          BY <3>3, <3>7, <4>2, SMTT(30) DEF s
        <5> QED
          BY <3>5, <4>2, <5>1, Zenon DEF b
      <4> QED
        BY <3>3, <4>1, <4>2, SMTT(30) DEF s
    <3>10. Came(u)' = bytes_sent' /\ bytes_sent' <= Len(journal_content[u])
      BY <3>1, <3>2, <3>3, <3>5, <3>7, <3>8, SMTT(30) DEF s
    <3>11. /\ conn'[u] = "open" /\ Sending(u)' /\ journal_content'[u] = journal_content[u]
           /\ util'[u] = util[u]
      BY <1>0, <1>b, <1>c, <2>1, <2>3, Zenon
    <3>12. util'[u] \notin Done /\ util'[u] # "start" /\ util'[u] # "ok"
      BY <3>6, <3>11, Zenon DEF Done
    <3> QED
      BY ONLY <3>7, <3>8, <3>9, <3>10, <3>11, <3>12, Zenon DEF Flow, n
  <2> QED
    BY <2>2, <2>3, Zenon
<1>7. CASE SendReturns
  <2>1. /\ thread = "send" /\ thread' = "socket" /\ UNCHANGED <<journal_content, stream>>
        /\ conn' = [conn EXCEPT ![client_sockfd] = IF AllSent THEN "closed" ELSE "cut"]
    BY <1>7, Zenon DEF SendReturns
  <2>2. CASE u # client_sockfd
    <3>1. conn'[u] = conn[u]
      BY <1>0, <2>1, <2>2, Zenon DEF TransferTypes
    <3> QED
      BY <1>0, <1>a, <1>b, <2>1, <2>2, <3>1, FlowKeeps, Zenon
  <2>3. CASE u = client_sockfd
    <3>1. conn[u] = "open" /\ conn'[u] = (IF AllSent THEN "closed" ELSE "cut")
      BY <1>0, <1>c, <2>1, <2>3, Zenon DEF TransferTypes
    <3>2. conn'[u] \in {"closed", "cut"} /\ (conn'[u] = "closed" => AllSent)
      BY <3>1, Zenon
    <3>3. Came(u)' = Came(u)
      BY <1>0, <2>1, Zenon DEF Came
    <3>4. util[u] \notin Done /\ AllSent => Came(u) = Len(journal_content[u])
      BY <1>0, <1>a, <2>1, <2>3, Zenon DEF Flow, AllSent
    <3>5. util[u] # "start" /\ util[u] # "ok"
      BY <1>0, <3>1, Zenon DEF Flow
    <3> QED
      BY <1>0, <1>b, <2>1, <3>2, <3>3, <3>4, <3>5, Zenon DEF Flow
  <2> QED
    BY <2>2, <2>3, Zenon
<1>8. CASE SendFails
  BY <1>3, <1>8, Zenon DEF SendFails
<1> QED
  BY <1>1, <1>2, <1>4, <1>5, <1>6, <1>7, <1>8, Zenon DEF Receiver

\* The steps of a utility.
LEMMA UtilityFlow ==
  ASSUME SocketInv, FlowInv, main' = main,
         NEW u \in Utilities, Utility(u), NEW v \in Utilities
  PROVE  Flow(v)'
<1>0. /\ TransferTypes /\ Sockets /\ Flow(u) /\ Flow(v)
      /\ UNCHANGED <<thread, client_sockfd, journal_content, bytes_sent>>
  BY Zenon DEF SocketInv, FlowInv, Utility, Connect, SendTrigger, OpenFile, ReceiveBytes, ReceiveEnd,
     threadvars
<1>a. Sending(v)' <=> Sending(v)
  BY <1>0, Zenon DEF Sending
<1>b. /\ util[u] = "start" => conn[u] = "none"
      /\ conn[u] = "none" => util[u] \in {"start", "failed"}
      /\ util[u] = "ok" => conn[u] \in {"closed", "cut", "reset"}
  BY <1>0, Zenon DEF Flow
<1>1. CASE v # u
  <2>1. /\ util'[v] = util[v] /\ file'[v] = file[v] /\ unflushed'[v] = unflushed[v]
        /\ stream'[v] = stream[v] /\ conn'[v] = conn[v]
    BY <1>0, <1>1, Zenon DEF TransferTypes, Utility, Connect, SendTrigger, OpenFile, ReceiveBytes,
       ReceiveEnd, sockets
  <2> QED
    BY <1>0, <1>a, <2>1, FlowKeeps, Zenon
<1>2. CASE v = u
  <2>0. \A f : util' = [util EXCEPT ![u] = f] => util'[u] = f
    BY <1>0, Zenon DEF TransferTypes
  <2>1. CASE util'[u] \in {"failed", "killed"} /\ conn'[u] = conn[u]
    <3>1. conn[u] = "none" => util'[u] = "failed"
      BY <1>0, <1>b, <2>1, Zenon DEF Utility, Connect, SendTrigger, OpenFile, ReceiveBytes, ReceiveEnd, TransferTypes
    <3> QED
      BY <1>2, <2>1, <3>1, Zenon DEF Flow, Done
  <2>2. CASE Connect(u) /\ conn'[u] # conn[u]
    <3>1. /\ util[u] = "start" /\ conn'[u] = "open" /\ util'[u] = "trigger"
          /\ UNCHANGED <<stream, unflushed>>
      BY <1>0, <2>2, Zenon DEF Connect, TransferTypes
    <3>2. conn[u] = "none" /\ util[u] \notin Done
      BY <1>b, <3>1, Zenon DEF Done
    <3>3. ~Sending(u)
      BY <1>0, <3>2, Zenon DEF Sending, Sockets
    <3>4. Came(u)' = Came(u) /\ ~Sending(u)'
      BY <1>2, <1>a, <3>1, <3>3, Zenon DEF Came
    <3> QED
      BY <1>0, <1>2, <3>1, <3>2, <3>3, <3>4, Zenon DEF Flow
  <2>3. CASE /\ \/ SendTrigger(u)
                \/ OpenFile(u)
             /\ util'[u] \notin {"failed", "killed"}
    <3>1. /\ UNCHANGED <<conn, stream, unflushed>> /\ conn[u] # "none"
          /\ util[u] \in {"trigger", "open"} /\ util'[u] \in {"open", "recv"}
      BY <1>0, <1>b, <2>0, <2>3, Zenon DEF SendTrigger, OpenFile, sockets, TransferTypes
    <3>2. util[u] \notin Done /\ util'[u] # "ok"
      BY <3>1, Zenon DEF Done
    <3>3. Came(u)' = Came(u)
      BY <3>1, Zenon DEF Came
    <3> QED
      BY <1>0, <1>2, <1>a, <3>1, <3>2, <3>3, Zenon DEF Flow
  <2>4. CASE ReceiveBytes(u) /\ util'[u] \notin {"failed", "killed"}
    <3> DEFINE f == unflushed[u]
               s == stream[u]
               g == f \o s
               j == journal_content[u]
    <3>1. /\ UNCHANGED conn /\ util[u] = "recv" /\ util'[u] = "recv"
          /\ stream'[u] = <<>> /\ unflushed'[u] = g
      BY <1>0, <2>4, <2>0, Zenon DEF ReceiveBytes, TransferTypes
    <3>a. util[u] \notin Done /\ util'[u] \notin Done /\ util'[u] # "ok"
      BY <3>1, Zenon DEF Done
    <3>2. f \in Seq(Bytes) /\ s \in Seq(Bytes) /\ Len(f) \in Nat /\ Len(s) \in Nat
      BY <1>0 DEF TransferTypes
    <3>3. /\ Len(g) = Len(f) + Len(s)
          /\ \A i \in 1 .. Len(f) + Len(s) : g[i] = IF i <= Len(f) THEN f[i] ELSE s[i - Len(f)]
      BY <3>2, ConcatIndex, Zenon
    <3>5. Came(u) = Len(f) + Len(s) /\ Came(u)' = Len(g)
      <4>1. Len(<<>>) = 0
        OBVIOUS
      <4>2. Came(u)' = Len(g) + 0 /\ Came(u) = Len(f) + Len(s)
        BY <3>1, <4>1, Zenon DEF Came
      <4>3. Len(g) + 0 = Len(g)
        <5> HIDE DEF f, s, g
        <5> QED
          BY ONLY <3>2, <3>3, SMTT(30)
      <4> QED
        BY <4>2, <4>3, Zenon
    <3>6. /\ \A i \in 1 .. Len(f) : f[i] = j[i]
          /\ \A i \in 1 .. Len(s) : s[i] = j[Len(f) + i]
      BY <1>0, <3>a, Zenon DEF Flow
    <3> HIDE DEF f, s, g, j
    <3>7. \A i \in 1 .. Len(g) : g[i] = j[i]
      <4> SUFFICES ASSUME NEW i \in 1 .. Len(f) + Len(s) PROVE g[i] = j[i]
        BY <3>3, Zenon
      <4>1. CASE i <= Len(f)
        BY <3>2, <3>3, <3>6, <4>1
      <4>2. CASE ~(i <= Len(f))
        <5>1. i - Len(f) \in 1 .. Len(s) /\ Len(f) + (i - Len(f)) = i
          BY <3>2, <4>2
        <5> QED
          BY <3>3, <3>6, <4>2, <5>1, Zenon
      <4> QED
        BY <4>1, <4>2, Zenon
    <3>8. /\ Came(u)' = Came(u) /\ Came(u) <= Len(j) /\ journal_content'[u] = j
      BY <1>0, <3>a, <3>3, <3>5, Zenon DEF j, Flow
    <3>9. /\ \A i \in 1 .. Len(unflushed'[u]) : unflushed'[u][i] = journal_content'[u][i]
          /\ \A i \in 1 .. Len(stream'[u]) : FALSE
      <4>1. \A i \in 1 .. Len(<<>>) : FALSE
        BY SMTT(30)
      <4> QED
        BY <3>1, <3>7, <3>8, <4>1, Zenon
    <3>10. /\ Sending(u) => Came(u) = bytes_sent
           /\ conn[u] = "closed" => Came(u) = Len(j)
           /\ /\ ~Sending(u) /\ conn[u] \notin {"closed", "cut"}
              /\ conn[u] = "reset" => main # "ended"
              => Came(u) = 0
      BY <1>0, <3>a, Zenon DEF Flow, j
    <3>11. UNCHANGED <<main, bytes_sent>> /\ conn'[u] = conn[u] /\ conn[u] # "none"
      BY <1>0, <1>b, <3>1, Zenon
    <3> QED
      BY ONLY <1>2, <1>a, <3>1, <3>a, <3>8, <3>9, <3>10, <3>11, Zenon DEF Flow
  <2>5. CASE ReceiveEnd(u) /\ util'[u] \notin {"failed", "killed"}
    <3> DEFINE s == unflushed[u]
               j == journal_content[u]
    <3>1. /\ UNCHANGED <<conn, stream>> /\ stream[u] = <<>> /\ conn[u] # "open"
          /\ util[u] = "recv" /\ util'[u] = "ok" /\ s # <<>> /\ util[u] \notin Done
      BY <1>0, <2>5, <2>0, Zenon DEF ReceiveEnd, sockets, Done
    <3>2. PICK k \in 0 .. Len(s) : /\ file' = [file EXCEPT ![u] = SubSeq(s, 1, k)]
                                  /\ unflushed' = [unflushed EXCEPT ![u] = SubSeq(s, k + 1, Len(s))]
      BY <2>5, Zenon DEF ReceiveEnd
    <3>3. file'[u] = SubSeq(s, 1, k) /\ unflushed'[u] = SubSeq(s, k + 1, Len(s))
      BY <1>0, <3>2, Zenon DEF TransferTypes
    <3>4. conn[u] \in {"closed", "cut", "reset"} /\ conn'[u] = conn[u]
      BY <1>0, <1>b, <3>1, Zenon DEF TransferTypes, Connections
    <3>5. s \in Seq(Bytes) /\ j \in Seq(Bytes)
      BY <1>0, Zenon DEF TransferTypes
    <3>6. /\ Len(s) \in Nat /\ Len(s) # 0 /\ Len(j) \in Nat /\ k \in Nat /\ k <= Len(s)
          /\ Came(u) = Len(s)
      <4>1. Len(s) \in Nat /\ Len(s) # 0 /\ Len(j) \in Nat /\ Len(s) + Len(<<>>) = Len(s)
        BY <3>1, <3>5, SMTT(30)
      <4> QED
        BY <3>1, <4>1, SMTT(30) DEF Came
    <3>7. /\ Len(s) <= Len(j) /\ (conn[u] = "closed" => Len(s) = Len(j))
          /\ \A i \in 1 .. Len(s) : s[i] = j[i]
          /\ ~Sending(u) /\ conn[u] \notin {"closed", "cut"} /\ Len(s) # 0 =>
               conn[u] = "reset" /\ main = "ended"
      BY <1>0, <3>1, <3>6, Zenon DEF Flow
    <3>8. ~Sending(u)
      BY <1>0, <3>1, Zenon DEF Sending, Sockets
    <3> DEFINE p == SubSeq(s, 1, k)
               q == SubSeq(s, k + 1, Len(s))
    <3>9. /\ p \in Seq(Bytes) /\ Len(p) = k /\ (\A i \in 1 .. k : p[i] = s[i])
          /\ k < Len(s) => q # <<>>
      BY <3>5, SubSeqParts, Zenon
    <3> HIDE DEF s, j, p, q
    <3>10. PrefixOf(p, j)
      BY <3>6, <3>7, <3>9, SMTT(30) DEF PrefixOf
    <3>11. Len(s) = Len(j) /\ k = Len(s) => p = j
      BY <3>5, <3>6, <3>7, <3>9, SMTT(30) DEF j
    <3>12. k = Len(s) \/ k < Len(s)
      BY <3>6, SMTT(30)
    <3>13. p = j \/ conn[u] = "cut" \/ (conn[u] = "reset" /\ main = "ended") \/ q # <<>>
      BY <3>4, <3>6, <3>7, <3>8, <3>9, <3>11, <3>12, Zenon
    <3>14. journal_content'[u] = j /\ file'[u] = p /\ unflushed'[u] = q
      BY <1>0, <3>3, Zenon DEF j, p, q
    <3>15. Saved(u)'
      BY <3>4, <3>10, <3>13, <3>14, Zenon DEF Saved, Truncated, PrefixOf
    <3> QED
      BY <1>2, <3>1, <3>4, <3>15, Zenon DEF Flow, Done
  <2>6. ~Connect(u) => conn'[u] = conn[u]
    BY Zenon DEF Utility, Connect, SendTrigger, OpenFile, ReceiveBytes, ReceiveEnd, sockets
  <2>7. Connect(u) /\ conn'[u] = conn[u] => util'[u] = "failed"
    BY <1>0, <1>b, <2>0, Zenon DEF Connect, TransferTypes
  <2> QED
    BY <2>1, <2>2, <2>3, <2>4, <2>5, <2>6, <2>7, Zenon DEF Utility
<1> QED
  BY <1>1, <1>2, Zenon

LEMMA FlowStep ==
  ASSUME SocketInv, FlowInv, BoundsInv, ReadFits, Alone, [ServerNext]_servervars
  PROVE  FlowInv'
<1> SUFFICES ASSUME NEW u \in Utilities PROVE Flow(u)'
  BY Zenon DEF FlowInv
<1>0. TransferTypes /\ Sockets /\ Flow(u) /\ NoUtility \notin Utilities
  BY TransferAssumption, Zenon DEF SocketInv, FlowInv
<1>1. CASE UNCHANGED transfervars /\ (main' = "ended" <=> main = "ended")
  <2>1. UNCHANGED <<thread, client_sockfd, conn, journal_content, bytes_sent, stream, util, file, unflushed>>
    BY <1>1, Zenon DEF transfervars, threadvars, sockets, utilvars
  <2>2. Sending(u)' <=> Sending(u)
    BY <2>1, Zenon DEF Sending
  <2> QED
    BY <1>0, <1>1, <2>1, <2>2, FlowKeeps, Zenon
<1>2. CASE /\ main = "thread" /\ main' = "wait" /\ thread' = "socket"
           /\ UNCHANGED <<client_sockfd, journal_content, bytes_sent, sockets, utilvars>>
  <2>1. /\ UNCHANGED <<conn, journal_content, bytes_sent, stream, util, file, unflushed>>
        /\ thread = "none"
    BY <1>2, Zenon DEF sockets, utilvars, Alone
  <2>2. ~Sending(u) /\ ~Sending(u)'
    BY <1>2, <2>1, Zenon DEF Sending
  <2> QED
    BY <1>0, <1>2, <2>1, <2>2, FlowKeeps, Zenon
<1>3. CASE ProcessEnds /\ main' = "ended"
  <2>1. /\ thread' = "gone" /\ UNCHANGED <<journal_content, stream, util, file, unflushed>>
        /\ conn'[u] = IF conn[u] = "open" THEN "reset" ELSE conn[u]
    BY <1>3, Zenon DEF ProcessEnds, Reset, utilvars
  <2>2. ~Sending(u)' /\ (conn[u] # "open" => ~Sending(u))
    BY <1>0, <2>1, Zenon DEF Sending, Sockets
  <2>3. CASE conn[u] = "open"
    BY <1>0, <1>3, <2>1, <2>2, <2>3, FlowResets, Zenon
  <2>4. CASE conn[u] # "open"
    BY <1>0, <1>3, <2>1, <2>2, <2>4, FlowKeeps, Zenon
  <2> QED
    BY <2>3, <2>4, Zenon
<1> QED
  BY <1>1, <1>2, <1>3, TransferSteps, ReceiverFlow, UtilityFlow, Zenon

LEMMA MainTypesStep == ASSUME MainTypes, [ServerNext]_servervars PROVE MainTypes'
<1> USE DEF MainTypes
<1>1. ASSUME NEW w \in Workers, NEW s \in {"unborn", "running", "ended"}
      PROVE  [worker EXCEPT ![w] = s] \in [Workers -> {"unborn", "running", "ended"}]
  BY Zenon
<1>2. CASE MainThread
  <2>1. CASE CreateJournal
    BY <2>1, Zenon DEF CreateJournal, Exit
  <2>2. CASE WriteHello
    BY <2>2, Zenon DEF WriteHello
  <2>3. CASE Fork
    <3>1. main' \in {"fork", "thread", "ended"} /\ mapped' = mapped
      BY <2>3, Zenon DEF Fork, Exit
    <3>2. worker' = worker \/ \E w \in Workers : worker' = [worker EXCEPT ![w] = "running"]
      BY <2>3, Zenon DEF Fork, Unborn
    <3> QED
      BY <1>1, <3>1, <3>2, Zenon
  <2>4. CASE StartThread
    BY <2>4, Zenon DEF StartThread, Exit
  <2>5. CASE Wait
    BY <2>5, Zenon DEF Wait
  <2>6. CASE DeleteJournal
    BY <2>6, Zenon DEF DeleteJournal
  <2>7. CASE ReturnFromMain
    BY <2>7, Zenon DEF ReturnFromMain, Exit
  <2> QED
    BY <1>2, <2>1, <2>2, <2>3, <2>4, <2>5, <2>6, <2>7, Zenon DEF MainThread
<1>3. CASE ThreadKills
  BY <1>3, Zenon DEF ThreadKills, Exit
<1>4. CASE UNCHANGED mainvars
  BY <1>4, Zenon DEF mainvars
<1>5. ASSUME NEW w \in Workers, WorkerEnds(w) PROVE MainTypes'
  BY <1>1, <1>5, Zenon DEF WorkerEnds
<1> QED
  BY <1>2, <1>3, <1>4, <1>5, Zenon DEF ServerNext, JournalThread, WorkerWrites, servervars

\* The inductive invariant of the server.
ServerInv == /\ BoundsInv /\ HelloInv /\ ReadFits
             /\ SocketInv /\ FlowInv /\ MainTypes

LEMMA ServerInvInit == ServerInit => ServerInv
<1> SUFFICES ASSUME ServerInit PROVE ServerInv
  BY Zenon
<1>1. BoundsInv /\ HelloInv
  BY BoundsInit, HelloInit, Zenon DEF ServerInit
<1>2. ReadFits
  BY TransferAssumption, Zenon DEF ServerInit, Init, ReadFits
<1>3. MainTypes
  BY Zenon DEF ServerInit, MainTypes
<1> USE DEF ServerInit, TransferInit
<1>4. <<>> \in Seq(Utilities) /\ Len(<<>>) = 0 /\ DOMAIN backlog = {} /\ <<>> \in Seq(Bytes)
      /\ <<Blank>> \in Seq(Bytes)
  BY SMTT(30) DEF Bytes
<1>5. TransferTypes
  <2>1. listening \in BOOLEAN
    BY Zenon
  <2>2. /\ backlog \in Seq(Utilities) /\ Len(backlog) <= Backlog + 1 /\ bytes_sent \in Nat
        /\ conn \in [Utilities -> Connections]
    BY <1>4, TransferAssumption DEF Connections
  <2>3. /\ journal_content \in [Utilities -> Seq(Bytes)] /\ stream \in [Utilities -> Seq(Bytes)]
        /\ file \in [Utilities -> Seq(Bytes)] /\ unflushed \in [Utilities -> Seq(Bytes)]
        /\ util \in [Utilities -> Done \cup {"start", "trigger", "open", "recv"}]
    BY <1>4, Zenon
  <2> QED
    BY <2>1, <2>2, <2>3, Zenon DEF TransferTypes
<1>6. Sockets
  BY <1>4, TransferAssumption, Zenon DEF Sockets, Serving
<1>7. FlowInv
  BY <1>4, SMTT(30) DEF FlowInv, Flow, Came, Sending
<1> QED
  BY <1>1, <1>2, <1>3, <1>5, <1>6, <1>7, Zenon DEF ServerInv, SocketInv

LEMMA ServerInvStep == ASSUME ServerInv, [ServerNext]_servervars PROVE ServerInv'
BY HelloInvStep, ReadFitsStep, SocketStep, FlowStep, MainTypesStep, Zenon DEF ServerInv, HelloInv, SocketInv


\* Every variable of the server has its type, the backlog its limit: for any
\* number of workers and utilities, and with every fault.
THEOREM ServerTyped == ServerSpec => []ServerTypeOK
<1>1. ServerInv => ServerTypeOK
  BY Zenon DEF ServerInv, BoundsInv, SocketInv, TransferTypes, MainTypes, ServerTypeOK
<1> QED
  BY <1>1, ServerInvInit, ServerInvStep, PTL DEF ServerSpec

\* The file of a utility that reports success is all that one journal_read
\* returned, or a first part of it where send stopped early, the server ended
\* or fclose failed; with every other fault of either side the utility reports
\* an error.  For any number of utilities, any backlog and socket buffer, and
\* any size of the journal.
THEOREM ServerSavesOneRead == ServerSpec => []SavedFromOneRead
<1>1. ServerInv => SavedFromOneRead
  BY Zenon DEF ServerInv, FlowInv, Flow, Saved, SavedFromOneRead
<1> QED
  BY <1>1, ServerInvInit, ServerInvStep, PTL DEF ServerSpec

-----------------------------------------------------------------------------
(* What is saved begins with the first entry. *)

LEMMA HelloIsFirstStep ==
  ASSUME ServerInv, HelloIsFirst, [ServerNext]_servervars
  PROVE  HelloIsFirst'
<1>0. /\ Main \in Actors /\ Thread \in Actors \ {Main} /\ Workers \subseteq Actors \ {Main}
      /\ writes \in [Actors -> Nat] /\ pc \in [Actors -> PCs]
  BY ServerAssumption, TransferAssumption, SMTT(30) DEF Workers, ServerInv, BoundsInv, TypeOK
<1>1. CASE UNCHANGED vars
  BY <1>1, Zenon DEF vars, HelloIsFirst, Hello
<1>2. ASSUME NEW a \in Actors \ {Main}, ActorStep(a) PROVE HelloIsFirst'
  <2>1. Hello' = Hello /\ writes'[Main] = writes[Main]
    BY <1>0, <1>2, OthersKeepHello, Zenon DEF ServerInv, HelloInv
  <2> QED
    BY <2>1, Zenon DEF HelloIsFirst
<1>3. CASE WriteHello
  <2>1. CASE writes[Main] = 0 /\ CallWrite(Main)
    BY <1>0, <2>1, SMTT(30) DEF CallWrite, mvars, HelloIsFirst, Hello
  <2>2. CASE WriteSize(Main)
    <3>1. writes[Main] = 1
      BY <1>0, <2>2 DEF WriteSize, ServerInv, HelloInv, HelloInProgress, HelloIsFirst
    <3>2. NewEntry(Main).nr = 1
      BY <3>1, Zenon DEF NewEntry
    <3> QED
      BY <2>2, <3>1, <3>2, Zenon DEF WriteSize, HelloIsFirst, Hello
  <2>3. CASE WriteLock(Main) \/ WriteCopy(Main) \/ Return(Main) \/ LockFails(Main)
             \/ UnlockFails(Main)
    BY <2>3, Zenon DEF WriteLock, WriteCopy, Return, LockFails, UnlockFails, mvars, HelloIsFirst, Hello
  <2> QED
    BY <1>3, <2>1, <2>2, <2>3, Zenon DEF WriteHello, WriteStep
<1>4. ASSUME NEW w \in Workers, WorkerWrites(w) PROVE ActorStep(w)
  BY <1>4, Zenon DEF WorkerWrites, WriteStep, ActorStep, Step
<1>5. UNCHANGED servervars => UNCHANGED vars
  BY Zenon DEF servervars
<1> QED
  BY <1>0, <1>1, <1>2, <1>3, <1>4, <1>5, ServerSteps, ReadStepActs, Zenon

\* journal_content changes where journal_read returns.
LEMMA ContentSteps ==
  ASSUME ServerInv, [ServerNext]_servervars
  PROVE  \/ journal_content' = journal_content
         \/ /\ pc[Thread] = "read_unlock" /\ pc'[Thread] # "read_unlock"
            /\ client_sockfd \in Utilities
            /\ journal_content' = [journal_content EXCEPT ![client_sockfd] = Content]
<1>1. CASE ReadJournal
  <2>1. client_sockfd \in Utilities
    BY <1>1, Zenon DEF ReadJournal, ServerInv, SocketInv, Sockets, Serving
  <2>2. Return(Thread) => pc[Thread] = "read_unlock" /\ pc'[Thread] = "idle"
    BY TransferAssumption, Zenon DEF Return, Goto, ServerInv, ReadFits, BoundsInv, TypeOK
  <2> QED
    BY <1>1, <2>1, <2>2, Zenon DEF ReadJournal
<1>2. Receiver => UNCHANGED journal_content
  BY Zenon DEF Receiver, Listen, Accept, AcceptFails, CloseSocket, Allocate, SendByte, SendReturns,
     SendFails
<1>3. ASSUME NEW u \in Utilities, Utility(u) PROVE UNCHANGED journal_content
  BY <1>3, Zenon DEF Utility, Connect, SendTrigger, OpenFile, ReceiveBytes, ReceiveEnd, threadvars
<1> QED
  BY <1>1, <1>2, <1>3, TransferSteps, Zenon DEF transfervars, threadvars, ProcessEnds

LEMMA NothingReadStep ==
  ASSUME ServerInv, NothingRead, [ServerNext]_servervars
  PROVE  NothingRead'
<1>1. ASSUME thread' = "none" PROVE thread = "none" /\ journal_content' = journal_content
  <2>1. ~Receiver
    BY <1>1, Zenon DEF Receiver, Listen, Accept, AcceptFails, CloseSocket, Allocate, SendByte, SendReturns,
       SendFails, Abandon
  <2>2. ~ReadJournal
    BY <1>1, Zenon DEF ReadJournal, Abandon
  <2>3. ASSUME NEW u \in Utilities, Utility(u) PROVE UNCHANGED threadvars
    BY <2>3, Zenon DEF Utility, Connect, SendTrigger, OpenFile, ReceiveBytes, ReceiveEnd
  <2>4. UNCHANGED threadvars
    BY <1>1, <2>1, <2>2, <2>3, TransferSteps, Zenon DEF transfervars, ProcessEnds
  <2> QED
    BY <1>1, <2>4, Zenon DEF threadvars
<1> QED
  BY <1>1, Zenon DEF NothingRead

\* The bytes of the first entry are what journal_read copies.
LEMMA BeginsWithHelloStep ==
  ASSUME ServerInv, HelloIsFirst, BeginsWithHello, NothingRead, [ServerNext]_servervars
  PROVE  BeginsWithHello'
<1>0. /\ Main \in Actors /\ Thread \in Actors \ {Main} /\ Workers \subseteq Actors \ {Main, Thread}
      /\ BoundsInv /\ HelloKept /\ WritesBehind /\ HeaderSize \in Nat /\ BufferSize \in Nat
      /\ pc \in [Actors -> PCs] /\ local \in [Actors -> Nat] /\ copied \in [Actors -> Nat]
      /\ out \in [Actors -> [0 .. BufferSize - 1 -> Bytes]]
      /\ journal_content \in [Utilities -> Seq(Bytes)]
  BY ServerAssumption, TransferAssumption, SizeAssumption, Zenon
  DEF Workers, ServerInv, BoundsInv, TypeOK, HelloInv, SocketInv, TransferTypes
<1>a. \A e \in Hello : /\ e.len \in Nat
                       /\ \A k \in 0 .. e.len - 1 : cells[HeaderSize + k] = Byte(Main, 1, k)
  <2>1. \A e \in Hello : e.by = Main /\ e.nr = 1 /\ e.at = HeaderSize /\ Intact(e) /\ e \in entries
    BY <1>0, Zenon DEF HelloKept, HelloIsFirst, Hello
  <2>2. \A e \in entries : e.len \in Nat
    BY <1>0, SizeAssumption, Zenon DEF BoundsInv, TypeOK, EntryRecords
  <2> QED
    BY <2>1, <2>2, Zenon DEF Intact
<1>1. ASSUME Hello' = Hello, pc'[Thread] = pc[Thread], local'[Thread] = local[Thread],
             copied'[Thread] = copied[Thread], out'[Thread] = out[Thread]
      PROVE  BeginsWithHello'
  <2>1. journal_content' = journal_content
    BY <1>1, ContentSteps, Zenon
  <2> QED
    BY <1>1, <2>1, Zenon DEF BeginsWithHello
<1>2. CASE UNCHANGED vars
  BY <1>1, <1>2, Zenon DEF vars, Hello
<1>3. CASE WriteHello
  <2>1. /\ thread = "none" /\ thread' = thread /\ journal_content' = journal_content
        /\ pc[Thread] = "idle"
    BY <1>0, <1>3, Zenon DEF WriteHello, transfervars, threadvars, ServerInv, HelloInv, Alone
  <2>2. pc'[Thread] = "idle"
    BY <1>0, <1>3, <2>1, Zenon DEF WriteHello, WriteStep, CallWrite, WriteLock, WriteCopy, WriteSize, Return,
       LockFails, UnlockFails, ReturnEarly, Goto
  <2>3. \A u \in Utilities : journal_content'[u] = <<>>
    BY <2>1, Zenon DEF NothingRead
  <2> QED
    BY <2>2, <2>3, SMTT(30) DEF BeginsWithHello
<1>4. ASSUME NEW w \in Workers, WorkerWrites(w) PROVE BeginsWithHello'
  <2>1. ActorStep(w) /\ w \in Actors \ {Main} /\ Thread \in Actors \ {w}
    BY <1>0, <1>4, Zenon DEF WorkerWrites, WriteStep, ActorStep, Step
  <2>2. out'[Thread] = out[Thread]
    <3>1. out' = out \/ out' = [out EXCEPT ![w] = [k \in 0 .. BufferSize - 1 |-> Blank]]
      BY <1>4, Zenon DEF WorkerWrites, WriteStep, CallWrite, WriteLock, WriteCopy, WriteSize, Return, LockFails,
                        UnlockFails
    <3> QED
      BY ONLY <1>0, <2>1, <3>1, Zenon
  <2> QED
    BY <1>0, <1>1, <2>1, <2>2, OthersKeepHello, Zenon
<1>5. ASSUME ActorStep(Thread) PROVE BeginsWithHello'
  <2>0. Hello' = Hello
    BY <1>0, <1>5, OthersKeepHello, Zenon
  <2> SUFFICES ASSUME NEW e \in Hello
               PROVE  /\ pc'[Thread] = "read_copy" =>
                           \A k \in 0 .. copied'[Thread] - 1 :
                             k < e.len => out'[Thread][k] = Byte(Main, 1, k)
                      /\ pc'[Thread] = "read_unlock" =>
                           \A k \in 0 .. local'[Thread] - HeaderSize - 1 :
                             k < e.len => out'[Thread][k] = Byte(Main, 1, k)
                      /\ \A u \in Utilities : \A k \in 1 .. e.len :
                           k <= Len(journal_content'[u]) =>
                             journal_content'[u][k] = Byte(Main, 1, k - 1)
    BY <2>0, Zenon DEF BeginsWithHello
  <2>a. e.len \in Nat /\ \A k \in 0 .. e.len - 1 : cells[HeaderSize + k] = Byte(Main, 1, k)
    BY <1>a, Zenon
  <2>b. /\ pc[Thread] = "read_copy" =>
             \A k \in 0 .. copied[Thread] - 1 : k < e.len => out[Thread][k] = Byte(Main, 1, k)
        /\ pc[Thread] = "read_unlock" =>
             \A k \in 0 .. local[Thread] - HeaderSize - 1 :
               k < e.len => out[Thread][k] = Byte(Main, 1, k)
        /\ \A u \in Utilities : \A k \in 1 .. e.len :
             k <= Len(journal_content[u]) => journal_content[u][k] = Byte(Main, 1, k - 1)
    BY Zenon DEF BeginsWithHello
  <2>c. \/ ReadLock(Thread) \/ ReadCopy(Thread) \/ ReadDone(Thread)
        \/ pc' = pc /\ pc[Thread] = "write_copy"
        \/ \E l \in {"idle", "write_lock", "read_lock", "write_copy", "unlock"} : Goto(Thread, l)
    BY <1>5, Zenon DEF ActorStep, Step, CallWrite, CallRead, WriteLock, WriteCopy, WriteSize, Return, LockFails,
                      UnlockFails, ReturnEarly
  <2>1. ASSUME pc'[Thread] = "read_copy", NEW k \in 0 .. copied'[Thread] - 1, k < e.len
        PROVE  out'[Thread][k] = Byte(Main, 1, k)
    <3>1. CASE ReadLock(Thread)
      BY <1>0, <2>1, <3>1, SMTT(30) DEF ReadLock, BeginCopy, ReturnEarly, Goto
    <3>2. CASE ReadCopy(Thread)
      <4>1. /\ pc[Thread] = "read_copy" /\ copied[Thread] \in 0 .. BufferSize - 1
            /\ copied'[Thread] = copied[Thread] + 1
        BY <1>0, <3>2, SMTT(30) DEF ReadCopy, BoundsInv, WithinBounds
      <4>2. out' = [out EXCEPT ![Thread][copied[Thread]] = cells[HeaderSize + copied[Thread]]]
        BY <3>2, Zenon DEF ReadCopy
      <4>3. CASE k = copied[Thread]
        <5>1. out'[Thread][k] = cells[HeaderSize + k]
          BY <1>0, <4>1, <4>2, <4>3, Zenon
        <5>2. k \in 0 .. e.len - 1
          BY <2>1, <2>a, <4>1, <4>3, SMTT(30)
        <5> QED
          BY <2>a, <5>1, <5>2, Zenon
      <4>4. CASE k # copied[Thread]
        <5>1. k \in 0 .. copied[Thread] - 1
          BY <1>0, <2>1, <4>1, <4>4, SMTT(30)
        <5>2. out'[Thread][k] = out[Thread][k]
          BY <1>0, <4>1, <4>2, <4>4, <5>1, SMTT(30)
        <5> QED
          BY <2>1, <2>b, <4>1, <5>1, <5>2, Zenon
      <4> QED
        BY <4>3, <4>4, Zenon
    <3>3. ReadLock(Thread) \/ ReadCopy(Thread)
      BY ONLY <1>0, <2>1, <2>c, Zenon DEF ReadDone, Goto
    <3> QED
      BY <3>1, <3>2, <3>3, Zenon
  <2>2. ASSUME pc'[Thread] = "read_unlock", NEW k \in 0 .. local'[Thread] - HeaderSize - 1, k < e.len
        PROVE  out'[Thread][k] = Byte(Main, 1, k)
    <3>1. ReadDone(Thread)
      BY ONLY <1>0, <2>2, <2>c, Zenon DEF ReadLock, ReadCopy, ReturnEarly, Goto
    <3>2. /\ pc[Thread] = "read_copy" /\ copied[Thread] = local[Thread] - HeaderSize
          /\ out' = out /\ local' = local
      BY <3>1, Zenon DEF ReadDone
    <3> QED
      BY <2>2, <2>b, <3>2, Zenon
  <2>3. ASSUME NEW u \in Utilities, NEW k \in 1 .. e.len, k <= Len(journal_content'[u])
        PROVE  journal_content'[u][k] = Byte(Main, 1, k - 1)
    <3>1. CASE journal_content'[u] = journal_content[u]
      BY <2>3, <2>b, <3>1, Zenon
    <3>2. CASE pc[Thread] = "read_unlock" /\ journal_content'[u] = Content
      <4>1. Len(Content) = local[Thread] - HeaderSize /\ local[Thread] - HeaderSize \in Int
        BY <1>0, <3>2, ContentTyped, SMTT(30) DEF ServerInv
      <4>2. k \in 1 .. local[Thread] - HeaderSize
        BY <2>3, <2>a, <3>2, <4>1, SMTT(30)
      <4>3. Content[k] = out[Thread][k - 1]
        BY <4>2, Zenon DEF Content
      <4>4. k - 1 \in 0 .. local[Thread] - HeaderSize - 1 /\ k - 1 < e.len
        BY <2>a, <4>1, <4>2, SMTT(30)
      <4> QED
        BY <2>b, <3>2, <4>3, <4>4, Zenon
    <3> QED
      BY <1>0, <3>1, <3>2, ContentSteps, Zenon
  <2> QED
    BY <2>1, <2>2, <2>3, Zenon
<1>6. UNCHANGED servervars => UNCHANGED vars
  BY Zenon DEF servervars
<1> QED
  BY <1>2, <1>3, <1>4, <1>5, <1>6, ServerSteps, ReadStepActs, Zenon

\* What a utility has saved begins with the first entry main wrote, as far as
\* it goes: for any number of workers that write while the thread reads and end
\* at any moment, and with every fault.
THEOREM ServerSavesHello == ServerSpec => []SavedBeginsWithHello
<1> DEFINE I == ServerInv /\ HelloIsFirst /\ BeginsWithHello /\ NothingRead
<1>1. ServerInit => I
  <2> SUFFICES ASSUME ServerInit PROVE I
    BY Zenon
  <2>1. ServerInv
    BY ServerInvInit, Zenon
  <2>2. writes[Main] = 0 /\ Hello = {}
    BY ServerAssumption, Zenon DEF ServerInit, Init, Hello
  <2>3. HelloIsFirst /\ BeginsWithHello
    BY <2>2, SMTT(30) DEF HelloIsFirst, BeginsWithHello
  <2>4. NothingRead
    BY Zenon DEF ServerInit, TransferInit, NothingRead
  <2> QED
    BY <2>1, <2>3, <2>4, Zenon
<1>2. I /\ [ServerNext]_servervars => I'
  BY ServerInvStep, HelloIsFirstStep, BeginsWithHelloStep, NothingReadStep, Zenon
<1>3. ASSUME I PROVE SavedBeginsWithHello
  <2> SUFFICES ASSUME NEW u \in Utilities, NEW e \in Hello, util[u] = "ok",
                      NEW k \in 1 .. e.len, k <= Len(file[u])
               PROVE  file[u][k] = Byte(Main, 1, k - 1)
    BY Zenon DEF SavedBeginsWithHello
  <2>1. /\ file[u] \in Seq(Bytes) /\ journal_content[u] \in Seq(Bytes)
        /\ Len(file[u]) <= Len(journal_content[u])
        /\ \A i \in 1 .. Len(file[u]) : file[u][i] = journal_content[u][i]
    BY <1>3, Zenon DEF ServerInv, FlowInv, Flow, Saved, PrefixOf, SocketInv, TransferTypes
  <2>2. e.len \in Nat
    BY <1>3, SizeAssumption, Zenon DEF Hello, ServerInv, BoundsInv, TypeOK, EntryRecords
  <2>3. Len(file[u]) \in Nat /\ Len(journal_content[u]) \in Nat
    BY <2>1, SMTT(30)
  <2>4. k \in 1 .. Len(file[u]) /\ k <= Len(journal_content[u])
    BY <2>1, <2>2, <2>3, SMTT(30)
  <2> QED
    BY <1>3, <2>1, <2>4, Zenon DEF BeginsWithHello
<1> QED
  BY <1>1, <1>2, <1>3, PTL DEF ServerSpec
=============================================================================
