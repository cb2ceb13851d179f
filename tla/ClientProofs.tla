---------------------------- MODULE ClientProofs ----------------------------
(***************************************************************************)
(* Proofs about Client, for every number of ports, both modes and with all *)
(* faults.                                                                 *)
(***************************************************************************)
EXTENDS Client, FiniteSetTheorems, TLAPS

\* The objects of the ports from i to j.
Whole(i, j) == UNION {PortObjects(p) : p \in i .. j}

Running == {"start", "print", "send", "sleep", "delete", "stop", "stop_join", "stopped"}
Deleting == {"close", "close_join", "release"}
Creating == {"context", "arrays", "socket", "bind", "queues", "connection"}

\* What is allocated, but for the array that is overwritten, wherever main is.
Expected ==
  CASE main = "context" -> {}
    [] main = "arrays" -> {<<"context", 0>>}
    [] main = "socket" -> ContextObjects \cup Whole(1, port - 1)
    [] main \in {"bind", "queues"} ->
         ContextObjects \cup Whole(1, port - 1) \cup Of({"socket"}, port)
    [] main = "connection" ->
         ContextObjects \cup Whole(1, port - 1) \cup Of({"socket", "incoming", "outgoing"}, port)
    [] main \in Running -> ContextObjects \cup Whole(1, PortCount)
    [] main \in Deleting -> ContextObjects \cup Whole(port, PortCount)
    [] main = "free" -> ContextObjects
    [] main = "exit" -> IF context THEN {} ELSE Whole(1, port - 1)
    [] OTHER -> heap \ {FirstArray}

Places == /\ main \in Labels /\ port \in Ports /\ side \in Sides /\ context \in BOOLEAN
          /\ main \in Creating => ~context
          /\ main \in Running \cup Deleting \cup {"free"} => context
          /\ main \in {"context", "arrays", "print", "sleep", "delete"} => port = 1

HeapInv == Places /\ heap \ {FirstArray} = Expected

\* The objects of one port, taken from or added to those of a range.
LEMMA WholeSplit ==
  ASSUME NEW i \in Nat, NEW j \in Nat, i <= j
  PROVE  /\ Whole(i, j) = PortObjects(i) \cup Whole(i + 1, j)
         /\ Whole(i, j) = Whole(i, j - 1) \cup PortObjects(j)
BY DEF Whole

\* Objects of different ports are different, and no object of a port is one
\* of the context.
LEMMA ObjectsApart ==
  ASSUME NEW p \in Nat, NEW i \in Nat, NEW j \in Nat
  PROVE  /\ p \notin i .. j => PortObjects(p) \cap Whole(i, j) = {}
         /\ ContextObjects \cap Whole(i, j) = {}
         /\ PortObjects(p) \cap ContextObjects = {}
         /\ FirstArray \notin PortObjects(p) /\ FirstArray \notin Whole(i, j)
         /\ FirstArray \notin ContextObjects
BY DEF Whole, PortObjects, Of, ContextObjects, FirstArray

\* A part of a pair has two elements only if it is the pair.
LEMMA PairWhole ==
  ASSUME NEW a, NEW b, a # b, NEW got \in SUBSET {a, b}
  PROVE  Cardinality(got) = 2 <=> got = {a, b}
<1>1. got \in {{}, {a}, {b}, {a, b}}
  BY Zenon
<1>2. Cardinality({}) = 0 /\ Cardinality({a}) = 1 /\ Cardinality({b}) = 1
  BY FS_EmptySet, FS_Singleton, Zenon
<1>3. Cardinality({a, b}) = 2
  <2>1. IsFiniteSet({a}) /\ b \notin {a} /\ {a} \cup {b} = {a, b}
    BY FS_Singleton, Zenon
  <2>2. Cardinality({a} \cup {b}) = Cardinality({a}) + 1
    BY <2>1, FS_AddElement, Zenon
  <2> QED BY <1>2, <2>1, <2>2
<1> QED BY <1>1, <1>2, <1>3

\* Initially nothing is allocated.
LEMMA HeapInit == Init => HeapInv
<1> SUFFICES ASSUME Init PROVE HeapInv
  BY Zenon
<1>1. /\ main = "context" /\ port = 1 /\ side = "recv" /\ context = FALSE /\ heap = {}
      /\ 1 \in Ports
  BY ClientAssumption DEF Init, Ports
<1>2. Places
  BY <1>1, Zenon DEF Places, Labels, Sides, Creating, Running, Deleting
<1>3. heap \ {FirstArray} = Expected
  BY <1>1, Zenon DEF Expected, Running, Deleting
<1> QED BY <1>2, <1>3, Zenon DEF HeapInv

\* Creation: every step adds what it creates, and every error path frees the
\* context and the port it is at.
LEMMA CreateHeap == HeapInv /\ Create => HeapInv'
<1> SUFFICES ASSUME HeapInv, Create PROVE HeapInv'
  BY Zenon
<1> USE ClientAssumption DEF HeapInv, Places, Labels, Ports, Sides, Creating, Running,
      Deleting, Fail
<1>w. /\ \A i \in Nat : Whole(i + 1, i) = {}
      /\ Whole(1, 0) = {} /\ FirstArray \notin ContextObjects
  BY DEF Whole, FirstArray, ContextObjects
<1>a. /\ FirstArray \notin PortObjects(port) /\ FirstArray \notin Whole(1, port - 1)
      /\ ContextObjects \cap Whole(1, port - 1) = {}
      /\ PortObjects(port) \cap Whole(1, port - 1) = {}
      /\ PortObjects(port) \cap ContextObjects = {}
  BY ObjectsApart
<1>b. Whole(1, port) = Whole(1, port - 1) \cup PortObjects(port)
  BY WholeSplit
<1>c. /\ PortObjects(port) = Of({"socket"}, port) \cup Of({"incoming", "outgoing"}, port)
                               \cup Of({"connection"}, port)
      /\ Of({"socket", "incoming", "outgoing"}, port)
           = Of({"socket"}, port) \cup Of({"incoming", "outgoing"}, port)
  BY DEF PortObjects, Of
<1>1. CASE CreateContext
  BY <1>1, <1>w DEF CreateContext, Allocated, Expected, FirstArray, state
<1>2. CASE CreateArrays
  <2>1. PICK got \in SUBSET {<<"sockaddrs", 0>>, <<"connections", 2>>},
             first \in SUBSET {FirstArray} :
          /\ main' = IF Cardinality(got) = 2 THEN "socket" ELSE "exit"
          /\ heap' = IF Cardinality(got) = 2 THEN heap \cup got \cup first ELSE first
    BY <1>2, Zenon DEF CreateArrays, Allocated
  <2>2. Cardinality(got) = 2 <=> got = {<<"sockaddrs", 0>>, <<"connections", 2>>}
    <3> DEFINE a == <<"sockaddrs", 0>>
               b == <<"connections", 2>>
    <3>1. a # b BY Zenon
    <3>2. got \in SUBSET {a, b} BY Zenon
    <3> HIDE DEF a, b
    <3>3. Cardinality(got) = 2 <=> got = {a, b}
      BY ONLY <3>1, <3>2, PairWhole, Zenon
    <3> QED BY <3>3, Zenon DEF a, b
  <2>3. /\ heap \ {FirstArray} = {<<"context", 0>>} /\ port = 1 /\ ~context
        /\ port' = port /\ side' = side /\ context' = context
    BY <1>2, Zenon DEF CreateArrays, Expected, state
  <2>4. CASE got = {<<"sockaddrs", 0>>, <<"connections", 2>>}
    <3>1. main' = "socket" /\ heap' = heap \cup got \cup first
      BY <2>1, <2>2, <2>4, Zenon
    <3>2. heap' \ {FirstArray} = ContextObjects
      BY <3>1, <2>3, <2>4 DEF ContextObjects, FirstArray
    <3> QED BY <3>1, <3>2, <2>3, <1>w DEF Expected
  <2>5. CASE got # {<<"sockaddrs", 0>>, <<"connections", 2>>}
    <3>1. main' = "exit" /\ heap' \ {FirstArray} = {}
      BY <2>1, <2>2, <2>5, Zenon
    <3> QED BY <3>1, <2>3, <1>w, SMTT(30) DEF Expected
  <2> QED BY <2>4, <2>5, Zenon
<1>3. CASE CreateSocket
  <2>1. UNCHANGED <<port, side, context>>
    BY <1>3, Zenon DEF CreateSocket, state
  <2>2. CASE main = "socket"
    <3>1. heap \ {FirstArray} = ContextObjects \cup Whole(1, port - 1)
      BY <2>2, Zenon DEF Expected
    <3>2. \/ main' = "exit" /\ heap' = heap \ ContextObjects
          \/ main' = "bind" /\ heap' = heap \cup Of({"socket"}, port)
      BY <1>3, <2>2 DEF CreateSocket, Allocated, Of
    <3> QED BY <2>1, <2>2, <3>1, <3>2, <1>a, <1>c DEF Expected
  <2>3. CASE main = "bind"
    <3>1. heap \ {FirstArray} = ContextObjects \cup Whole(1, port - 1) \cup Of({"socket"}, port)
      BY <2>3, Zenon DEF Expected
    <3>2. \/ main' = "queues" /\ heap' = heap
          \/ main' = "exit" /\ heap' = heap \ (ContextObjects \cup Of({"socket"}, port))
      BY <1>3, <2>3, Zenon DEF CreateSocket
    <3> QED BY <2>1, <2>3, <3>1, <3>2, <1>a, <1>c DEF Expected
  <2> QED BY <1>3, <2>2, <2>3, Zenon DEF CreateSocket
<1>4. CASE CreateQueues
  <2>1. UNCHANGED <<port, side, context>> /\ main = "queues"
    BY <1>4, Zenon DEF CreateQueues, state
  <2>2. heap \ {FirstArray} = ContextObjects \cup Whole(1, port - 1) \cup Of({"socket"}, port)
    BY <2>1, Zenon DEF Expected
  <2>3. PICK got \in SUBSET Of({"incoming", "outgoing"}, port) :
          IF Cardinality(got) = 2
          THEN heap' = heap \cup got /\ main' = "connection"
          ELSE heap' = heap \ (ContextObjects \cup Of({"socket"}, port)) /\ main' = "exit"
    BY <1>4, Zenon DEF CreateQueues, Allocated
  <2>4. Cardinality(got) = 2 <=> got = Of({"incoming", "outgoing"}, port)
    <3> DEFINE a == <<"incoming", port>>
               b == <<"outgoing", port>>
    <3>0. Of({"incoming", "outgoing"}, port) = {a, b}
      BY DEF Of
    <3>1. a # b BY Zenon
    <3>2. got \in SUBSET {a, b}
      BY <3>0, Zenon
    <3> HIDE DEF a, b
    <3>3. Cardinality(got) = 2 <=> got = {a, b}
      BY ONLY <3>1, <3>2, PairWhole, Zenon
    <3> QED BY <3>0, <3>3, Zenon
  <2>5. \/ main' = "exit" /\ heap' = heap \ (ContextObjects \cup Of({"socket"}, port))
        \/ main' = "connection" /\ heap' = heap \cup Of({"incoming", "outgoing"}, port)
    BY <2>3, <2>4, Zenon
  <2> QED BY <2>1, <2>2, <2>5, <1>a, <1>c DEF Expected
<1>5. CASE CreateConnection
  <2>1. main = "connection" /\ UNCHANGED side /\ ~context
    BY <1>5, Zenon DEF CreateConnection
  <2>2. heap \ {FirstArray} = ContextObjects \cup Whole(1, port - 1)
                                \cup Of({"socket", "incoming", "outgoing"}, port)
    BY <2>1, Zenon DEF Expected
  <2>3. \/ /\ heap' = heap \ (ContextObjects \cup PortObjects(port)) /\ main' = "exit"
           /\ UNCHANGED <<port, context>>
        \/ /\ heap' = heap \cup Of({"connection"}, port)
           /\ context' = (port = PortCount)
           /\ port' = IF port < PortCount THEN port + 1 ELSE 1
           /\ main' = IF port < PortCount THEN "socket" ELSE "start"
    BY <1>5 DEF CreateConnection, Allocated, Of
  <2>4. CASE main' = "exit"
    BY <2>1, <2>2, <2>3, <2>4, <1>a, <1>c, SMTT(30) DEF Expected
  <2>5. CASE main' # "exit"
    <3>1. heap' \ {FirstArray} = ContextObjects \cup Whole(1, port)
      BY <2>2, <2>3, <2>5, <1>a, <1>b, <1>c, Zenon
    <3>2. CASE port < PortCount
      BY <2>1, <2>3, <2>5, <3>1, <3>2 DEF Expected
    <3>3. CASE port = PortCount
      <4>1. port' = 1 /\ main' = "start"
        BY <2>3, <2>5, <3>3
      <4>2. context' = (port = PortCount)
        BY ONLY <2>3, <2>5, Zenon
      <4>3. context' = TRUE
        BY ONLY <3>3, <4>2, Zenon
      <4> QED BY <2>1, <3>1, <3>3, <4>1, <4>3, SMTT(30) DEF Expected
    <3> QED BY <3>2, <3>3
  <2> QED BY <2>4, <2>5, Zenon
<1> QED BY <1>1, <1>2, <1>3, <1>4, <1>5, Zenon DEF Create

\* Steps that neither allocate nor free, with main going where it may.
LEMMA StillHeap ==
  ASSUME HeapInv, heap' = heap, context' = context, Places',
         \/ main' = main /\ port' = port
         \/ main \in Running /\ main' \in Running
         \/ main \in Running /\ main' = "close" /\ port' = 1
         \/ main \in Deleting /\ main' \in Deleting /\ port' = port
         \/ main' = "abort"
  PROVE  HeapInv'
BY SMTT(30) DEF HeapInv, Places, Expected, Running, Deleting, Labels

\* Deletion frees port after port, then the context.
LEMMA ReleaseHeap == HeapInv /\ Release => HeapInv'
<1> SUFFICES ASSUME HeapInv, Release PROVE HeapInv'
  BY Zenon
<1> USE ClientAssumption DEF HeapInv, Places, Labels, Ports, Sides, Creating, Running, Deleting
<1>1. side' = side /\ context' = context
  BY Zenon DEF Release, state
<1>2. CASE main = "release"
  <2>1. heap \ {FirstArray} = ContextObjects \cup Whole(port, PortCount)
    BY <1>2, Zenon DEF Expected
  <2>2. /\ heap' = heap \ PortObjects(port)
        /\ port' = IF port < PortCount THEN port + 1 ELSE 1
        /\ main' = IF port < PortCount THEN "close" ELSE "free"
    BY <1>2, Zenon DEF Release
  <2>3. Whole(port, PortCount) = PortObjects(port) \cup Whole(port + 1, PortCount)
    BY WholeSplit
  <2>4. /\ PortObjects(port) \cap Whole(port + 1, PortCount) = {}
        /\ PortObjects(port) \cap ContextObjects = {}
    BY ObjectsApart
  <2>5. heap' \ {FirstArray} = ContextObjects \cup Whole(port + 1, PortCount)
    BY <2>1, <2>2, <2>3, <2>4, Zenon
  <2>6. port = PortCount => Whole(port + 1, PortCount) = {}
    BY DEF Whole
  <2> QED BY <1>1, <1>2, <2>2, <2>5, <2>6, SMTT(30) DEF Expected
<1>3. CASE main = "free"
  <2>1. heap \ {FirstArray} = ContextObjects /\ context
    BY <1>3, Zenon DEF Expected
  <2>2. heap' = heap \ ContextObjects /\ main' = "exit" /\ port' = port
    BY <1>3, Zenon DEF Release
  <2> QED BY <1>1, <2>1, <2>2, Zenon DEF Expected
<1> QED BY <1>2, <1>3, Zenon DEF Release

\* Every step keeps the heap as described.
LEMMA HeapStep == HeapInv /\ [Next]_vars => HeapInv'
<1> SUFFICES ASSUME HeapInv, [Next]_vars PROVE HeapInv'
  BY Zenon
<1>p. Places
  BY Zenon DEF HeapInv
<1> USE ClientAssumption, <1>p DEF Places, Labels, Ports, Sides, Creating, Running, Deleting
<1>1. CASE StartThread
  BY <1>1, StillHeap, SMTT(30) DEF StartThread, memory
<1>2. CASE StartPrinter
  BY <1>2, StillHeap, Zenon DEF StartPrinter, memory, state
<1>3. CASE SendPid
  BY <1>3, StillHeap, SMTT(30) DEF SendPid, memory, state
<1>4. CASE Sleep
  BY <1>4, StillHeap, Zenon DEF Sleep, memory, state
<1>5. CASE BeginDelete
  BY <1>5, StillHeap, Zenon DEF BeginDelete, memory, state
<1>6. CASE StopThread("stop", "stop_join", "stopped")
  BY <1>6, StillHeap, Zenon DEF StopThread, memory, state
<1>7. CASE NextStop
  BY <1>7, StillHeap, SMTT(30) DEF NextStop, memory
<1>8. CASE StopThread("close", "close_join", "release")
  BY <1>8, StillHeap, Zenon DEF StopThread, memory, state
<1>9. CASE \E p \in Ports : \/ ReceiveThread(p) \/ SendThread(p)
                            \/ \E d \in Sides : TestFlag(p, d)
  <2>1. heap' = heap /\ UNCHANGED place /\ UNCHANGED state
    BY <1>9, Zenon DEF ReceiveThread, SendThread, TestFlag
  <2> QED BY <2>1, StillHeap, Zenon DEF place, state
<1>10. CASE Printer
  BY <1>10, StillHeap, SMTT(30) DEF Printer, Poll, PrintAnswer, PollFreed, memory, place, state
<1>11. CASE UNCHANGED vars
  BY <1>11, StillHeap DEF vars, memory, place, state
<1> QED BY <1>1, <1>2, <1>3, <1>4, <1>5, <1>6, <1>7, <1>8, <1>9, <1>10, <1>11,
           CreateHeap, ReleaseHeap, Zenon DEF Next, Main

\* When client returns, what is left allocated is what client_create_context
\* and client_delete_context leave: the overwritten array, and after a failed
\* creation the ports that were complete, whatever their number.
THEOREM ClientReleases == Spec => []ReleasedAtExit
<1>1. HeapInv => ReleasedAtExit
  BY Zenon DEF HeapInv, Expected, ReleasedAtExit, Whole, Running, Deleting
<1> QED BY HeapInit, HeapStep, <1>1, PTL DEF Spec
-----------------------------------------------------------------------------
\* Until the process ends the flag of a thread is set for as long as the
\* thread runs, but while it is joined.
FlagCovers ==
  \A p \in Ports, d \in Sides :
    ~Ended /\ thread[p][d] # "none" =>
      \/ flag[p][d]
      \/ main \in {"stop_join", "close_join"} /\ port = p /\ side = d

\* The flags are clear before client_start and, port by port, behind the
\* deletion.
FlagsClear ==
  /\ main \in Creating \cup {"free"} => \A p \in Ports, d \in Sides : ~flag[p][d]
  /\ main \in Deleting => \A p \in Ports, d \in Sides : p < port => ~flag[p][d]
  /\ main \in {"close", "close_join"} /\ side = "send" => ~flag[port]["recv"]
  /\ main = "close_join" => ~flag[port][side]
  /\ main = "release" => \A d \in Sides : ~flag[port][d]

ThreadInv ==
  /\ flag \in [Ports -> [Sides -> BOOLEAN]]
  /\ thread \in [Ports -> [Sides -> {"none", "test", "body", "done"}]]
  /\ main \in {"print", "send", "sleep", "delete", "stopped", "release"} => side = "recv"
  /\ FlagCovers
  /\ FlagsClear

\* The printing thread starts after client_start.
PrinterInv ==
  /\ next \in Ports
  /\ printer # "none" => main \notin Creating \cup {"start", "print"}
  /\ OnlyPrinterDangles

\* Before client_start no flag is set and no thread runs.
LEMMA ThreadInit == Init => ThreadInv /\ PrinterInv
BY ClientAssumption, SMTT(30) DEF Init, ThreadInv, PrinterInv, FlagCovers, Ended, FlagsClear, Ports, Sides,
   Creating, Deleting, OnlyPrinterDangles

\* Steps of main that leave flags and threads alone.
LEMMA StillThreads ==
  ASSUME Places, ThreadInv, UNCHANGED threads, Places',
         main \notin {"stop_join", "close_join"},
         main' \in {"print", "send", "sleep", "delete", "stopped", "release"} => side' = "recv",
         \/ main \in Creating
         \/ main \in Running /\ main' \in Running
         \/ main \in Running /\ main' = "close" /\ port' = 1 /\ side' = "recv"
         \/ main = "release" /\ main' = "close" /\ port' = port + 1 /\ side' = "recv"
         \/ main = "release" /\ main' = "free" /\ port = PortCount
         \/ main' \in {"exit", "abort"}
  PROVE  ThreadInv'
<1> USE DEF Places, ThreadInv, threads, Running, Creating, Deleting, Labels, Ports, Sides
<1>1. FlagCovers'
  BY Zenon DEF FlagCovers, Ended
<1>2. CASE main \in Creating
  <2>1. \A p \in Ports, d \in Sides : ~flag'[p][d]
    BY <1>2, SMTT(30) DEF FlagsClear
  <2> QED BY <1>1, <2>1, SMTT(30) DEF FlagsClear
<1>3. CASE main \notin Creating
  BY <1>1, <1>3, ClientAssumption, SMTT(30) DEF FlagsClear
<1> QED BY <1>2, <1>3, Zenon

\* A thread is started with its flag.
LEMMA StartKeepsThreads == Places /\ Places' /\ ThreadInv /\ StartThread => ThreadInv'
<1> SUFFICES ASSUME Places, Places', ThreadInv, StartThread PROVE ThreadInv'
  BY Zenon
<1>1. CASE UNCHANGED threads
  BY <1>1, StillThreads, Zenon DEF StartThread, Places, Running, threads, ThreadInv
<1>2. CASE /\ flag' = [flag EXCEPT ![port][side] = TRUE]
           /\ thread' = [thread EXCEPT ![port][side] = "test"]
           /\ side' = IF side = "recv" THEN "send" ELSE "recv"
           /\ main' \in {"start", "print"} /\ (main' = "print" => side = "send")
  <2> USE DEF Places, ThreadInv, Ports, Sides
  <2>1. FlagCovers'
    BY <1>2, SMTT(30) DEF FlagCovers, Ended, StartThread
  <2> QED BY <1>2, <2>1, Zenon DEF FlagsClear, Creating, Deleting
<1>3. main = "start" /\ side \in {"recv", "send"}
  BY Zenon DEF StartThread, Places, Sides
<1> QED BY <1>1, <1>2, <1>3, Zenon DEF StartThread, threads

\* Clearing a flag leads to the join of its thread, and past it.
LEMMA StopKeepsThreads ==
  ASSUME Places, Places', ThreadInv,
         NEW phase, NEW join, NEW after,
         <<phase, join, after>> \in {<<"stop", "stop_join", "stopped">>,
                                     <<"close", "close_join", "release">>},
         StopThread(phase, join, after)
  PROVE  ThreadInv'
<1> USE DEF Places, ThreadInv, Ports, Sides
<1>0. \/ phase = "stop" /\ join = "stop_join" /\ after = "stopped"
      \/ phase = "close" /\ join = "close_join" /\ after = "release"
  BY Zenon
<1>1. CASE /\ main = phase /\ flag[port][side]
  <2>1. /\ flag' = [flag EXCEPT ![port][side] = FALSE] /\ thread' = thread
        /\ main' = join /\ side' = side /\ port' = port
    BY <1>0, <1>1, Zenon DEF StopThread
  <2>2. FlagCovers'
    BY <1>0, <1>1, <2>1, Zenon DEF FlagCovers, Ended
  <2>3. FlagsClear'
    BY <1>0, <1>1, <2>1, SMTT(30) DEF FlagsClear, Creating, Deleting
  <2> QED BY <1>0, <2>1, <2>2, <2>3, Zenon
<1>2. CASE /\ main = phase /\ ~flag[port][side]
  <2>1. /\ flag' = [flag EXCEPT ![port][side] = FALSE] /\ thread' = thread
        /\ side' = (IF side = "recv" THEN "send" ELSE "recv") /\ port' = port
        /\ main' = IF side = "recv" THEN phase ELSE after
    BY <1>0, <1>2, Zenon DEF StopThread
  <2>2. FlagCovers'
    BY <1>0, <1>2, <2>1, SMTT(30) DEF FlagCovers, Ended
  <2>3. FlagsClear'
    BY <1>0, <1>2, <2>1, SMTT(30) DEF FlagsClear, Creating, Deleting
  <2> QED BY <1>0, <2>1, <2>2, <2>3, Zenon
<1>3. CASE main = join
  <2>1. /\ thread' = [thread EXCEPT ![port][side] = "none"] /\ flag' = flag
        /\ side' = (IF side = "recv" THEN "send" ELSE "recv") /\ port' = port
        /\ main' = IF side = "recv" THEN phase ELSE after
    BY <1>0, <1>3, Zenon DEF StopThread
  <2>2. FlagCovers'
    BY <1>0, <1>3, <2>1, Zenon DEF FlagCovers, Ended
  <2>3. FlagsClear'
    BY <1>0, <1>3, <2>1, Zenon DEF FlagsClear, Creating, Deleting
  <2> QED BY <1>0, <2>1, <2>2, <2>3, Zenon
<1> QED BY <1>0, <1>1, <1>2, <1>3, Zenon DEF StopThread

\* Every step keeps the threads as described.
LEMMA ThreadStep == Places /\ Places' /\ ThreadInv /\ [Next]_vars => ThreadInv'
<1> SUFFICES ASSUME Places, Places', ThreadInv, [Next]_vars PROVE ThreadInv'
  BY Zenon
<1>1. CASE Create
  <2>1. UNCHANGED threads /\ side' = side /\ main \in Creating
    BY <1>1, Zenon DEF Create, CreateContext, CreateArrays, CreateSocket, CreateQueues,
       CreateConnection, Creating
  <2>2. main' \notin {"print", "send", "sleep", "delete", "stopped", "release"}
    BY <1>1, Zenon DEF Create, CreateContext, CreateArrays, CreateSocket, CreateQueues,
       CreateConnection, Fail
  <2> QED BY <2>1, <2>2, StillThreads, Zenon DEF Creating
<1>2. CASE StartPrinter \/ SendPid \/ Sleep \/ BeginDelete \/ NextStop
  <2>1. side = "recv" /\ side' = side /\ UNCHANGED threads
    BY <1>2, Zenon DEF ThreadInv, StartPrinter, SendPid, Sleep, BeginDelete, NextStop
  <2>2. main \in {"print", "send", "sleep", "delete", "stopped"}
    BY <1>2, Zenon DEF StartPrinter, SendPid, Sleep, BeginDelete, NextStop
  <2>3. \/ main' \in Running
        \/ main' = "abort"
        \/ main' = "close" /\ port' = 1
    <3>1. CASE StartPrinter \/ SendPid \/ Sleep
      BY <3>1, ClientAssumption, Zenon DEF StartPrinter, SendPid, Sleep, Running, Places, Ports
    <3>2. CASE BeginDelete
      BY <3>2, Zenon DEF BeginDelete, Running, Places
    <3>3. CASE NextStop
      BY <3>3, ClientAssumption, Zenon DEF NextStop, Running, Places, Ports
    <3> QED BY <1>2, <3>1, <3>2, <3>3, Zenon
  <2> QED BY <2>1, <2>2, <2>3, StillThreads, Zenon DEF Running
<1>3. CASE Release
  <2>1. UNCHANGED threads /\ side' = side /\ main \in {"release", "free"}
    BY <1>3, Zenon DEF Release
  <2>2. \/ main = "release" /\ main' = "close" /\ port' = port + 1
        \/ main = "release" /\ main' = "free" /\ port = PortCount
        \/ main' = "exit"
    BY <1>3, ClientAssumption, SMTT(30) DEF Release, Places, Ports
  <2>3. main = "release" => side = "recv"
    BY Zenon DEF ThreadInv
  <2> QED BY <2>1, <2>2, <2>3, StillThreads, Zenon
<1>4. CASE \E p \in Ports : \/ ReceiveThread(p) \/ SendThread(p)
                            \/ \E d \in Sides : TestFlag(p, d)
  <2>1. PICK p \in Ports, d \in Sides, t \in {"test", "body", "done"} :
          thread[p][d] # "none" /\ thread' = [thread EXCEPT ![p][d] = t]
    BY <1>4, Zenon DEF ReceiveThread, SendThread, TestFlag, Sides
  <2>2. UNCHANGED <<flag, place>>
    BY <1>4, Zenon DEF ReceiveThread, SendThread, TestFlag
  <2>3. FlagCovers'
    BY <2>1, <2>2, Zenon DEF FlagCovers, Ended, ThreadInv, place
  <2> QED BY <2>1, <2>2, <2>3, Zenon DEF ThreadInv, FlagsClear, place
<1>5. CASE UNCHANGED <<threads, place>>
  BY <1>5, Zenon DEF ThreadInv, FlagCovers, Ended, FlagsClear, threads, place
<1>6. CASE Printer
  <2>1. UNCHANGED <<threads, port, side>> /\ (main' = main \/ main' = "abort")
    BY <1>6, Zenon DEF Printer, Poll, PrintAnswer, PollFreed, place
  <2>2. CASE main' = main
    BY <1>5, <2>1, <2>2, Zenon DEF place
  <2>3. CASE main' = "abort"
    \* The process has ended.
    BY <2>1, <2>3, Zenon DEF ThreadInv, FlagCovers, Ended, FlagsClear, threads, Creating, Deleting
  <2> QED BY <2>1, <2>2, <2>3, Zenon
<1>7. CASE UNCHANGED vars
  BY <1>5, <1>7, Zenon DEF vars
<1>8. CASE \/ StopThread("stop", "stop_join", "stopped")
           \/ StopThread("close", "close_join", "release")
  BY <1>8, StopKeepsThreads, SMTT(30)
<1> QED BY <1>1, <1>2, <1>3, <1>4, <1>6, <1>7, <1>8, StartKeepsThreads, Zenon DEF Next, Main

\* While a thread of a port runs all objects of the port are allocated.
LEMMA ThreadsHaveObjects ==
  ASSUME HeapInv, ThreadInv, ~Ended,
         NEW p \in Ports, NEW d \in Sides, thread[p][d] # "none"
  PROVE  PortObjects(p) \subseteq heap
<1> USE ClientAssumption DEF Ports
<1>1. \/ flag[p][d]
      \/ main \in {"stop_join", "close_join"} /\ port = p
  BY Zenon DEF ThreadInv, FlagCovers
<1>2. main \in Running \/ (main \in Deleting /\ port <= p)
  BY <1>1 DEF ThreadInv, FlagsClear, HeapInv, Places, Labels, Ended, Creating, Running, Deleting
<1>3. CASE main \in Running
  <2>1. Whole(1, PortCount) \subseteq heap
    BY <1>3, Zenon DEF HeapInv, Expected, Running, Deleting
  <2> QED BY <2>1, Zenon DEF Whole
<1>4. CASE main \in Deleting /\ port <= p
  <2>1. Whole(port, PortCount) \subseteq heap /\ port \in Nat
    BY <1>4 DEF HeapInv, Places, Expected, Running, Deleting
  <2> QED BY <1>4, <2>1, SMTT(30) DEF Whole
<1> QED BY <1>2, <1>3, <1>4, Zenon

\* What the printing thread needs is allocated until the deletion begins.
LEMMA PrinterHasObjects ==
  ASSUME HeapInv, main \in Running, NEW p \in Ports
  PROVE  Needed(p) \subseteq heap
<1>1. ContextObjects \cup Whole(1, PortCount) \subseteq heap
  BY Zenon DEF HeapInv, Expected, Running, Deleting
<1>2. PortObjects(p) \subseteq Whole(1, PortCount)
  BY Zenon DEF Whole, Ports
<1> QED BY <1>1, <1>2, Zenon DEF Needed, ContextObjects, PortObjects, Of

\* Every step keeps what is said of the printing thread and of freed objects.
LEMMA PrinterStep == HeapInv /\ HeapInv' /\ ThreadInv /\ PrinterInv /\ [Next]_vars => PrinterInv'
<1> SUFFICES ASSUME HeapInv, HeapInv', ThreadInv, PrinterInv, [Next]_vars PROVE PrinterInv'
  BY Zenon
<1> DEFINE Late == {"close", "close_join", "release", "free", "exit", "abort"}
<1>1. CASE Main
  <2>1. UNCHANGED <<misuse, next>>
    BY <1>1, Zenon DEF Main, Create, CreateContext, CreateArrays, CreateSocket, CreateQueues,
       CreateConnection, StartThread, StartPrinter, SendPid, Sleep, BeginDelete, StopThread,
       NextStop, Release, memory, printvars
  <2>2. main \in Late => main' \in Late
    BY <1>1, Zenon DEF Main, Create, CreateContext, CreateArrays, CreateSocket, CreateQueues,
       CreateConnection, StartThread, StartPrinter, SendPid, Sleep, BeginDelete, StopThread,
       NextStop, Release
  <2>3. printer' # "none" => main' \notin Creating \cup {"start", "print"}
    <3>1. CASE Create \/ StartThread
      BY <3>1, Zenon DEF PrinterInv, Create, CreateContext, CreateArrays, CreateSocket, CreateQueues,
         CreateConnection, StartThread, Creating, printvars
    <3>2. CASE StartPrinter
      BY <3>2, Zenon DEF StartPrinter, Creating
    <3>3. CASE SendPid \/ Sleep \/ BeginDelete \/ NextStop \/ Release
      BY <3>3, Zenon DEF SendPid, Sleep, BeginDelete, NextStop, Release, Creating
    <3>4. CASE \/ StopThread("stop", "stop_join", "stopped")
               \/ StopThread("close", "close_join", "release")
      BY <3>4, Zenon DEF StopThread, Creating
    <3> QED BY <1>1, <3>1, <3>2, <3>3, <3>4, Zenon DEF Main
  <2> QED BY <2>1, <2>2, <2>3, Zenon DEF PrinterInv, OnlyPrinterDangles
<1>2. ASSUME NEW p \in Ports, NEW d \in Sides,
             TestFlag(p, d) \/ ReceiveThread(p) \/ SendThread(p)
      PROVE  PrinterInv'
  <2>1. ~Ended /\ \E e \in Sides : thread[p][e] # "none"
    BY <1>2, Zenon DEF TestFlag, ReceiveThread, SendThread, Sides
  <2>2. PortObjects(p) \subseteq heap
    BY <2>1, ThreadsHaveObjects, Zenon
  <2>3. misuse' = misuse
    BY <1>2, <2>2, Zenon DEF TestFlag, ReceiveThread, SendThread, Uses, PortObjects, Of
  <2>4. UNCHANGED <<place, printvars>>
    BY <1>2, Zenon DEF TestFlag, ReceiveThread, SendThread
  <2> QED BY <2>3, <2>4, Zenon DEF PrinterInv, OnlyPrinterDangles, place, printvars
<1>3. CASE Poll \/ PrintAnswer
  <2>1. UNCHANGED <<misuse, main>> /\ next' \in Ports /\ printer # "none"
    BY <1>3, ClientAssumption, SMTT(30) DEF Poll, PrintAnswer, memory, place, PrinterInv, Ports
  <2> QED BY <2>1, Zenon DEF PrinterInv, OnlyPrinterDangles
<1>4. CASE PollFreed
  <2>1. /\ printer = "poll" /\ ~Ended /\ ~(Needed(next) \subseteq heap)
        /\ misuse' = misuse \cup {"printer"} /\ (main' = main \/ main' = "abort")
    BY <1>4, Zenon DEF PollFreed, Uses
  <2>2. next' \in Ports
    BY <1>4, ClientAssumption DEF PollFreed, PrinterInv, Ports
  <2>3. main \notin Running
    BY <2>1, PrinterHasObjects, Zenon DEF PrinterInv
  <2>4. main \in Late
    BY <2>1, <2>3, Zenon DEF PrinterInv, HeapInv, Places, Labels, Running, Creating
  <2> QED BY <2>1, <2>2, <2>4, Zenon DEF PrinterInv, OnlyPrinterDangles, Creating
<1>5. CASE UNCHANGED vars
  BY <1>5, Zenon DEF vars, memory, place, printvars, PrinterInv, OnlyPrinterDangles
<1> QED BY <1>1, <1>2, <1>3, <1>4, <1>5, Zenon DEF Next, Printer, Sides

\* No thread of a connection uses a freed object, for any number of ports and
\* wherever client_start failed; only print_received_messages can, and only
\* once client_delete_context has begun to delete connections.
THEOREM ClientDangles == Spec => []OnlyPrinterDangles
<1>1. Init => HeapInv /\ ThreadInv /\ PrinterInv
  BY HeapInit, ThreadInit, Zenon
<1>2. HeapInv /\ ThreadInv /\ PrinterInv /\ [Next]_vars => (HeapInv /\ ThreadInv /\ PrinterInv)'
  BY HeapStep, ThreadStep, PrinterStep, Zenon DEF HeapInv
<1>3. PrinterInv => OnlyPrinterDangles
  BY Zenon DEF PrinterInv
<1> QED BY <1>1, <1>2, <1>3, PTL DEF Spec

-----------------------------------------------------------------------------
(* The types, and the limit of the queues. *)

\* The queues of a port hold less than their capacity.
Queue == {s \in Seq(Ports) : Len(s) < Capacity}
QueueInv == incoming \in [Ports -> Queue] /\ outgoing \in [Ports -> Queue]

OtherTypes ==
  /\ mode \in Modes /\ heap \subseteq Objects /\ asked \subseteq Ports
  /\ printer \in {"none", "poll", "print", "hung"} /\ printing \in Ports \cup {0}

\* message_queue_enqueue discards half of a full queue.
LEMMA EnqueueFits ==
  ASSUME NEW s \in Queue, NEW p \in Ports PROVE Enq(s, p, Capacity) \in Queue
<1> DEFINE a == Dropped(s, Capacity) + 1
           n == Len(s)
           t == SubSeq(s, a, n)
<1>1. s \in Seq(Ports) /\ n \in Nat /\ n < Capacity /\ Capacity \in Nat /\ Capacity >= 2
  BY ClientAssumption DEF Queue
<1>2. a \in 1 .. n + 1 /\ n - a + 2 < Capacity /\ a \in Int /\ n \in Int
  BY <1>1 DEF Dropped
<1>3. \A i \in a .. n : s[i] \in Ports
  <2>1. \A i \in 1 .. Len(s) : s[i] \in Ports
    BY <1>1
  <2> HIDE DEF a
  <2> QED
    BY <1>1, <1>2, <2>1
<1>4. n = Len(s) /\ Enq(s, p, Capacity) = Append(t, p) /\ t = SubSeq(s, a, n)
  BY Zenon DEF Enq
<1> HIDE DEF a, n, t
<1>5. SubSeq(s, a, n) \in Seq(Ports) /\ Len(SubSeq(s, a, n)) = IF a <= n THEN n - a + 1 ELSE 0
  BY ONLY <1>2, <1>3, SMTT(30)
<1>6. t \in Seq(Ports) /\ Len(t) + 1 < Capacity
  BY ONLY <1>1, <1>2, <1>4, <1>5, SMTT(30)
<1>7. Append(t, p) \in Seq(Ports) /\ Len(Append(t, p)) = Len(t) + 1
  BY <1>6
<1> QED
  BY <1>4, <1>6, <1>7, Zenon DEF Queue

\* What a queue without its first message is.
LEMMA TailFits == ASSUME NEW s \in Queue, s # <<>> PROVE Tail(s) \in Queue
<1>1. s \in Seq(Ports) /\ Len(s) < Capacity /\ Capacity \in Nat
  BY ClientAssumption, Zenon DEF Queue
<1>2. Tail(s) \in Seq(Ports) /\ Len(Tail(s)) = Len(s) - 1 /\ Len(s) \in Nat
  BY <1>1
<1> QED
  BY <1>1, <1>2 DEF Queue

LEMMA QueueStep == ASSUME Places, PrinterInv, QueueInv, [Next]_vars PROVE QueueInv'
<1>0. port \in Ports /\ next \in Ports /\ <<>> \in Queue
  BY ClientAssumption DEF Places, PrinterInv, Queue
<1>1. CASE UNCHANGED <<incoming, outgoing>>
  BY <1>1, Zenon DEF QueueInv
<1>2. CASE SendPid
  <2>1. UNCHANGED incoming /\ (UNCHANGED outgoing \/
          outgoing' = [outgoing EXCEPT ![port] = Enq(outgoing[port], port, Capacity)])
    BY <1>2, Zenon DEF SendPid
  <2>2. Enq(outgoing[port], port, Capacity) \in Queue
    BY <1>0, EnqueueFits, Zenon DEF QueueInv
  <2> QED
    BY <1>0, <2>1, <2>2, Zenon DEF QueueInv
<1>3. CASE Release
  <2>1. \/ UNCHANGED <<incoming, outgoing>>
        \/ /\ incoming' = [incoming EXCEPT ![port] = <<>>]
           /\ outgoing' = [outgoing EXCEPT ![port] = <<>>]
    BY <1>3, Zenon DEF Release
  <2> QED
    BY <1>0, <1>1, <2>1, Zenon DEF QueueInv
<1>4. ASSUME NEW p \in Ports, ReceiveThread(p) PROVE QueueInv'
  <2>1. UNCHANGED outgoing /\ (UNCHANGED incoming \/
          incoming' = [incoming EXCEPT ![p] = Enq(incoming[p], p, Capacity)])
    BY <1>4, Zenon DEF ReceiveThread
  <2>2. Enq(incoming[p], p, Capacity) \in Queue
    BY EnqueueFits, Zenon DEF QueueInv
  <2> QED
    BY <2>1, <2>2, Zenon DEF QueueInv
<1>5. ASSUME NEW p \in Ports, SendThread(p) PROVE QueueInv'
  <2>1. /\ UNCHANGED incoming
        /\ \/ UNCHANGED outgoing
           \/ outgoing[p] # <<>> /\ outgoing' = [outgoing EXCEPT ![p] = Tail(outgoing[p])]
    BY <1>5, Zenon DEF SendThread
  <2>2. outgoing[p] # <<>> => Tail(outgoing[p]) \in Queue
    BY TailFits, Zenon DEF QueueInv
  <2> QED
    BY <2>1, <2>2, Zenon DEF QueueInv
<1>6. CASE Poll
  <2>1. /\ UNCHANGED outgoing
        /\ \/ UNCHANGED incoming
           \/ incoming[next] # <<>> /\ incoming' = [incoming EXCEPT ![next] = Tail(incoming[next])]
    BY <1>6, Zenon DEF Poll
  <2>2. incoming[next] # <<>> => Tail(incoming[next]) \in Queue
    BY <1>0, TailFits, Zenon DEF QueueInv
  <2> QED
    BY <1>0, <2>1, <2>2, Zenon DEF QueueInv
<1>7. CASE Create
  BY <1>1, <1>7, Zenon DEF Create, CreateContext, CreateArrays, CreateSocket, CreateQueues,
     CreateConnection, queues
<1>8. CASE StartThread \/ StartPrinter \/ Sleep \/ BeginDelete \/ NextStop
           \/ StopThread("stop", "stop_join", "stopped") \/ StopThread("close", "close_join", "release")
  BY <1>1, <1>8, Zenon DEF StartThread, StartPrinter, Sleep, BeginDelete, NextStop, StopThread, queues
<1>9. CASE PrintAnswer \/ PollFreed
  BY <1>1, <1>9, Zenon DEF PrintAnswer, PollFreed, queues
<1>10. ASSUME NEW p \in Ports, NEW d \in Sides, TestFlag(p, d) PROVE QueueInv'
  BY <1>1, <1>10, Zenon DEF TestFlag, queues
<1>11. CASE UNCHANGED vars
  BY <1>1, <1>11, Zenon DEF vars, queues
<1> QED
  BY <1>2, <1>3, <1>4, <1>5, <1>6, <1>7, <1>8, <1>9, <1>10, <1>11, Zenon DEF Next, Main, Printer

LEMMA RunningStep == is_running \in BOOLEAN /\ [Next]_vars => is_running' \in BOOLEAN
<1> SUFFICES ASSUME is_running \in BOOLEAN, [Next]_vars PROVE is_running' \in BOOLEAN
  BY Zenon
<1>1. CASE UNCHANGED is_running
  BY <1>1, Zenon
<1>2. CASE StartThread
  <2>1. is_running' = is_running \/ is_running' = (port = PortCount)
    BY <1>2, Zenon DEF StartThread
  <2> QED
    BY <2>1, Zenon
<1>3. CASE NextStop
  <2>1. is_running' = (port < PortCount)
    BY <1>3, Zenon DEF NextStop
  <2>2. (port < PortCount) \in BOOLEAN
    BY SMTT(30)
  <2> QED
    BY ONLY <2>1, <2>2, Zenon
<1>4. CASE Create
  BY <1>1, <1>4, Zenon DEF Create, CreateContext, CreateArrays, CreateSocket, CreateQueues,
     CreateConnection, state
<1>5. CASE StartPrinter \/ SendPid \/ Sleep \/ BeginDelete \/ Release
           \/ StopThread("stop", "stop_join", "stopped") \/ StopThread("close", "close_join", "release")
  BY <1>1, <1>5, Zenon DEF StartPrinter, SendPid, Sleep, BeginDelete, Release, StopThread, state
<1>6. CASE Printer
  BY <1>1, <1>6, Zenon DEF Printer, Poll, PrintAnswer, PollFreed, state
<1>7. ASSUME NEW p \in Ports, ReceiveThread(p) \/ SendThread(p) \/ \E d \in Sides : TestFlag(p, d)
      PROVE  UNCHANGED is_running
  BY <1>7, Zenon DEF ReceiveThread, SendThread, TestFlag, state
<1>8. UNCHANGED vars => UNCHANGED is_running
  BY Zenon DEF vars, state
<1> QED
  BY <1>1, <1>2, <1>3, <1>4, <1>5, <1>6, <1>7, <1>8, Zenon DEF Next, Main

LEMMA OtherTypesStep ==
  ASSUME Places, PrinterInv, OtherTypes, [Next]_vars PROVE OtherTypes'
<1> USE DEF OtherTypes
<1>0. /\ port \in Ports /\ next \in Ports
      /\ ContextObjects \subseteq Objects /\ PortObjects(port) \subseteq Objects /\ FirstArray \in Objects
  BY Zenon DEF Places, PrinterInv, Objects
<1>1. CASE Create
  <2>1. UNCHANGED <<mode, asked, printer, printing>>
    BY <1>1, Zenon DEF Create, CreateContext, CreateArrays, CreateSocket, CreateQueues, CreateConnection,
       state, queues, printvars
  <2>2. \A fault, wanted : \A got \in Allocated(fault, wanted) : got \subseteq wanted
    BY Zenon DEF Allocated
  <2>3. /\ \A k \in {"socket", "incoming", "outgoing", "connection"} : <<k, port>> \in PortObjects(port)
        /\ {<<"context", 0>>, <<"sockaddrs", 0>>, <<"connections", 2>>} \subseteq Objects
    BY <1>0, Zenon DEF PortObjects, Of, ContextObjects
  <2>4. CASE CreateContext
    <3>1. heap' \subseteq heap \cup {<<"context", 0>>}
      BY <2>2, <2>4, Zenon DEF CreateContext, Fail
    <3> QED
      BY <2>1, <2>3, <3>1, Zenon
  <2>5. CASE CreateArrays
    <3>1. heap' \subseteq heap \cup {<<"sockaddrs", 0>>, <<"connections", 2>>, FirstArray}
      <4>1. PICK got \in Allocated("malloc", {<<"sockaddrs", 0>>, <<"connections", 2>>}),
                 first \in Allocated("malloc", {FirstArray}) :
              heap' = IF Cardinality(got) = 2 THEN heap \cup got \cup first ELSE first
        BY <2>5, Zenon DEF CreateArrays
      <4>2. got \subseteq {<<"sockaddrs", 0>>, <<"connections", 2>>} /\ first \subseteq {FirstArray}
        BY <2>2, Zenon
      <4> QED
        BY <4>1, <4>2, Zenon
    <3> QED
      BY <1>0, <2>1, <2>3, <3>1, Zenon
  <2>6. CASE CreateSocket
    <3>1. heap' \subseteq heap \cup Of({"socket"}, port)
      BY <2>2, <2>6, Zenon DEF CreateSocket, Fail
    <3> QED
      BY <1>0, <2>1, <2>3, <3>1, Zenon DEF Of
  <2>7. CASE CreateQueues
    <3>1. heap' \subseteq heap \cup Of({"incoming", "outgoing"}, port)
      BY <2>2, <2>7, Zenon DEF CreateQueues
    <3> QED
      BY <1>0, <2>1, <2>3, <3>1, Zenon DEF Of
  <2>8. CASE CreateConnection
    <3>1. heap' \subseteq heap \cup Of({"connection"}, port)
      BY <2>2, <2>8, Zenon DEF CreateConnection, Fail
    <3> QED
      BY <1>0, <2>1, <2>3, <3>1, Zenon DEF Of
  <2> QED
    BY <1>1, <2>4, <2>5, <2>6, <2>7, <2>8, Zenon DEF Create
<1>2. CASE Release
  BY <1>2, Zenon DEF Release, state, printvars
<1>3. CASE StartPrinter
  BY <1>3, Zenon DEF StartPrinter, state, memory, queues
<1>4. CASE \/ StartThread \/ SendPid \/ Sleep \/ BeginDelete \/ NextStop
           \/ StopThread("stop", "stop_join", "stopped") \/ StopThread("close", "close_join", "release")
  <2>1. UNCHANGED <<mode, heap, asked, printer, printing>>
    BY <1>4, Zenon DEF StartThread, SendPid, Sleep, BeginDelete, NextStop, StopThread, state, memory,
       queues, printvars
  <2> QED
    BY <2>1, Zenon
<1>5. ASSUME NEW p \in Ports, ReceiveThread(p) \/ SendThread(p) \/ \E d \in Sides : TestFlag(p, d)
      PROVE  OtherTypes'
  <2>1. /\ UNCHANGED <<mode, heap, printer, printing>>
        /\ asked' = asked \/ asked' = asked \cup {p}
    BY <1>5, Zenon DEF ReceiveThread, SendThread, TestFlag, state, queues, printvars
  <2> QED
    BY <2>1, Zenon
<1>6. CASE Printer
  <2>1. /\ UNCHANGED <<mode, heap, asked>>
        /\ printer' \in {printer, "poll", "print", "hung"} /\ printing' \in {printing, next, 0}
    BY <1>6, Zenon DEF Printer, Poll, PrintAnswer, PollFreed, state, memory, queues
  <2> QED
    BY <1>0, <2>1, Zenon
<1>7. CASE UNCHANGED vars
  BY <1>7, Zenon DEF vars, state, memory, queues, printvars
<1> QED
  BY <1>1, <1>2, <1>3, <1>4, <1>5, <1>6, <1>7, Zenon DEF Next, Main

\* Every variable of the client has its type, and the queues of the ports stay
\* below their capacity: for any number of ports, any capacity above 1, both
\* modes and with every fault.
THEOREM ClientTyped == Spec => []TypeOK
<1> DEFINE I == /\ HeapInv /\ ThreadInv /\ PrinterInv
                /\ QueueInv /\ OtherTypes /\ is_running \in BOOLEAN
<1>1. Init => I
  <2> SUFFICES ASSUME Init PROVE I
    BY Zenon
  <2>1. HeapInv /\ ThreadInv /\ PrinterInv
    BY HeapInit, ThreadInit, Zenon
  <2>2. <<>> \in Queue
    BY ClientAssumption, SMTT(30) DEF Queue
  <2>3. QueueInv /\ OtherTypes
    BY <2>2, Zenon DEF Init, QueueInv, OtherTypes
  <2>4. is_running \in BOOLEAN
    BY Zenon DEF Init
  <2> QED
    BY <2>1, <2>3, <2>4, Zenon
<1>2. I /\ [Next]_vars => I'
  <2> SUFFICES ASSUME I, [Next]_vars PROVE I'
    BY Zenon
  <2>1. HeapInv' /\ ThreadInv' /\ PrinterInv'
    BY HeapStep, ThreadStep, PrinterStep, Zenon DEF HeapInv
  <2>2. QueueInv' /\ OtherTypes'
    BY QueueStep, OtherTypesStep, Zenon DEF HeapInv
  <2>3. is_running' \in BOOLEAN
    BY RunningStep, Zenon
  <2> QED
    BY <2>1, <2>2, <2>3, Zenon
<1>3. I => TypeOK
  <2> SUFFICES ASSUME I PROVE TypeOK
    BY Zenon
  <2>1. \A p \in Ports : Len(incoming[p]) < Capacity /\ Len(outgoing[p]) < Capacity
    BY Zenon DEF QueueInv, Queue
  <2>2. misuse \subseteq {"recv", "send", "printer"}
    BY Zenon DEF PrinterInv, OnlyPrinterDangles
  <2> QED
    BY <2>1, <2>2, Zenon DEF HeapInv, Places, ThreadInv, PrinterInv, OtherTypes, TypeOK
<1> QED
  BY <1>1, <1>2, <1>3, PTL DEF Spec
=============================================================================
