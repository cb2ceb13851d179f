------------------------------- MODULE Client -------------------------------
(***************************************************************************)
(* src/client/client.c: a connection for each server port, the thread that *)
(* prints answers, the two sending modes, and the deletion of all of it.   *)
(*                                                                         *)
(* heap holds what is allocated, so that the error paths of                *)
(* client_create_context and the order of deletion can be compared with    *)
(* what is still in use.  Each connection is here its two threads, their   *)
(* flags and its two queues; NetConnection has their inner steps.  Answers *)
(* are not told apart: once something was sent to a port, any number of    *)
(* answers may come from it.                                               *)
(***************************************************************************)
EXTENDS QueueOps, Integers, FiniteSets

CONSTANTS
  PortCount,  \* port_count
  Capacity,   \* of the queues
  Modes,      \* the modes CLIENT_MODE may have
  Faults      \* what may fail: "malloc", "socket", "bind", "queue", "thread",
              \* "message" (message_create)

ASSUME ClientAssumption ==
  /\ PortCount \in Nat \ {0}
  /\ Capacity \in Nat \ {0, 1}
  /\ Modes \subseteq {"normal", "fuzz"}
  /\ Faults \subseteq {"malloc", "socket", "bind", "queue", "thread", "message"}

Ports == 1 .. PortCount
Sides == {"recv", "send"}  \* is_receiving and is_sending, and their threads

VARIABLES
  mode, context, is_running,
  heap,              \* the allocated objects
  misuse,            \* the threads that have used a freed object
  main, port, side,  \* where main is: its label, port and thread of the port
  flag, thread,      \* of each port and side
  incoming, outgoing,\* the queues of each port
  asked,             \* the ports something was sent to
  printer, next,     \* where the printing thread is, and the port it looks at
  printing           \* the port whose answer it has taken, or 0

memory == <<heap, misuse>>
place == <<main, port, side>>
threads == <<flag, thread>>
queues == <<incoming, outgoing, asked>>
printvars == <<printer, next, printing>>
state == <<mode, context, is_running>>
vars == <<state, memory, place, threads, queues, printvars>>

Init == /\ mode \in Modes
        /\ context = FALSE
        /\ is_running = FALSE
        /\ heap = {}
        /\ misuse = {}
        /\ main = "context" /\ port = 1 /\ side = "recv"
        /\ flag = [p \in Ports |-> [d \in Sides |-> FALSE]]
        /\ thread = [p \in Ports |-> [d \in Sides |-> "none"]]
        /\ incoming = [p \in Ports |-> <<>>]
        /\ outgoing = [p \in Ports |-> <<>>]
        /\ asked = {}
        /\ printer = "none" /\ next = 1 /\ printing = 0

Of(kinds, p) == {<<k, p>> : k \in kinds}
PortObjects(p) == Of({"socket", "incoming", "outgoing", "connection"}, p)

\* connections is allocated twice; the first array is overwritten.
FirstArray == <<"connections", 1>>
ContextObjects == {<<"context", 0>>, <<"sockaddrs", 0>>, <<"connections", 2>>}

\* What a call that allocates wanted may get.
Allocated(fault, wanted) == IF fault \in Faults THEN SUBSET wanted ELSE {wanted}
-----------------------------------------------------------------------------
(* client_create_context *)

\* client_create_context returns NULL, with objs freed, and client returns.
Fail(objs) == heap' = heap \ objs /\ main' = "exit" /\ UNCHANGED port

CreateContext ==
  /\ main = "context"
  /\ \E got \in Allocated("malloc", {<<"context", 0>>}) :
       IF got = {} THEN Fail({}) ELSE heap' = got /\ main' = "arrays" /\ UNCHANGED port
  /\ UNCHANGED <<state, misuse, side, threads, queues, printvars>>

\* Both mallocs of connections; the first is not looked at.
CreateArrays ==
  /\ main = "arrays"
  /\ \E got \in Allocated("malloc", {<<"sockaddrs", 0>>, <<"connections", 2>>}),
        first \in Allocated("malloc", {FirstArray}) :
       /\ main' = IF Cardinality(got) = 2 THEN "socket" ELSE "exit"
       /\ heap' = IF Cardinality(got) = 2 THEN heap \cup got \cup first ELSE first
  /\ UNCHANGED <<state, misuse, port, side, threads, queues, printvars>>

\* udp_socket_create, then udp_socket_bind
CreateSocket ==
  /\ \/ /\ main = "socket"
        /\ \E got \in Allocated("socket", Of({"socket"}, port)) :
             IF got = {} THEN Fail(ContextObjects)
             ELSE heap' = heap \cup got /\ main' = "bind" /\ UNCHANGED port
     \/ main = "bind" /\ main' = "queues" /\ UNCHANGED <<heap, port>>
     \/ /\ main = "bind" /\ "bind" \in Faults
        /\ Fail(ContextObjects \cup Of({"socket"}, port))
  /\ UNCHANGED <<state, misuse, side, threads, queues, printvars>>

\* Slip: a failed queue takes the path of a failed bind.
CreateQueuesLeak ==
  /\ main = "queues"
  /\ \E got \in Allocated("queue", Of({"incoming", "outgoing"}, port)) :
       IF Cardinality(got) = 2
       THEN heap' = heap \cup got /\ main' = "connection"
       ELSE /\ heap' = (heap \cup got) \ (ContextObjects \cup Of({"socket"}, port))
            /\ main' = "exit"
  /\ UNCHANGED <<state, misuse, port, side, threads, queues, printvars>>

\* Both queues are created before either is looked at; if one is missing the
\* other is deleted with the socket.
CreateQueues ==
  /\ main = "queues"
  /\ \E got \in Allocated("queue", Of({"incoming", "outgoing"}, port)) :
       IF Cardinality(got) = 2
       THEN heap' = heap \cup got /\ main' = "connection"
       ELSE heap' = heap \ (ContextObjects \cup Of({"socket"}, port)) /\ main' = "exit"
  /\ UNCHANGED <<state, misuse, port, side, threads, queues, printvars>>

\* net_connection_create; the connections of the ports before are not
\* deleted when it fails.
CreateConnection ==
  /\ main = "connection"
  /\ \E got \in Allocated("malloc", Of({"connection"}, port)) :
       IF got = {}
       THEN Fail(ContextObjects \cup PortObjects(port)) /\ UNCHANGED context
       ELSE /\ heap' = heap \cup got
            /\ context' = (port = PortCount)
            /\ port' = IF port < PortCount THEN port + 1 ELSE 1
            /\ main' = IF port < PortCount THEN "socket" ELSE "start"
  /\ UNCHANGED <<mode, is_running, misuse, side, threads, queues, printvars>>

Create == CreateContext \/ CreateArrays \/ CreateSocket \/ CreateQueues \/ CreateConnection
-----------------------------------------------------------------------------
(* client_start, client_send_pid_message and client *)

\* client_start: net_connection_start_receiving and start_sending for every
\* port.  A failure leaves is_running 0 and the threads started so far.
StartThread ==
  /\ main = "start"
  /\ \/ /\ flag' = [flag EXCEPT ![port][side] = TRUE]
        /\ thread' = [thread EXCEPT ![port][side] = "test"]
        /\ side' = IF side = "recv" THEN "send" ELSE "recv"
        /\ IF side = "recv" THEN UNCHANGED <<port, main, is_running>>
           ELSE /\ port' = IF port < PortCount THEN port + 1 ELSE 1
                /\ main' = IF port < PortCount THEN "start" ELSE "print"
                /\ is_running' = (port = PortCount)
     \/ /\ "thread" \in Faults
        /\ main' = "delete" /\ port' = 1 /\ side' = "recv"
        /\ UNCHANGED <<threads, is_running>>
  /\ UNCHANGED <<mode, context, memory, queues, printvars>>

\* pthread_create of the printing thread; if it fails client returns and
\* deletes nothing.
StartPrinter ==
  /\ main = "print"
  /\ \/ printer' = "poll" /\ main' = "send"
     \/ "thread" \in Faults /\ main' = "abort" /\ UNCHANGED printer
  /\ UNCHANGED <<state, memory, port, side, threads, queues, next, printing>>

\* One round of client_send_pid_message: the first port, or every port in
\* fuzz mode.  A failed message_create ends the client.
SendPid ==
  /\ main = "send"
  /\ \/ /\ outgoing' = [outgoing EXCEPT ![port] = Enq(@, port, Capacity)]
        /\ IF mode = "fuzz" /\ port < PortCount
           THEN port' = port + 1 /\ UNCHANGED main
           ELSE port' = 1 /\ main' = "sleep"
     \/ /\ "message" \in Faults
        /\ main' = "delete" /\ port' = 1
        /\ UNCHANGED outgoing
  /\ UNCHANGED <<state, memory, side, threads, incoming, asked, printvars>>

\* The sleeps after sending; fuzz mode goes on with the next pid.
Sleep == /\ main = "sleep"
         /\ main' = IF mode = "fuzz" THEN "send" ELSE "delete"
         /\ UNCHANGED <<state, memory, port, side, threads, queues, printvars>>
-----------------------------------------------------------------------------
(* client_delete_context *)

\* Slip: deletion relies on client_stop.
BeginDeleteTrusting ==
  /\ main = "delete"
  /\ main' = IF is_running THEN "stop" ELSE "release"
  /\ UNCHANGED <<state, memory, port, side, threads, queues, printvars>>

\* client_stop returns at once when is_running is 0.
BeginDelete ==
  /\ main = "delete"
  /\ main' = IF is_running THEN "stop" ELSE "close"
  /\ UNCHANGED <<state, memory, port, side, threads, queues, printvars>>

\* net_connection_stop_receiving and stop_sending, called by client_stop and
\* again by net_connection_delete: clear the flag, join the thread.
StopThread(phase, join, after) ==
  LET Stopped == /\ side' = IF side = "recv" THEN "send" ELSE "recv"
                 /\ main' = IF side = "recv" THEN phase ELSE after
  IN /\ \/ /\ main = phase
           /\ flag' = [flag EXCEPT ![port][side] = FALSE]
           /\ IF flag[port][side] THEN main' = join /\ UNCHANGED side ELSE Stopped
           /\ UNCHANGED thread
        \/ /\ main = join
           /\ thread[port][side] = "done"
           /\ thread' = [thread EXCEPT ![port][side] = "none"]
           /\ Stopped
           /\ UNCHANGED flag
     /\ UNCHANGED <<state, memory, port, queues, printvars>>

\* The loop of client_stop; is_running is cleared after it.
NextStop == /\ main = "stopped"
            /\ port' = IF port < PortCount THEN port + 1 ELSE 1
            /\ main' = IF port < PortCount THEN "stop" ELSE "close"
            /\ is_running' = (port < PortCount)
            /\ UNCHANGED <<mode, context, memory, side, threads, queues, printvars>>

\* The rest of net_connection_delete, port by port, then the context.
Release ==
  /\ \/ /\ main = "release"
        /\ heap' = heap \ PortObjects(port)
        /\ incoming' = [incoming EXCEPT ![port] = <<>>]
        /\ outgoing' = [outgoing EXCEPT ![port] = <<>>]
        /\ port' = IF port < PortCount THEN port + 1 ELSE 1
        /\ main' = IF port < PortCount THEN "close" ELSE "free"
     \/ /\ main = "free"
        /\ heap' = heap \ ContextObjects
        /\ main' = "exit"
        /\ UNCHANGED <<port, incoming, outgoing>>
  /\ UNCHANGED <<state, misuse, side, threads, asked, printvars>>

Main == \/ Create \/ StartThread \/ StartPrinter \/ SendPid \/ Sleep \/ BeginDelete
        \/ StopThread("stop", "stop_join", "stopped") \/ NextStop
        \/ StopThread("close", "close_join", "release") \/ Release
-----------------------------------------------------------------------------
(* The threads *)

Ended == main \in {"exit", "abort"}

\* A thread uses objects; using a freed one is remembered.
Uses(who, objs) == misuse' = IF objs \subseteq heap THEN misuse ELSE misuse \cup {who}

\* Slip: the loop does not test the flag.
TestForever(p, d) ==
  /\ ~Ended
  /\ thread[p][d] = "test"
  /\ Uses(d, Of({"connection"}, p))
  /\ thread' = [thread EXCEPT ![p][d] = "body"]
  /\ UNCHANGED <<state, heap, place, flag, queues, printvars>>

\* while (connection->is_receiving), while (connection->is_sending)
TestFlag(p, d) ==
  /\ ~Ended
  /\ thread[p][d] = "test"
  /\ Uses(d, Of({"connection"}, p))
  /\ thread' = [thread EXCEPT ![p][d] = IF flag[p][d] THEN "body" ELSE "done"]
  /\ UNCHANGED <<state, heap, place, flag, queues, printvars>>

\* The body of the receive loop: an answer comes and is enqueued, or the
\* timeout of recvfrom expires.
ReceiveThread(p) ==
  /\ ~Ended
  /\ thread[p]["recv"] = "body"
  /\ Uses("recv", Of({"connection", "socket", "incoming"}, p))
  /\ thread' = [thread EXCEPT ![p]["recv"] = "test"]
  /\ \/ UNCHANGED incoming
     \/ p \in asked /\ incoming' = [incoming EXCEPT ![p] = Enq(@, p, Capacity)]
  /\ UNCHANGED <<state, heap, place, flag, outgoing, asked, printvars>>

\* The body of the send loop: the nonblocking dequeue, and sending what it
\* returns.
SendThread(p) ==
  /\ ~Ended
  /\ thread[p]["send"] = "body"
  /\ Uses("send", Of({"connection", "socket", "outgoing"}, p))
  /\ thread' = [thread EXCEPT ![p]["send"] = "test"]
  /\ IF outgoing[p] = <<>> THEN UNCHANGED <<outgoing, asked>>
     ELSE /\ outgoing' = [outgoing EXCEPT ![p] = Tail(@)]
          /\ asked' = asked \cup {p}
  /\ UNCHANGED <<state, heap, place, flag, incoming, printvars>>

\* What print_received_messages uses to look at a port.
Needed(p) == {<<"context", 0>>, <<"connections", 2>>} \cup Of({"connection", "incoming"}, p)

\* Slip: the printing thread looks at the first port only.
PollFirst ==
  /\ ~Ended
  /\ printer = "poll"
  /\ Needed(1) \subseteq heap
  /\ IF incoming[1] = <<>> THEN UNCHANGED <<incoming, printer, printing>>
     ELSE /\ incoming' = [incoming EXCEPT ![1] = Tail(@)]
          /\ printing' = 1
          /\ printer' = "print"
  /\ UNCHANGED <<state, memory, place, threads, outgoing, asked, next>>

\* net_connection_receive_nonblocking on the next port
Poll ==
  /\ ~Ended
  /\ printer = "poll"
  /\ Needed(next) \subseteq heap
  /\ next' = IF next < PortCount THEN next + 1 ELSE 1
  /\ IF incoming[next] = <<>> THEN UNCHANGED <<incoming, printer, printing>>
     ELSE /\ incoming' = [incoming EXCEPT ![next] = Tail(@)]
          /\ printing' = next
          /\ printer' = "print"
  /\ UNCHANGED <<state, memory, place, threads, outgoing, asked>>

PrintAnswer == /\ ~Ended
               /\ printer = "print"
               /\ printer' = "poll"
               /\ printing' = 0
               /\ UNCHANGED <<state, memory, place, threads, queues, next>>

\* The printing thread uses what main has freed, which is undefined: it goes
\* on, prints what it took for a message, stays in a freed mutex, or the
\* process ends with a signal.
PollFreed ==
  /\ ~Ended
  /\ printer = "poll"
  /\ ~(Needed(next) \subseteq heap)
  /\ Uses("printer", Needed(next))
  /\ next' = IF next < PortCount THEN next + 1 ELSE 1
  /\ \/ printer' \in {"poll", "print", "hung"} /\ UNCHANGED main
     \/ main' = "abort" /\ UNCHANGED printer
  /\ UNCHANGED <<state, heap, port, side, threads, queues, printing>>

Printer == Poll \/ PrintAnswer \/ PollFreed

Next == \/ Main
        \/ \E p \in Ports : \/ ReceiveThread(p) \/ SendThread(p)
                           \/ \E d \in Sides : TestFlag(p, d)
        \/ Printer

Spec == Init /\ [][Next]_vars

\* The scheduler runs every thread; nothing says that an answer comes.
FairSpec == /\ Spec
            /\ WF_vars(Main)
            /\ WF_vars(Printer)
            /\ \A p \in Ports : /\ WF_vars(ReceiveThread(p) \/ TestFlag(p, "recv"))
                                /\ WF_vars(SendThread(p) \/ TestFlag(p, "send"))
-----------------------------------------------------------------------------
Labels == {"context", "arrays", "socket", "bind", "queues", "connection", "start",
           "print", "send", "sleep", "delete", "stop", "stop_join", "stopped", "close",
           "close_join", "release", "free", "exit", "abort"}
Objects == ContextObjects \cup {FirstArray} \cup UNION {PortObjects(p) : p \in Ports}

\* Every variable has its type.
TypeOK == /\ mode \in Modes /\ context \in BOOLEAN /\ is_running \in BOOLEAN
          /\ heap \subseteq Objects
          /\ misuse \subseteq {"recv", "send", "printer"}
          /\ main \in Labels /\ port \in Ports /\ side \in Sides
          /\ flag \in [Ports -> [Sides -> BOOLEAN]]
          /\ thread \in [Ports -> [Sides -> {"none", "test", "body", "done"}]]
          /\ \A p \in Ports : Len(incoming[p]) < Capacity /\ Len(outgoing[p]) < Capacity
          /\ asked \subseteq Ports
          /\ printer \in {"none", "poll", "print", "hung"} /\ next \in Ports
          /\ printing \in Ports \cup {0}

\* The threads of the connections never use a freed object, also when
\* client_start fails half way and client_stop does nothing.  The printing
\* thread, which nobody stops, may do so once the deletion has begun.
OnlyPrinterDangles ==
  /\ misuse \subseteq {"printer"}
  /\ misuse # {} => main \in {"close", "close_join", "release", "free", "exit", "abort"}

\* When client returns after a complete creation nothing is left allocated
\* but the array that was overwritten.  A creation that fails at a port frees
\* the context and all of that port; the ports before it stay allocated.
ReleasedAtExit ==
  main = "exit" =>
    heap \ {FirstArray} = IF context THEN {} ELSE UNION {PortObjects(p) : p \in 1 .. port - 1}

\* While answers of a port are queued the printing thread comes to print one
\* of them, whatever the other ports receive, unless the deletion begins.
AnswersPrinted ==
  \A p \in Ports : incoming[p] # <<>> ~> (printing = p \/ main \notin {"send", "sleep"})

\* In normal mode the client ends: every join of the deletion returns.
ClientEnds == mode = "normal" ~> Ended
=============================================================================
