------------------------------- MODULE Worker -------------------------------
(***************************************************************************)
(* One worker process of the server: worker_process_job and                *)
(* worker_on_message of src/server/server.c, src/server/server_worker.c    *)
(* and src/utility/safe_process.c on top of the connection.  user is the   *)
(* main thread of the process.  journal holds what worker_on_message       *)
(* passed to journal_write, in order; Journal models the write itself.     *)
(* result is what it is about to log and to answer; fate, what became of   *)
(* the process asked for, only lets a property compare.                    *)
(***************************************************************************)
EXTENDS NetConnection, CpuUsage, FiniteSets

CONSTANTS
  MaxMessages,  \* max_messages of server_worker_update
  WaitFirst     \* whether server_worker_wait_for_connection is called

ASSUME WorkerAssumption == MaxMessages \in Nat \ {0} /\ WaitFirst \in BOOLEAN

VARIABLES
  is_running,
  message_count,
  orphaned,      \* getppid() == 1
  journal,
  result,        \* of worker_on_message
  held           \* what server_worker_create has allocated

workvars == <<is_running, message_count, orphaned, journal, result, held>>
vars == <<connvars, workvars>>

NoResult == [text |-> "none", fate |-> "none"]

Init == /\ ConnInit
        /\ user = "create"
        /\ is_running = FALSE
        /\ message_count = 0
        /\ orphaned = FALSE
        /\ journal = <<>>
        /\ result = NoResult
        /\ held = {}

-----------------------------------------------------------------------------
(* server_worker_create and server_worker_start *)

\* A step of the creation gets what it wants, or fails: then what freed names
\* is released, and the process exits.
CreateStep(at, fault, wanted, next, freed) ==
  /\ user = at
  /\ \/ held' = held \cup wanted /\ user' = next
     \/ fault \in Faults /\ held' = held \ freed /\ user' = "exit"
  /\ UNCHANGED <<recvvars, sendvars, sockvars, queues, umsg, history,
                 is_running, message_count, orphaned, journal, result>>

OpenSocket == CreateStep("socket", "socket", {"socket"}, "bind", {"worker"})

BindSocket == CreateStep("bind", "bind", {}, "queues", {"worker", "socket"})

BothQueues == {"incoming", "outgoing"}

\* If one queue cannot be created the other is not deleted.
CreateQueues ==
  /\ user = "queues"
  /\ \E got \in IF "queue" \in Faults THEN SUBSET BothQueues ELSE {BothQueues} :
       IF got = BothQueues
       THEN held' = held \cup got /\ user' = "connection"
       ELSE held' = (held \cup got) \ {"worker", "socket"} /\ user' = "exit"
  /\ UNCHANGED <<recvvars, sendvars, sockvars, queues, umsg, history,
                 is_running, message_count, orphaned, journal, result>>

CreateWorker ==
  \/ CreateStep("create", "malloc", {"worker"}, "socket", {})
  \/ OpenSocket
  \/ BindSocket
  \/ CreateQueues
  \/ CreateStep("connection", "malloc", {"connection"}, "start",
                BothQueues \cup {"worker", "socket"})

\* server_worker_start; each failure clears is_running.
StartWorker ==
  /\ \/ StartReceiving("start", "start_send", "start_failed")
     \/ StartSending("start_send", IF WaitFirst THEN "wait" ELSE "loop", "start_failed")
  /\ is_running' = (user' # "start_failed")
  /\ UNCHANGED <<message_count, orphaned, journal, result, held>>

-----------------------------------------------------------------------------
(* server_worker_wait_for_connection and server_worker_update *)

\* Slip: the first message is not put back.
WaitForConnectionDrops ==
  /\ \/ Receive("wait", "wait_add")
     \/ /\ user = "wait_add"
        /\ umsg' = NoMessage
        /\ user' = "loop"
        /\ UNCHANGED <<recvvars, sendvars, sockvars, queues, history>>
  /\ UNCHANGED workvars

\* server_worker_wait_for_connection takes the first message and puts it
\* back, at the end of the queue.
WaitForConnection ==
  /\ \/ Receive("wait", "wait_add")
     \/ /\ user = "wait_add"
        /\ inq' = Enq(inq, umsg, Capacity)
        /\ discarded' = discarded \cup DroppedIds(inq)
        /\ umsg' = NoMessage
        /\ user' = "loop"
        /\ UNCHANGED <<recvvars, sendvars, sockvars, outq, arrived, sent>>
  /\ UNCHANGED workvars

\* safe_process_check_status at the top of the loop of worker_process_job
CheckStatus ==
  /\ user = "loop"
  /\ user' = IF orphaned THEN "delete" ELSE "update"
  /\ message_count' = 0
  /\ UNCHANGED <<recvvars, sendvars, sockvars, queues, umsg, history,
                 is_running, orphaned, journal, result, held>>

\* server_worker_update goes round until max_messages messages were handled;
\* on an empty queue it goes round without effect.
UpdateTake == /\ message_count < MaxMessages
              /\ is_running
              /\ Receive("update", "handle")
              /\ UNCHANGED workvars

\* What became of the process during get_process_cpu_usage; "late" if ticks
\* passed between the last two readings.
Fate(h, ok) == CASE Steady(h, ok) /\ h[3].total = h[4].total -> "steady"
                 [] Steady(h, ok) /\ h[3].total # h[4].total -> "late"
                 [] Absent(h) -> "absent"
                 [] OTHER -> "other"

\* What get_process_cpu_usage comes to; a negative usage is not found.
PidResult(h, ok) ==
  [text |-> CASE Usage(h, ok) < 0 -> "not found"
              [] Usage(h, ok) > 100 -> "over"
              [] OTHER -> "usage",
   fate |-> Fate(h, ok)]

\* Which of the four readings may succeed.
Readings == IF "file" \in Faults THEN SUBSET (1 .. 4) ELSE {1 .. 4}

PidResults == {PidResult(h, ok) : h \in Histories, ok \in Readings}

\* The results worker_on_message may log and answer: for a PID those of any
\* process, because the pid asked for (in an "empty" datagram, what the memory
\* behind the data holds) may be any.  A type that is neither NONE nor PID has
\* none.
Results(m) == CASE m.type = "NONE" -> {[text |-> "invalid", fate |-> "none"]}
                [] m.type = "PID" -> PidResults
                [] OTHER -> {}

\* The message when worker_on_message returns: with the result, which
\* message_set_data puts into it, or with its data and length as they were.
Answer(m, r, answered) ==
  IF answered THEN [m EXCEPT !.type = "PID", !.text = r.text, !.toolong = FALSE]
  ELSE [m EXCEPT !.type = "PID"]

\* worker_on_message finds out what to log and to answer; the two readings
\* for a PID take 20 ms, in which the other threads go on.
OnMessage ==
  /\ user = "handle"
  /\ result' \in Results(umsg)
  /\ user' = "reply"
  /\ UNCHANGED <<recvvars, sendvars, sockvars, queues, umsg, history,
                 is_running, message_count, orphaned, journal, held>>

\* Slip: the entry is made before the usage is known to be negative.
ReplyLogsUsage ==
  /\ user = "reply"
  /\ Send(Answer(umsg, result, TRUE), "reply", "update")
  /\ journal' = Append(journal, [id |-> umsg.id,
                                text |-> IF umsg.type = "PID" THEN "usage" ELSE result.text])
  /\ result' = NoResult
  /\ message_count' = message_count + 1
  /\ UNCHANGED <<is_running, orphaned, held>>

\* The rest of worker_on_message, then server_worker_send_message, whatever
\* happened.  A failed snprintf returns before journal_write, or after it
\* where a usage is formatted a second time; message_set_data returns if
\* realloc fails.
Reply ==
  /\ user = "reply"
  /\ \E logged, answered \in BOOLEAN :
       /\ ~logged => "format" \in Faults /\ ~answered
       /\ logged /\ ~answered => \/ "realloc" \in Faults
                                 \/ "format" \in Faults /\ result.text \in {"usage", "over"}
       /\ Send(Answer(umsg, result, answered), "reply", "update")
       /\ journal' = IF logged THEN Append(journal, [id |-> umsg.id, text |-> result.text])
                     ELSE journal
  /\ result' = NoResult
  /\ message_count' = message_count + 1
  /\ UNCHANGED <<is_running, orphaned, held>>

\* A message of an unknown type is sent back as it is.
ReplyUnknown ==
  /\ user = "handle"
  /\ Results(umsg) = {}
  /\ Send(umsg, "handle", "update")
  /\ message_count' = message_count + 1
  /\ UNCHANGED <<is_running, orphaned, journal, result, held>>

\* server_worker_update returns; worker_process_job sleeps and loops.
UpdateReturn ==
  /\ user = "update"
  /\ message_count = MaxMessages
  /\ user' = "loop"
  /\ UNCHANGED <<recvvars, sendvars, sockvars, queues, umsg, history, workvars>>

-----------------------------------------------------------------------------
(* safe_process_delete_this *)

\* Slip: net_connection_delete relies on server_worker_stop.
BeginDeleteTrusting ==
  /\ user \in {"delete", "start_failed"}
  /\ user' = IF is_running THEN "stop_recv" ELSE "release"
  /\ is_running' = FALSE
  /\ UNCHANGED <<recvvars, sendvars, sockvars, queues, umsg, history,
                 message_count, orphaned, journal, result, held>>

\* safe_process_delete_this: server_worker_delete begins with
\* server_worker_stop, which returns at once when is_running is 0.
BeginDelete ==
  /\ user \in {"delete", "start_failed"}
  /\ user' = IF is_running THEN "stop_recv" ELSE "close_recv"
  /\ is_running' = FALSE
  /\ UNCHANGED <<recvvars, sendvars, sockvars, queues, umsg, history,
                 message_count, orphaned, journal, result, held>>

\* The rest of server_worker_stop
StopWorker ==
  /\ \/ StopReceiving("stop_recv", "stop_join_recv", "stop_send")
     \/ JoinReceiver("stop_join_recv", "stop_send")
     \/ StopSending("stop_send", "stop_join_send", "close_recv")
     \/ JoinSender("stop_join_send", "close_recv")
  /\ UNCHANGED workvars

\* The rest of server_worker_delete, net_connection_delete, then exit
DeleteWorker ==
  \/ /\ \/ StopReceiving("close_recv", "close_join_recv", "close_send")
        \/ JoinReceiver("close_join_recv", "close_send")
        \/ StopSending("close_send", "close_join_send", "release")
        \/ JoinSender("close_join_send", "release")
     /\ UNCHANGED workvars
  \/ /\ Release("release", "exit")
     /\ held' = held \ ({"connection", "socket", "worker"} \cup BothQueues)
     /\ UNCHANGED <<is_running, message_count, orphaned, journal, result>>
-----------------------------------------------------------------------------

Main == \/ CreateWorker \/ StartWorker \/ WaitForConnection \/ CheckStatus
        \/ UpdateTake \/ OnMessage \/ Reply \/ ReplyUnknown \/ UpdateReturn
        \/ BeginDelete \/ StopWorker \/ DeleteWorker

\* The parent process ends; init adopts the worker.
ParentDies == /\ ~orphaned
              /\ orphaned' = TRUE
              /\ UNCHANGED <<connvars, is_running, message_count, journal, result, held>>

Next == \/ Main
        \/ (ReceiveThread \/ SendThread) /\ UNCHANGED workvars
        \/ ParentDies

Spec == Init /\ [][Next]_vars

\* The scheduler runs the three threads; the network owes no datagram.
FairSpec == /\ Spec
            /\ WF_vars(Main)
            /\ WF_vars(ReceiverProgress /\ UNCHANGED workvars)
            /\ WF_vars(SendThread /\ UNCHANGED workvars)
-----------------------------------------------------------------------------
Labels == {"create", "socket", "bind", "queues", "connection", "start", "start_send", "start_failed", "wait", "wait_add",
           "loop", "update", "handle", "reply", "delete", "stop_recv", "stop_join_recv",
           "stop_send", "stop_join_send", "close_recv", "close_join_recv",
           "close_send", "close_join_send", "release", "exit"}

\* Every variable has its type, and neither queue holds Capacity messages.
TypeOK == /\ ConnTypeOK
          /\ user \in Labels
          /\ is_running \in BOOLEAN
          /\ message_count \in 0 .. MaxMessages
          /\ orphaned \in BOOLEAN
          /\ journal \in Seq([id : 1 .. MaxDatagrams, text : Texts])
          /\ result \in [text : Texts \cup {"none"},
                         fate : {"none", "steady", "late", "absent", "other"}]
          /\ held \subseteq {"worker", "socket", "connection"} \cup BothQueues

\* The places where the message of arrival i is.
Local(name, m, i) == IF m # NoMessage /\ m.id = i THEN {<<name, 0>>} ELSE {}
Queued(name, s, i) == {<<name, k>> : k \in {j \in DOMAIN s : s[j].id = i}}

InFlight(i) == Local("rmsg", rmsg, i) \cup Queued("inq", inq, i)
                 \cup Local("umsg", umsg, i) \cup Queued("outq", outq, i)
                 \cup Local("smsg", smsg, i)

Places(i) == InFlight(i)
               \cup {<<"sent", k>> : k \in {j \in DOMAIN sent : sent[j].msg.id = i}}
               \cup (IF i \in discarded THEN {<<"discarded", 0>>} ELSE {})

\* Every datagram that arrives is at one place at any time, from recvfrom to
\* the reply: no request is lost or answered twice, except that a full queue
\* or the end of the worker discards it.
Accounted == \A i \in 1 .. arrived : Cardinality(Places(i)) = 1

\* Replies leave in the order in which the requests arrived, through two
\* queues that may overflow and three threads.
RepliesInOrder ==
  \A i, j \in DOMAIN sent : i < j => sent[i].msg.id < sent[j].msg.id

\* A datagram that is no PID request is answered "invalid" and a PID request
\* is not, as the Readme says of malformed requests.  Where realloc or snprintf
\* can fail, a client may also get back what it sent.
AnswerFits ==
  \A i \in DOMAIN sent :
    \/ (sent[i].msg.text = "invalid") <=> (sent[i].msg.kind # "pid")
    \/ sent[i].msg.text = "request" /\ Faults \cap {"realloc", "format"} # {}

\* The log of a worker goes with its replies, although it is written while
\* they wait in a queue: the requests are logged in the order in which they
\* arrived, none twice, and nobody is told another result than the one that
\* was logged for the request.
LogFitsReplies ==
  /\ \A i, j \in DOMAIN journal : i < j => journal[i].id < journal[j].id
  /\ \A i \in DOMAIN sent, j \in DOMAIN journal :
       sent[i].msg.id = journal[j].id => sent[i].msg.text \in {journal[j].text, "request"}

\* A process that lives through its request under a one-word name is answered
\* with a usage, of at most 100 percent unless ticks pass between the last two
\* readings of /proc in get_process_cpu_usage; a pid that nobody has is
\* answered with "not found".
UsageFits == /\ result.fate = "steady" => result.text = "usage"
             /\ result.fate = "late" => result.text \in {"usage", "over"}
             /\ result.fate = "absent" => result.text = "not found"

\* The worker exits with both threads joined, also when one of them could
\* not be started and server_worker_stop does nothing.  A worker that exits
\* has released everything, but for a queue beside which the other could not
\* be created.
ExitIsClean ==
  /\ user \in {"release", "exit"} => receiver = "none" /\ sender = "none"
  /\ user = "exit" => held \in {{}, {"incoming"}, {"outgoing"}}

\* "Sends a response back to the Client": a reply goes to the client whose
\* datagram it answers.  The receive and the send thread would have to agree
\* on who uses socket->incoming_addr.
RepliesToSender == \A i \in DOMAIN sent : sent[i].to = sent[i].msg.from

\* A request that has arrived does not stay in the worker: it is answered or
\* discarded in the end.
RequestsLeave ==
  \A i \in 1 .. MaxDatagrams : InFlight(i) # {} ~> InFlight(i) = {}

\* "Check if parent is death then delete child": an orphaned worker exits.
OrphanExits == orphaned ~> user = "exit"
=============================================================================
