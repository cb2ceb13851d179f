---------------------------- MODULE WorkerProofs ----------------------------
(***************************************************************************)
(* Proofs about Worker, for any number of clients and datagrams, any       *)
(* capacity of the queues and any max_messages, and with all faults unless *)
(* a theorem says otherwise.                                               *)
(***************************************************************************)
EXTENDS Worker, CpuProofs

(* How the worker ends: its threads and what server_worker_create allocated *)

\* Until server_worker_start, and after an exit, there is no thread.
Threadless == {"create", "socket", "bind", "queues", "connection", "start", "exit"}

\* A flag is clear, and its thread still there, exactly while the thread is
\* joined; behind its close label a flag stays clear.
ThreadInv ==
  /\ is_receiving \in BOOLEAN /\ is_sending \in BOOLEAN
  /\ IF user \in {"stop_join_recv", "close_join_recv"}
     THEN ~is_receiving /\ receiver # "none"
     ELSE is_receiving <=> receiver # "none"
  /\ IF user \in {"stop_join_send", "close_join_send"}
     THEN ~is_sending /\ sender # "none"
     ELSE is_sending <=> sender # "none"
  /\ user \in Threadless \cup {"close_send", "close_join_send", "release"} => ~is_receiving
  /\ user \in Threadless \cup {"release"} => ~is_sending

Everything == {"worker", "socket", "connection"} \cup BothQueues

\* What the worker holds at each label.
HeldInv ==
  /\ user = "create" => held = {}
  /\ user = "socket" => held = {"worker"}
  /\ user \in {"bind", "queues"} => held = {"worker", "socket"}
  /\ user = "connection" => held = {"worker", "socket"} \cup BothQueues
  /\ user = "exit" => held \in {{}, {"incoming"}, {"outgoing"}}
  /\ user \notin {"create", "socket", "bind", "queues", "connection", "exit"} =>
       held = Everything

\* The other two threads never appear, vanish or touch a flag.
LEMMA ThreadsKeep ==
  ASSUME ThreadInv, ReceiveThread \/ SendThread PROVE ThreadInv'
<1>1. CASE ReceiveThread
  <2>1. UNCHANGED <<is_receiving, is_sending, sender, user>>
    BY <1>1, Zenon DEF ReceiveThread, ReceiverProgress, ReceiveLoop, RecvTimeout, ReadMessage,
       AddIncoming, RecvFrom, CreateFails, sendvars, uservars
  <2>2. receiver # "none" /\ receiver' # "none"
    BY <1>1, Zenon DEF ReceiveThread, ReceiverProgress, ReceiveLoop, RecvTimeout, ReadMessage,
       AddIncoming, RecvFrom, CreateFails
  <2> QED
    BY <2>1, <2>2, Zenon DEF ThreadInv
<1>2. CASE SendThread
  <2>1. UNCHANGED <<is_receiving, is_sending, receiver, user>>
    BY <1>2, Zenon DEF SendThread, SendLoop, WriteMessage, SendTo, recvvars, uservars
  <2>2. sender # "none" /\ sender' # "none"
    BY <1>2, Zenon DEF SendThread, SendLoop, WriteMessage, SendTo
  <2> QED
    BY <2>1, <2>2, Zenon DEF ThreadInv
<1> QED
  BY <1>1, <1>2, Zenon

\* The labels between server_worker_start and safe_process_delete_this, at
\* which the main thread does not touch the other two.
Working == {"start_failed", "wait", "wait_add", "loop", "update", "handle", "reply", "delete"}

Control == <<is_receiving, receiver, is_sending, sender>>

LEMMA WorkingSteps ==
  ASSUME \/ WaitForConnection \/ CheckStatus \/ UpdateTake \/ OnMessage \/ Reply
         \/ ReplyUnknown \/ UpdateReturn \/ BeginDelete
  PROVE  /\ UNCHANGED Control
         /\ user \in Working
         /\ user' \in Working \cup {"stop_recv", "close_recv"}
<1> USE DEF Control, Working, recvvars, sendvars, Receive, Send
<1>1. CASE WaitForConnection
  BY <1>1, Zenon DEF WaitForConnection
<1>2. CASE CheckStatus \/ UpdateReturn \/ BeginDelete \/ OnMessage
  BY <1>2, Zenon DEF CheckStatus, UpdateReturn, BeginDelete, OnMessage
<1>3. CASE UpdateTake
  BY <1>3, Zenon DEF UpdateTake
<1>4. CASE Reply
  BY <1>4, Zenon DEF Reply
<1>5. CASE ReplyUnknown
  BY <1>5, Zenon DEF ReplyUnknown
<1> QED
  BY <1>1, <1>2, <1>3, <1>4, <1>5, Zenon

\* A step of the creation starts no thread.
LEMMA CreateSteps ==
  ASSUME CreateWorker
  PROVE  /\ UNCHANGED Control
         /\ user \in Threadless \ {"start", "exit"}
         /\ user' \in Threadless \ {"create"}
BY Zenon DEF CreateWorker, CreateStep, OpenSocket, BindSocket, CreateQueues, Threadless, Control,
   recvvars, sendvars

LEMMA StopReceivingStep ==
  ASSUME ThreadInv, NEW at, NEW join, NEW next, StopReceiving(at, join, next),
         <<at, join, next>> \in {<<"stop_recv", "stop_join_recv", "stop_send">>,
                                 <<"close_recv", "close_join_recv", "close_send">>}
  PROVE  ThreadInv'
<1>1. /\ user = at /\ is_receiving' = FALSE /\ UNCHANGED <<receiver, is_sending, sender>>
      /\ user' = IF is_receiving THEN join ELSE next
  BY Zenon DEF StopReceiving, sendvars
<1>2. CASE is_receiving
  BY <1>1, <1>2, Zenon DEF ThreadInv, Threadless
<1>3. CASE ~is_receiving
  BY <1>1, <1>3, Zenon DEF ThreadInv, Threadless
<1> QED
  BY <1>2, <1>3, Zenon

LEMMA StopSendingStep ==
  ASSUME ThreadInv, NEW at, NEW join, NEW next, StopSending(at, join, next),
         <<at, join, next>> \in {<<"stop_send", "stop_join_send", "close_recv">>,
                                 <<"close_send", "close_join_send", "release">>}
  PROVE  ThreadInv'
<1>1. /\ user = at /\ is_sending' = FALSE /\ UNCHANGED <<sender, is_receiving, receiver>>
      /\ user' = IF is_sending THEN join ELSE next
  BY Zenon DEF StopSending, recvvars
<1>2. CASE is_sending
  BY <1>1, <1>2, Zenon DEF ThreadInv, Threadless
<1>3. CASE ~is_sending
  BY <1>1, <1>3, Zenon DEF ThreadInv, Threadless
<1> QED
  BY <1>2, <1>3, Zenon

LEMMA JoinSteps ==
  ASSUME ThreadInv,
         \/ JoinReceiver("stop_join_recv", "stop_send")
         \/ JoinReceiver("close_join_recv", "close_send")
         \/ JoinSender("stop_join_send", "close_recv")
         \/ JoinSender("close_join_send", "release")
  PROVE  ThreadInv'
<1>1. ASSUME NEW join, NEW next, JoinReceiver(join, next),
             <<join, next>> \in {<<"stop_join_recv", "stop_send">>,
                                 <<"close_join_recv", "close_send">>}
      PROVE  ThreadInv'
  <2>1. /\ user = join /\ user' = next /\ receiver' = "none"
        /\ UNCHANGED <<is_receiving, is_sending, sender>>
    BY <1>1, Zenon DEF JoinReceiver, sendvars
  <2> QED
    BY <1>1, <2>1, Zenon DEF ThreadInv, Threadless
<1>2. ASSUME NEW join, NEW next, JoinSender(join, next),
             <<join, next>> \in {<<"stop_join_send", "close_recv">>,
                                 <<"close_join_send", "release">>}
      PROVE  ThreadInv'
  <2>1. /\ user = join /\ user' = next /\ sender' = "none"
        /\ UNCHANGED <<is_sending, is_receiving, receiver>>
    BY <1>2, Zenon DEF JoinSender, recvvars
  <2> QED
    BY <1>2, <2>1, Zenon DEF ThreadInv, Threadless
<1> QED
  BY <1>1, <1>2, Zenon

\* Before the worker is created there is no thread.
LEMMA ThreadInit == Init => ThreadInv
BY Zenon DEF Init, ConnInit, ThreadInv

\* Every step of the worker preserves the invariant of its threads.
LEMMA ThreadStep == ThreadInv /\ [Next]_vars => ThreadInv'
<1> SUFFICES ASSUME ThreadInv, [Next]_vars PROVE ThreadInv'
  BY Zenon
<1>1. CASE CreateWorker
  BY <1>1, CreateSteps DEF ThreadInv, Control, Threadless
<1>2. CASE StartWorker
  <2>1. ASSUME StartReceiving("start", "start_send", "start_failed") PROVE ThreadInv'
    <3>1. /\ user = "start" /\ user' \in {"start_send", "start_failed"}
          /\ UNCHANGED <<is_sending, sender>>
          /\ \/ UNCHANGED <<is_receiving, receiver>>
             \/ is_receiving' = TRUE /\ receiver' = "loop"
      BY <2>1, Zenon DEF StartReceiving, sendvars
    <3>2. CASE UNCHANGED <<is_receiving, receiver>>
      BY <3>1, <3>2, Zenon DEF ThreadInv, Threadless
    <3>3. CASE is_receiving' = TRUE /\ receiver' = "loop"
      BY <3>1, <3>3, Zenon DEF ThreadInv, Threadless
    <3> QED
      BY <3>1, <3>2, <3>3, Zenon
  <2>2. ASSUME NEW next \in {"wait", "loop"}, StartSending("start_send", next, "start_failed")
        PROVE  ThreadInv'
    <3>1. /\ user = "start_send" /\ user' \in {"wait", "loop", "start_failed"}
          /\ UNCHANGED <<is_receiving, receiver>>
          /\ \/ UNCHANGED <<is_sending, sender>>
             \/ is_sending' = TRUE /\ sender' = "loop"
      BY <2>2, Zenon DEF StartSending, recvvars
    <3>2. CASE UNCHANGED <<is_sending, sender>>
      BY <3>1, <3>2, Zenon DEF ThreadInv, Threadless
    <3>3. CASE is_sending' = TRUE /\ sender' = "loop"
      BY <3>1, <3>3, Zenon DEF ThreadInv, Threadless
    <3> QED
      BY <3>1, <3>2, <3>3, Zenon
  <2> QED
    BY <1>2, <2>1, <2>2, Zenon DEF StartWorker
<1>3. CASE \/ WaitForConnection \/ CheckStatus \/ UpdateTake \/ OnMessage \/ Reply
           \/ ReplyUnknown \/ UpdateReturn \/ BeginDelete
  BY <1>3, WorkingSteps DEF ThreadInv, Control, Threadless, Working
<1>4. CASE StopWorker
  BY <1>4, StopReceivingStep, StopSendingStep, JoinSteps, Zenon DEF StopWorker
<1>5. CASE DeleteWorker
  <2>1. ASSUME Release("release", "exit") PROVE ThreadInv'
    <3>1. user = "release" /\ user' = "exit" /\ UNCHANGED Control
      BY <2>1, Zenon DEF Release, recvvars, sendvars, Control
    <3> QED
      BY <3>1, Zenon DEF ThreadInv, Control, Threadless
  <2> QED
    BY <1>5, <2>1, StopReceivingStep, StopSendingStep, JoinSteps, Zenon DEF DeleteWorker
<1>6. CASE ParentDies \/ UNCHANGED vars
  BY <1>6 DEF ParentDies, vars, connvars, recvvars, sendvars, uservars, ThreadInv
<1> QED
  BY <1>1, <1>2, <1>3, <1>4, <1>5, <1>6, ThreadsKeep, Zenon DEF Next, Main

\* Once everything is allocated only Release gives it back.
Holding == Labels \ {"create", "socket", "bind", "queues", "connection", "exit"}

LEMMA HoldingSteps ==
  ASSUME \/ StartWorker \/ WaitForConnection \/ CheckStatus \/ UpdateTake \/ OnMessage
         \/ Reply \/ ReplyUnknown \/ UpdateReturn \/ BeginDelete \/ StopWorker
         \/ DeleteWorker /\ user # "release"
  PROVE  user \in Holding /\ user' \in Holding /\ held' = held
<1> USE DEF Holding, Labels, workvars
<1>1. CASE StartWorker
  BY <1>1, Zenon DEF StartWorker, StartReceiving, StartSending
<1>2. CASE \/ WaitForConnection \/ CheckStatus \/ UpdateTake \/ OnMessage \/ Reply
           \/ ReplyUnknown \/ UpdateReturn \/ BeginDelete
  <2>1. held' = held
    BY <1>2, Zenon DEF WaitForConnection, CheckStatus, UpdateTake, OnMessage, Reply, ReplyUnknown,
       UpdateReturn, BeginDelete
  <2> QED
    BY <1>2, <2>1, WorkingSteps, Zenon DEF Working
<1>3. CASE StopWorker
  BY <1>3, Zenon DEF StopWorker, StopReceiving, JoinReceiver, StopSending, JoinSender
<1>4. CASE DeleteWorker /\ user # "release"
  BY <1>4, Zenon DEF DeleteWorker, StopReceiving, JoinReceiver, StopSending, JoinSender, Release
<1> QED
  BY <1>1, <1>2, <1>3, <1>4, Zenon

\* A step of the creation allocates what the next label has, or releases all
\* but at most one of the queues.
LEMMA CreateHolds ==
  ASSUME HeldInv, CreateWorker PROVE HeldInv'
<1> USE DEF HeldInv, Everything, BothQueues
<1>1. CASE CreateStep("create", "malloc", {"worker"}, "socket", {})
  BY <1>1, Zenon DEF CreateStep
<1>2. CASE OpenSocket
  BY <1>2, Zenon DEF OpenSocket, CreateStep
<1>3. CASE BindSocket
  BY <1>3, Zenon DEF BindSocket, CreateStep
<1>4. CASE CreateQueues
  <2>1. PICK got \in SUBSET BothQueues :
          IF got = BothQueues
          THEN held' = held \cup got /\ user' = "connection"
          ELSE held' = (held \cup got) \ {"worker", "socket"} /\ user' = "exit"
    BY <1>4, Zenon DEF CreateQueues
  <2>2. user = "queues" /\ held = {"worker", "socket"}
    BY <1>4, Zenon DEF CreateQueues
  <2>3. CASE got = BothQueues
    BY <2>1, <2>2, <2>3, Zenon
  <2>4. CASE got # BothQueues
    <3>1. got \in {{}, {"incoming"}, {"outgoing"}}
      BY <2>4, Zenon
    <3>2. held' = got
      BY <2>1, <2>2, <2>4, Zenon
    <3>3. user' = "exit"
      BY <2>1, <2>4, Zenon
    <3> QED
      BY <3>1, <3>2, <3>3, Zenon
  <2> QED
    BY <2>3, <2>4, Zenon
<1>5. CASE CreateStep("connection", "malloc", {"connection"}, "start",
                      BothQueues \cup {"worker", "socket"})
  BY <1>5, Zenon DEF CreateStep
<1> QED
  BY <1>1, <1>2, <1>3, <1>4, <1>5, Zenon DEF CreateWorker

\* Every step of the worker preserves what its label says it holds.
LEMMA HeldStep == HeldInv /\ [Next]_vars => HeldInv'
<1> SUFFICES ASSUME HeldInv, [Next]_vars PROVE HeldInv'
  BY Zenon
<1>1. CASE CreateWorker
  BY <1>1, CreateHolds, Zenon
<1>2. CASE \/ StartWorker \/ WaitForConnection \/ CheckStatus \/ UpdateTake \/ OnMessage
           \/ Reply \/ ReplyUnknown \/ UpdateReturn \/ BeginDelete \/ StopWorker
           \/ DeleteWorker /\ user # "release"
  BY <1>2, HoldingSteps, Zenon DEF HeldInv, Holding
<1>3. CASE DeleteWorker /\ user = "release"
  <2>1. /\ user = "release" /\ user' = "exit"
        /\ held' = held \ ({"connection", "socket", "worker"} \cup BothQueues)
    BY <1>3, Zenon DEF DeleteWorker, StopReceiving, JoinReceiver, StopSending, JoinSender, Release
  <2> QED
    BY <2>1, Zenon DEF HeldInv, Everything
<1>4. CASE (ReceiveThread \/ SendThread) /\ UNCHANGED workvars
  <2>1. UNCHANGED user
    BY <1>4, Zenon DEF ReceiveThread, ReceiverProgress, ReceiveLoop, RecvTimeout, ReadMessage,
       AddIncoming, RecvFrom, CreateFails, SendThread, SendLoop, WriteMessage, SendTo, uservars
  <2> QED
    BY <1>4, <2>1, Zenon DEF HeldInv, workvars
<1>5. CASE ParentDies \/ UNCHANGED vars
  BY <1>5, Zenon DEF ParentDies, vars, connvars, uservars, workvars, HeldInv
<1> QED
  BY <1>1, <1>2, <1>3, <1>4, <1>5, Zenon DEF Next, Main

\* The worker exits with both threads joined and, but for a queue beside which
\* the other could not be created, with nothing allocated, whichever of its
\* allocations and threads failed.
THEOREM WorkerExitsClean == Spec => []ExitIsClean
<1>1. Init => HeldInv
  BY Zenon DEF Init, HeldInv
<1>2. ThreadInv /\ HeldInv => ExitIsClean
  BY Zenon DEF ThreadInv, HeldInv, ExitIsClean, Threadless
<1> QED
  BY <1>1, <1>2, ThreadInit, ThreadStep, HeldStep, PTL DEF Spec
-----------------------------------------------------------------------------
(* The answer about a process *)

\* What get_process_cpu_usage comes to fits what became of the process.
LEMMA PidResultsFit ==
  ASSUME NEW r \in PidResults
  PROVE  /\ r.text \in {"usage", "over", "not found"}
         /\ r.fate \in {"steady", "late", "absent", "other"}
         /\ r.fate = "steady" => r.text = "usage"
         /\ r.fate = "late" => r.text \in {"usage", "over"}
         /\ r.fate = "absent" => r.text = "not found"
<1>1. PICK h \in Histories, ok \in Readings : r = PidResult(h, ok)
  BY SMT DEF PidResults
<1>2. CASE Steady(h, ok)
  <2>1. ~(Usage(h, ok) < 0) /\ (h[3].total = h[4].total => ~(Usage(h, ok) > 100))
    <3>1. Usage(h, ok) >= 0
      BY <1>2, SteadyIsFound, Zenon
    <3>2. Usage(h, ok) \in Int
      BY <1>2, SteadyReadings, Percentage
    <3>3. h[3].total = h[4].total => Usage(h, ok) <= 100
      BY <1>2, UsageAtMostAll, Zenon
    <3> QED
      BY <3>1, <3>2, <3>3, SMTT(30)
  <2>2. ~Absent(h)
    BY <1>2 DEF Steady, Absent
  <2> QED
    BY <1>1, <1>2, <2>1, <2>2, Zenon DEF PidResult, Fate
<1>3. CASE ~Steady(h, ok) /\ Absent(h)
  <2>1. Usage(h, ok) = -1
    <3>1. ProcessTime(h[2], 2 \in ok) = -1
      BY <1>3 DEF Absent, ProcessTime
    <3> QED
      BY <3>1, Zenon DEF Usage
  <2>2. Usage(h, ok) < 0 /\ ~(Usage(h, ok) > 100)
    BY ONLY <2>1
  <2> QED
    BY <1>1, <1>3, <2>2, Zenon DEF PidResult, Fate
<1>4. CASE ~Steady(h, ok) /\ ~Absent(h)
  BY <1>1, <1>4, Zenon DEF PidResult, Fate
<1> QED
  BY <1>2, <1>3, <1>4, Zenon

\* The results of worker_on_message are results, with a text to answer.
LEMMA ResultsTyped ==
  ASSUME NEW m
  PROVE  \A r \in Results(m) : /\ r \in [text : Texts, fate : {"none", "steady", "late", "absent", "other"}]
                               /\ r.fate = "none" <=> r.text = "invalid"
                               /\ r.fate = "none" <=> m.type = "NONE"
<1>1. \A r \in PidResults : /\ r \in [text : Texts, fate : {"none", "steady", "late", "absent", "other"}]
                            /\ r.fate # "none" /\ r.text # "invalid"
  <2> SUFFICES ASSUME NEW r \in PidResults
               PROVE  /\ r \in [text : Texts, fate : {"none", "steady", "late", "absent", "other"}]
                      /\ r.fate # "none" /\ r.text # "invalid"
    BY Zenon
  <2>1. PICK h \in Histories, ok \in Readings : r = PidResult(h, ok)
    BY SMT DEF PidResults
  <2> QED
    BY <2>1, Zenon DEF PidResult, Fate, Texts
<1>2. CASE m.type = "NONE"
  <2>1. Results(m) = {[text |-> "invalid", fate |-> "none"]}
    BY <1>2, Zenon DEF Results
  <2>2. ASSUME NEW r, r = [text |-> "invalid", fate |-> "none"]
        PROVE  /\ r \in [text : Texts, fate : {"none", "steady", "late", "absent", "other"}]
               /\ r.fate = "none" /\ r.text = "invalid"
    BY <2>2, Zenon DEF Texts
  <2> QED
    BY <1>2, <2>1, <2>2, Zenon
<1>3. CASE m.type = "PID"
  <2>1. Results(m) = PidResults
    BY <1>3, Zenon DEF Results
  <2> QED
    BY <1>1, <1>3, <2>1, Zenon
<1>4. CASE m.type \notin {"NONE", "PID"}
  <2>1. Results(m) = {}
    BY <1>4, Zenon DEF Results
  <2> QED
    BY <2>1, Zenon
<1> QED
  BY <1>2, <1>3, <1>4, Zenon

\* Only worker_on_message finds a result, and its end clears it.
LEMMA ResultSteps ==
  ASSUME [Next]_vars
  PROVE  result' = result \/ Reply \/ OnMessage
<1>1. CASE CreateWorker \/ StartWorker
  BY <1>1, Zenon DEF CreateWorker, OpenSocket, BindSocket, CreateStep, CreateQueues, StartWorker
<1>2. CASE WaitForConnection \/ CheckStatus \/ UpdateTake \/ ReplyUnknown \/ UpdateReturn
  BY <1>2, Zenon DEF WaitForConnection, CheckStatus, UpdateTake, ReplyUnknown, UpdateReturn, workvars
<1>3. CASE BeginDelete \/ StopWorker \/ DeleteWorker
  BY <1>3, Zenon DEF BeginDelete, StopWorker, DeleteWorker, workvars
<1>4. CASE (ReceiveThread \/ SendThread) /\ UNCHANGED workvars
  BY <1>4, Zenon DEF workvars
<1>5. CASE ParentDies \/ UNCHANGED vars
  BY <1>5, Zenon DEF ParentDies, vars, workvars
<1> QED
  BY <1>1, <1>2, <1>3, <1>4, <1>5, Zenon DEF Next, Main

\* A process that lives through its request under a one-word name is answered
\* with a usage, of at most 100 percent unless ticks pass between the last two
\* readings of get_process_cpu_usage, and a pid that nobody has with "not found".
THEOREM WorkerUsageFits == Spec => []UsageFits
<1>1. Init => UsageFits
  BY DEF Init, UsageFits, NoResult
<1>2. UsageFits /\ [Next]_vars => UsageFits'
  <2> SUFFICES ASSUME UsageFits, [Next]_vars PROVE UsageFits'
    BY Zenon
  <2>1. CASE result' = result
    BY <2>1, Zenon DEF UsageFits
  <2>2. CASE Reply
    BY <2>2, Zenon DEF Reply, UsageFits, NoResult
  <2>3. CASE OnMessage
    <3>1. result' \in PidResults \/ result' = [text |-> "invalid", fate |-> "none"]
      BY <2>3, Zenon DEF OnMessage, Results
    <3>2. CASE result' \in PidResults
      <4>1. \A r \in PidResults : /\ r.fate = "steady" => r.text = "usage"
                                  /\ r.fate = "late" => r.text \in {"usage", "over"}
                                  /\ r.fate = "absent" => r.text = "not found"
        BY PidResultsFit, Zenon
      <4> QED
        BY <3>2, <4>1, Zenon DEF UsageFits
    <3>3. CASE result' = [text |-> "invalid", fate |-> "none"]
      BY <3>3, Zenon DEF UsageFits
    <3> QED
      BY <3>1, <3>2, <3>3, Zenon
  <2> QED
    BY <2>1, <2>2, <2>3, ResultSteps, Zenon
<1> QED
  BY <1>1, <1>2, PTL DEF Spec
-----------------------------------------------------------------------------
(* What the operations of a queue do to its contents *)

\* An enqueue drops the oldest d messages, if any, and keeps a slot free.
LEMMA EnqProperties ==
  ASSUME NEW s \in Queue, NEW m \in Message
  PROVE  /\ Dropped(s, Capacity) \in 0 .. Len(s)
         /\ Enq(s, m, Capacity) \in Queue
         /\ Len(Enq(s, m, Capacity)) = Len(s) - Dropped(s, Capacity) + 1
         /\ \A i \in 1 .. Len(s) - Dropped(s, Capacity) :
              Enq(s, m, Capacity)[i] = s[Dropped(s, Capacity) + i]
         /\ Enq(s, m, Capacity)[Len(s) - Dropped(s, Capacity) + 1] = m
         /\ DroppedIds(s) = {s[i].id : i \in 1 .. Dropped(s, Capacity)}
<1> DEFINE d == Dropped(s, Capacity)
           r == Enq(s, m, Capacity)
<1> DEFINE t == SubSeq(s, d + 1, Len(s))
           o == SubSeq(s, 1, d)
<1>1. s \in Seq(Message) /\ Len(s) \in Nat /\ Len(s) < Capacity /\ Capacity \in Nat /\ Capacity >= 2
  BY NetAssumption DEF Queue
<1>2. d \in 0 .. Len(s) /\ Len(s) - d + 1 < Capacity /\ d \in Int
  BY <1>1 DEF Dropped
<1>3. \A i \in 1 .. Len(s) : s[i] \in Message
  BY <1>1, SMTT(30)
<1>4. /\ t \in Seq(Message) /\ Len(t) = Len(s) - d
      /\ \A i \in 1 .. Len(s) - d : t[i] = s[d + i]
  <2> DEFINE a == d + 1
             n == Len(s)
  <2>1. a \in Int /\ n \in Int /\ \A i \in a .. n : s[i] \in Message
    BY <1>1, <1>2, <1>3, SMTT(30)
  <2>2. a = d + 1 /\ n = Len(s) /\ t = SubSeq(s, a, n)
    BY Zenon
  <2> HIDE DEF a, n, t
  <2>3. /\ SubSeq(s, a, n) \in Seq(Message)
        /\ Len(SubSeq(s, a, n)) = IF a <= n THEN n - a + 1 ELSE 0
        /\ \A i \in 1 .. n - a + 1 : SubSeq(s, a, n)[i] = s[a + i - 1]
    BY ONLY <2>1, SMTT(30)
  <2>4. t \in Seq(Message) /\ Len(t) = Len(s) - d
    <3>1. t \in Seq(Message) /\ Len(t) = IF a <= n THEN n - a + 1 ELSE 0
      BY ONLY <2>2, <2>3, Zenon
    <3>2. a = d + 1 /\ n = Len(s) /\ d \in Int /\ n \in Int /\ d <= n
      BY <1>2, <2>1, <2>2
    <3> QED
      BY ONLY <3>1, <3>2
  <2>5. ASSUME NEW i \in 1 .. Len(s) - d PROVE t[i] = s[d + i]
    <3>1. i \in Int /\ 1 <= i /\ i <= n - d /\ d \in Int /\ n \in Int /\ a = d + 1
      BY <1>2, <2>1, <2>2
    <3>2. i \in 1 .. n - a + 1 /\ a + i - 1 = d + i
      BY ONLY <3>1
    <3> QED
      BY <2>2, <2>3, <3>2, Zenon
  <2> QED
    BY <2>4, <2>5, Zenon
<1>5. /\ o \in Seq(Message) /\ Len(o) = d
      /\ \A i \in 1 .. d : o[i] = s[i]
  <2>1. \A i \in 1 .. d : s[i] \in Message
    BY <1>1, <1>2, <1>3, SMTT(30)
  <2>2. /\ o \in Seq(Message)
        /\ Len(o) = IF 1 <= d THEN d - 1 + 1 ELSE 0
        /\ \A i \in 1 .. d - 1 + 1 : o[i] = s[1 + i - 1]
    BY <1>1, <1>2, <2>1, SMTT(30)
  <2> QED
    BY <1>1, <1>2, <2>2, SMTT(30)
<1>6. r = Append(t, m)
  BY Zenon DEF Enq
<1>7. /\ r \in Seq(Message) /\ Len(r) = Len(t) + 1
      /\ \A i \in 1 .. Len(t) : r[i] = t[i]
      /\ r[Len(t) + 1] = m
  BY <1>4, <1>6, SMTT(30)
<1>8. DroppedIds(s) = {s[i].id : i \in 1 .. d}
  <2>1. DOMAIN o = 1 .. d
    BY <1>5, SMTT(30)
  <2>2. DroppedIds(s) = {o[i].id : i \in 1 .. d}
    BY <2>1, Zenon DEF DroppedIds, Ids
  <2> QED
    BY <1>5, <2>2, Zenon
<1> HIDE DEF t, o, d, r
<1>9. r \in Seq(Message) /\ Len(r) < Capacity
  BY <1>2, <1>4, <1>7, Zenon
<1>10. r \in Queue
  BY <1>9, Zenon DEF Queue
<1>11. /\ d \in 0 .. Len(s) /\ r \in Queue /\ Len(r) = Len(s) - d + 1
       /\ \A i \in 1 .. Len(s) - d : r[i] = s[d + i]
       /\ r[Len(s) - d + 1] = m
       /\ DroppedIds(s) = {s[i].id : i \in 1 .. d}
  BY <1>2, <1>4, <1>7, <1>8, <1>10, Zenon
<1> QED
  BY <1>11, Zenon DEF d, r

\* The contents stay a queue and the ids dropped are ids.
LEMMA EnqTypes ==
  ASSUME NEW s \in Queue, NEW m \in Message
  PROVE  Enq(s, m, Capacity) \in Queue /\ DroppedIds(s) \subseteq 1 .. MaxDatagrams
<1> DEFINE d == Dropped(s, Capacity)
<1>1. /\ Enq(s, m, Capacity) \in Queue /\ d \in 0 .. Len(s)
      /\ DroppedIds(s) = {s[i].id : i \in 1 .. d}
  BY EnqProperties, Zenon
<1>2. \A i \in 1 .. Len(s) : s[i].id \in 1 .. MaxDatagrams
  <2>1. s \in Seq(Message)
    BY Zenon DEF Queue
  <2>2. \A i \in 1 .. Len(s) : s[i] \in Message
    BY <2>1
  <2> QED
    BY <2>2, Zenon DEF Message
<1>3. \A i \in 1 .. d : i \in 1 .. Len(s)
  BY <1>1, SMTT(30) DEF Queue
<1> QED
  BY <1>1, <1>2, <1>3, Zenon

\* The ids of the messages in a queue are ids.
LEMMA IdsTyped ==
  ASSUME NEW s \in Queue PROVE Ids(s) \subseteq 1 .. MaxDatagrams
<1>1. s \in Seq(Message)
  BY Zenon DEF Queue
<1>2. DOMAIN s = 1 .. Len(s) /\ \A i \in 1 .. Len(s) : s[i] \in Message
  BY <1>1
<1> QED
  BY <1>2, Zenon DEF Ids, Message

\* A dequeue takes the oldest message.
LEMMA TailProperties ==
  ASSUME NEW s \in Queue, s # << >>
  PROVE  /\ Head(s) \in Message /\ Head(s) = s[1] /\ Len(s) >= 1
         /\ Tail(s) \in Queue /\ Len(Tail(s)) = Len(s) - 1
         /\ \A i \in 1 .. Len(s) - 1 : Tail(s)[i] = s[i + 1]
<1>1. s \in Seq(Message) /\ Len(s) \in Nat /\ Len(s) < Capacity /\ Capacity \in Nat
  BY NetAssumption DEF Queue
<1>2. /\ Head(s) \in Message /\ Tail(s) \in Seq(Message) /\ Len(Tail(s)) = Len(s) - 1
      /\ \A i \in 1 .. Len(Tail(s)) : Tail(s)[i] = s[i + 1]
  BY <1>1, SMTT(30)
<1>3. Head(s) = s[1] /\ Len(s) >= 1
  BY <1>1
<1> QED
  BY <1>1, <1>2, <1>3, SMTT(30) DEF Queue
-----------------------------------------------------------------------------
(* Where the messages are *)

\* A thread has a message exactly at the labels at which the code has one.
ReceiverInv == IF receiver = "read" THEN rmsg \in Received /\ incoming_addr \in Clients
               ELSE IF receiver = "add" THEN rmsg \in Message
               ELSE rmsg = NoMessage

SenderInv == /\ IF sender \in {"write", "send"} THEN smsg \in Message ELSE smsg = NoMessage
             /\ sender = "send" => incoming_addr \in Clients

Having == {"wait_add", "handle", "reply"}

OwnerInv == /\ IF user \in Having THEN umsg \in Message ELSE umsg = NoMessage
            /\ user = "reply" => result.text \in Texts
            /\ user \in {"handle", "reply"} => message_count < MaxMessages

TypeInv == TypeOK /\ ThreadInv /\ ReceiverInv /\ SenderInv /\ OwnerInv

\* The steps of the receive thread keep every type.
LEMMA ReceiverTypes ==
  ASSUME TypeInv, ReceiveThread, UNCHANGED workvars
  PROVE  TypeOK' /\ ReceiverInv' /\ SenderInv' /\ OwnerInv'
<1> USE DEF TypeInv
<1>0. /\ UNCHANGED <<sendvars, uservars, workvars, is_receiving, outq, sent>>
      /\ ConnTypeOK /\ TypeOK
  BY Zenon DEF ReceiveThread, ReceiverProgress, ReceiveLoop, RecvTimeout, ReadMessage, AddIncoming,
     RecvFrom, CreateFails, queues, history, TypeOK
<1>1. OwnerInv'
  BY <1>0, Zenon DEF OwnerInv, Having, uservars, workvars
<1>2. ASSUME /\ incoming_addr' \in Clients \cup {NoAddr}
             /\ incoming_buffer' \in Kinds \cup {"none"}
             /\ inq' \in Queue
             /\ receiver' \in {"none", "loop", "recv", "read", "add", "done"}
             /\ rmsg' \in Received \cup Message \cup {NoMessage}
             /\ arrived' \in 0 .. MaxDatagrams
             /\ discarded' \subseteq 1 .. MaxDatagrams
      PROVE  TypeOK'
  BY ONLY <1>0, <1>2 DEF TypeOK, ConnTypeOK, sendvars, uservars, workvars
<1>3. CASE ReceiveLoop \/ RecvTimeout
  <2>1. /\ UNCHANGED <<rmsg, incoming_addr, incoming_buffer, inq, arrived, discarded>>
        /\ receiver \in {"loop", "recv"} /\ receiver' \in {"loop", "recv", "done"}
    BY <1>3, Zenon DEF ReceiveLoop, RecvTimeout, sockvars, queues, history
  <2>2. TypeOK'
    BY <1>0, <1>2, <2>1, Zenon DEF ConnTypeOK
  <2>3. ReceiverInv' /\ SenderInv'
    BY <1>0, <2>1, Zenon DEF ReceiverInv, SenderInv, sendvars
  <2> QED
    BY <1>1, <2>2, <2>3, Zenon
<1>4. CASE RecvFrom
  <2>1. PICK c \in Clients, k \in Kinds :
          /\ incoming_addr' = c
          /\ incoming_buffer' = IF k = "short" THEN incoming_buffer ELSE k
          /\ rmsg' = [id |-> arrived + 1, from |-> c, kind |-> k]
    BY <1>4, Zenon DEF RecvFrom
  <2>2. /\ arrived < MaxDatagrams /\ arrived' = arrived + 1 /\ receiver' = "read"
        /\ UNCHANGED <<inq, discarded>>
    BY <1>4, Zenon DEF RecvFrom, queues
  <2>3. arrived + 1 \in 1 .. MaxDatagrams
    BY <1>0, <2>2, NetAssumption DEF ConnTypeOK
  <2>4. rmsg' \in Received
    BY <2>1, <2>3, Zenon DEF Received
  <2>5. TypeOK'
    BY <1>0, <1>2, <2>1, <2>2, <2>3, <2>4, SMTT(30) DEF ConnTypeOK
  <2>6. ReceiverInv' /\ SenderInv'
    BY <1>0, <2>1, <2>2, <2>4, Zenon DEF ReceiverInv, SenderInv, sendvars
  <2> QED
    BY <1>1, <2>5, <2>6, Zenon
<1>5. CASE ReadMessage
  <2>1. /\ receiver = "read" /\ receiver' = "add"
        /\ UNCHANGED <<incoming_addr, incoming_buffer, inq, arrived, discarded>>
        /\ rmsg' = [id |-> rmsg.id, from |-> rmsg.from, kind |-> rmsg.kind,
                    owner |-> incoming_addr, type |-> TypeOf(incoming_buffer),
                    toolong |-> incoming_buffer = "long", text |-> "request"]
    BY <1>5, Zenon DEF ReadMessage, sockvars, queues, history
  <2>2. rmsg \in Received /\ incoming_addr \in Clients
    BY <2>1, Zenon DEF ReceiverInv
  <2>3. TypeOf(incoming_buffer) \in {"NONE", "PID", "OTHER"}
    BY Zenon DEF TypeOf
  <2>4. rmsg' \in Message
    BY <2>1, <2>2, <2>3, Zenon DEF Received, Message, Texts
  <2>5. TypeOK'
    BY <1>0, <1>2, <2>1, <2>4, Zenon DEF ConnTypeOK
  <2>6. ReceiverInv' /\ SenderInv'
    BY <1>0, <2>1, <2>4, Zenon DEF ReceiverInv, SenderInv, sendvars
  <2> QED
    BY <1>1, <2>5, <2>6, Zenon
<1>6. CASE CreateFails
  <2>1. /\ receiver = "read" /\ receiver' = "loop" /\ rmsg' = NoMessage
        /\ UNCHANGED <<incoming_addr, incoming_buffer, inq, arrived>>
        /\ discarded' = discarded \cup {rmsg.id}
    BY <1>6, Zenon DEF CreateFails, sockvars, queues
  <2>2. rmsg.id \in 1 .. MaxDatagrams
    BY <2>1, Zenon DEF ReceiverInv, Received
  <2>3. TypeOK'
    BY <1>0, <1>2, <2>1, <2>2, Zenon DEF ConnTypeOK
  <2>4. ReceiverInv' /\ SenderInv'
    BY <1>0, <2>1, Zenon DEF ReceiverInv, SenderInv, sendvars
  <2> QED
    BY <1>1, <2>3, <2>4, Zenon
<1>7. CASE AddIncoming
  <2>1. /\ receiver = "add" /\ receiver' = "loop" /\ rmsg' = NoMessage
        /\ UNCHANGED <<incoming_addr, incoming_buffer, arrived>>
        /\ inq' = Enq(inq, rmsg, Capacity)
        /\ discarded' = discarded \cup DroppedIds(inq)
    BY <1>7, Zenon DEF AddIncoming, sockvars
  <2>2. inq \in Queue /\ rmsg \in Message
    BY <1>0, <2>1, Zenon DEF ReceiverInv, ConnTypeOK
  <2>3. inq' \in Queue /\ DroppedIds(inq) \subseteq 1 .. MaxDatagrams
    BY <2>1, <2>2, EnqTypes, Zenon
  <2>4. TypeOK'
    BY <1>0, <1>2, <2>1, <2>3, Zenon DEF ConnTypeOK
  <2>5. ReceiverInv' /\ SenderInv'
    BY <1>0, <2>1, Zenon DEF ReceiverInv, SenderInv, sendvars
  <2> QED
    BY <1>1, <2>4, <2>5, Zenon
<1> QED
  BY <1>3, <1>4, <1>5, <1>6, <1>7, Zenon DEF ReceiveThread, ReceiverProgress

\* The steps of the send thread keep every type.
LEMMA SenderTypes ==
  ASSUME TypeInv, SendThread, UNCHANGED workvars
  PROVE  TypeOK' /\ ReceiverInv' /\ SenderInv' /\ OwnerInv'
<1> USE DEF TypeInv
<1>0. /\ UNCHANGED <<recvvars, uservars, workvars, is_sending, incoming_buffer, inq, arrived>>
      /\ ConnTypeOK /\ TypeOK
  BY Zenon DEF SendThread, SendLoop, WriteMessage, SendTo, sockvars, queues, history, TypeOK
<1>1. OwnerInv'
  BY <1>0, Zenon DEF OwnerInv, Having, uservars, workvars
<1>2. ASSUME /\ incoming_addr' \in Clients \cup {NoAddr}
             /\ outq' \in Queue
             /\ sender' \in {"none", "loop", "write", "send", "done"}
             /\ smsg' \in Message \cup {NoMessage}
             /\ sent' \in Seq([to : Clients, msg : Message])
             /\ discarded' \subseteq 1 .. MaxDatagrams
      PROVE  TypeOK'
  BY ONLY <1>0, <1>2, SMTT(30) DEF TypeOK, ConnTypeOK, recvvars, uservars, workvars
<1>3. CASE SendLoop /\ outq' = outq
  <2>1. /\ UNCHANGED <<smsg, incoming_addr, sent, discarded>> /\ sender = "loop"
        /\ sender' = "done"
    BY <1>0, <1>3, TailProperties, SMTT(30) DEF SendLoop, sockvars, history, ConnTypeOK
  <2>2. TypeOK'
    BY <1>0, <1>2, <1>3, <2>1, Zenon DEF ConnTypeOK
  <2>3. ReceiverInv' /\ SenderInv'
    BY <1>0, <2>1, Zenon DEF ReceiverInv, SenderInv, recvvars
  <2> QED
    BY <1>1, <2>2, <2>3, Zenon
<1>4. CASE SendLoop /\ outq' # outq
  <2>1. /\ UNCHANGED <<incoming_addr, sent, discarded>>
        /\ outq # <<>> /\ smsg' = Head(outq) /\ outq' = Tail(outq) /\ sender' = "write"
    BY <1>4, Zenon DEF SendLoop, sockvars, history
  <2>2. smsg' \in Message /\ outq' \in Queue
    BY <1>0, <2>1, TailProperties, Zenon DEF ConnTypeOK
  <2>3. TypeOK'
    BY <1>0, <1>2, <2>1, <2>2, Zenon DEF ConnTypeOK
  <2>4. ReceiverInv' /\ SenderInv'
    BY <1>0, <2>1, <2>2, Zenon DEF ReceiverInv, SenderInv, recvvars
  <2> QED
    BY <1>1, <2>3, <2>4, Zenon
<1>5. CASE WriteMessage
  <2>1. smsg \in Message
    BY <1>5, Zenon DEF WriteMessage, SenderInv
  <2>2. smsg.id \in 1 .. MaxDatagrams /\ smsg.owner \in Clients
    BY <2>1, Zenon DEF Message
  <2>3. /\ UNCHANGED <<outq, sent>>
        /\ \/ /\ discarded' = discarded \cup {smsg.id} /\ smsg' = NoMessage
              /\ sender' = "loop" /\ UNCHANGED incoming_addr
           \/ incoming_addr' = smsg.owner /\ sender' = "send" /\ UNCHANGED <<discarded, smsg>>
    BY <1>5, Zenon DEF WriteMessage, queues
  <2>4. TypeOK'
    BY <1>0, <1>2, <2>1, <2>2, <2>3, Zenon DEF ConnTypeOK
  <2>5. ReceiverInv'
    BY <1>0, <2>2, <2>3, Zenon DEF ReceiverInv, recvvars
  <2>6. SenderInv'
    BY <2>1, <2>2, <2>3, Zenon DEF SenderInv
  <2> QED
    BY <1>1, <2>4, <2>5, <2>6, Zenon
<1>6. CASE SendTo
  <2>1. /\ sender = "send" /\ sender' = "loop" /\ smsg' = NoMessage
        /\ UNCHANGED <<incoming_addr, outq, discarded>>
        /\ sent' = Append(sent, [to |-> incoming_addr, msg |-> smsg])
    BY <1>6, Zenon DEF SendTo, sockvars, queues
  <2>2. [to |-> incoming_addr, msg |-> smsg] \in [to : Clients, msg : Message]
    BY <2>1, Zenon DEF SenderInv
  <2>3. sent' \in Seq([to : Clients, msg : Message])
    BY <1>0, <2>1, <2>2, SMTT(30) DEF ConnTypeOK
  <2>4. TypeOK'
    BY <1>0, <1>2, <2>1, <2>3, Zenon DEF ConnTypeOK
  <2>5. ReceiverInv' /\ SenderInv'
    BY <1>0, <2>1, Zenon DEF ReceiverInv, SenderInv, recvvars
  <2> QED
    BY <1>1, <2>4, <2>5, Zenon
<1> QED
  BY <1>3, <1>4, <1>5, <1>6, Zenon DEF SendThread

\* The main thread keeps the types of what only it changes.
LEMMA WorkTypes ==
  ASSUME TypeInv, Main
  PROVE  /\ user' \in Labels
         /\ is_running' \in BOOLEAN
         /\ message_count' \in 0 .. MaxMessages
         /\ orphaned' \in BOOLEAN
         /\ journal' \in Seq([id : 1 .. MaxDatagrams, text : Texts])
         /\ result' \in [text : Texts \cup {"none"},
                         fate : {"none", "steady", "late", "absent", "other"}]
         /\ held' \subseteq {"worker", "socket", "connection"} \cup BothQueues
         /\ user' = "reply" => result'.text \in Texts
         /\ user' \in {"handle", "reply"} => message_count' < MaxMessages
<1> DEFINE Typed ==
      /\ user \in Labels
      /\ is_running \in BOOLEAN
      /\ message_count \in 0 .. MaxMessages
      /\ orphaned \in BOOLEAN
      /\ journal \in Seq([id : 1 .. MaxDatagrams, text : Texts])
      /\ result \in [text : Texts \cup {"none"}, fate : {"none", "steady", "late", "absent", "other"}]
      /\ held \subseteq {"worker", "socket", "connection"} \cup BothQueues
      /\ user = "reply" => result.text \in Texts
      /\ user \in {"handle", "reply"} => message_count < MaxMessages
<1>0. /\ Typed /\ umsg \in Message \cup {NoMessage}
      /\ user \in Having => umsg \in Message
      /\ MaxMessages \in Nat /\ MaxMessages > 0
  BY WorkerAssumption, SMTT(30) DEF TypeInv, TypeOK, ConnTypeOK, OwnerInv
<1>1. CASE CreateWorker
  <2>1. /\ user' \in {"socket", "bind", "queues", "connection", "start", "exit"}
        /\ held' \subseteq {"worker", "socket", "connection"} \cup BothQueues
        /\ UNCHANGED <<is_running, message_count, orphaned, journal, result>>
    BY <1>0, <1>1, Zenon DEF CreateWorker, OpenSocket, BindSocket, CreateStep, CreateQueues, BothQueues
  <2> QED
    BY ONLY <1>0, <2>1 DEF Labels
<1>2. CASE StartWorker
  <2>1. user' \in {"start_send", "start_failed", "wait", "loop"}
    BY <1>2, Zenon DEF StartWorker, StartReceiving, StartSending
  <2>2. is_running' \in BOOLEAN
    BY <1>2, Zenon DEF StartWorker
  <2>3. UNCHANGED <<message_count, orphaned, journal, result, held>>
    BY <1>2, Zenon DEF StartWorker
  <2> QED
    BY ONLY <1>0, <2>1, <2>2, <2>3, Zenon DEF Labels
<1>3. CASE WaitForConnection \/ UpdateTake \/ UpdateReturn \/ StopWorker
  <2>1. UNCHANGED workvars
    BY <1>3, Zenon DEF WaitForConnection, UpdateTake, UpdateReturn, StopWorker
  <2>2. /\ user' \in {"wait_add", "loop", "handle", "stop_join_recv", "stop_send",
                      "stop_join_send", "close_recv"}
        /\ user' = "handle" => message_count < MaxMessages
    BY <1>3, Zenon DEF WaitForConnection, UpdateTake, UpdateReturn, StopWorker, Receive, StopReceiving,
       JoinReceiver, StopSending, JoinSender
  <2> QED
    BY ONLY <1>0, <2>1, <2>2 DEF Labels, workvars
<1>4. CASE CheckStatus
  <2>1. /\ user' \in {"delete", "update"} /\ message_count' = 0
        /\ UNCHANGED <<is_running, orphaned, journal, result, held>>
    BY <1>4, Zenon DEF CheckStatus
  <2> QED
    BY ONLY <1>0, <2>1 DEF Labels
<1>5. CASE BeginDelete
  <2>1. /\ user' \in {"stop_recv", "close_recv"} /\ is_running' = FALSE
        /\ UNCHANGED <<message_count, orphaned, journal, result, held>>
    BY <1>5, Zenon DEF BeginDelete
  <2> QED
    BY ONLY <1>0, <2>1, Zenon DEF Labels
<1>6. CASE OnMessage
  <2>1. /\ user = "handle" /\ user' = "reply" /\ result' \in Results(umsg)
        /\ UNCHANGED <<is_running, message_count, orphaned, journal, held>>
    BY <1>6, Zenon DEF OnMessage
  <2>2. /\ result' \in [text : Texts \cup {"none"}, fate : {"none", "steady", "late", "absent", "other"}]
        /\ result'.text \in Texts
    BY <2>1, ResultsTyped, SMTT(30)
  <2> QED
    BY ONLY <1>0, <2>1, <2>2, Zenon DEF Labels
<1>7. CASE Reply
  <2>1. /\ user = "reply" /\ user' = "update" /\ result' = NoResult
        /\ message_count' = message_count + 1
        /\ journal' \in {journal, Append(journal, [id |-> umsg.id, text |-> result.text])}
        /\ UNCHANGED <<is_running, orphaned, held>>
    BY <1>7, Zenon DEF Reply, Send
  <2>2. umsg.id \in 1 .. MaxDatagrams /\ result.text \in Texts
    BY <1>0, <2>1, Zenon DEF Message, Having
  <2>3. [id |-> umsg.id, text |-> result.text] \in [id : 1 .. MaxDatagrams, text : Texts]
    BY <2>2, Zenon
  <2>4. journal' \in Seq([id : 1 .. MaxDatagrams, text : Texts])
    <3> DEFINE E == [id : 1 .. MaxDatagrams, text : Texts]
               e == [id |-> umsg.id, text |-> result.text]
    <3>1. journal \in Seq(E) /\ e \in E /\ journal' \in {journal, Append(journal, e)}
      BY <1>0, <2>1, <2>3, Zenon
    <3> HIDE DEF E, e
    <3>2. journal' \in Seq(E)
      BY ONLY <3>1, SMTT(30)
    <3> QED
      BY <3>2, Zenon DEF E
  <2> QED
    BY ONLY <1>0, <2>1, <2>4, SMTT(30) DEF Labels, NoResult
<1>8. CASE ReplyUnknown
  <2>1. /\ user = "handle" /\ user' = "update" /\ message_count' = message_count + 1
        /\ UNCHANGED <<is_running, orphaned, journal, result, held>>
    BY <1>8, Zenon DEF ReplyUnknown, Send
  <2> QED
    BY ONLY <1>0, <2>1 DEF Labels
<1>9. CASE DeleteWorker
  <2>1. /\ user' \in {"close_join_recv", "close_send", "close_join_send", "release", "exit"}
        /\ held' \subseteq held
        /\ UNCHANGED <<is_running, message_count, orphaned, journal, result>>
    BY <1>9, Zenon DEF DeleteWorker, StopReceiving, JoinReceiver, StopSending, JoinSender, Release,
       workvars
  <2> QED
    BY ONLY <1>0, <2>1, Zenon DEF Labels
<1> QED
  BY <1>1, <1>2, <1>3, <1>4, <1>5, <1>6, <1>7, <1>8, <1>9, Zenon DEF Main

\* The labels of a thread at which it has no message.
Empty == {"none", "loop", "recv", "done"}

\* A step of the main thread that moves no message keeps the other types.
LEMMA QuietTypes ==
  ASSUME TypeInv, Main, UNCHANGED <<rmsg, umsg, smsg, sockvars, queues, history>>,
         receiver' = receiver \/ (receiver \in Empty /\ receiver' \in Empty),
         sender' = sender \/ (sender \in Empty /\ sender' \in Empty \ {"recv"}),
         user \in Having <=> user' \in Having
  PROVE  TypeOK' /\ ReceiverInv' /\ SenderInv' /\ OwnerInv'
<1>1. ThreadInv'
  BY ThreadStep, Zenon DEF TypeInv, Next
<1>2. ConnTypeOK'
  <2>1. receiver' \in {"none", "loop", "recv", "read", "add", "done"}
    BY Zenon DEF TypeInv, TypeOK, ConnTypeOK, Empty
  <2>2. sender' \in {"none", "loop", "write", "send", "done"}
    BY Zenon DEF TypeInv, TypeOK, ConnTypeOK, Empty
  <2> QED
    BY <1>1, <2>1, <2>2, Zenon DEF TypeInv, TypeOK, ConnTypeOK, ThreadInv, sockvars, queues, history

<1>3. ReceiverInv'
  BY Zenon DEF TypeInv, ReceiverInv, Empty, sockvars
<1>4. SenderInv'
  BY Zenon DEF TypeInv, SenderInv, Empty, sockvars
<1>5. OwnerInv'
  BY WorkTypes, Zenon DEF TypeInv, OwnerInv
<1> QED
  BY <1>2, <1>3, <1>4, <1>5, WorkTypes, Zenon DEF TypeOK

\* Which steps of the main thread move no message.
LEMMA QuietSteps ==
  ASSUME TypeInv,
         \/ CreateWorker \/ StartWorker \/ CheckStatus \/ OnMessage \/ UpdateReturn
         \/ BeginDelete \/ StopWorker
         \/ DeleteWorker /\ user # "release"
  PROVE  /\ UNCHANGED <<rmsg, umsg, smsg, sockvars, queues, history>>
         /\ receiver' = receiver \/ (receiver \in Empty /\ receiver' \in Empty)
         /\ sender' = sender \/ (sender \in Empty /\ sender' \in Empty \ {"recv"})
         /\ user \in Having <=> user' \in Having
<1> USE DEF recvvars, sendvars, Empty, Having
<1>1. CASE CreateWorker
  BY <1>1, Zenon DEF CreateWorker, OpenSocket, BindSocket, CreateStep, CreateQueues
<1>2. CASE StartWorker
  <2>1. ASSUME StartReceiving("start", "start_send", "start_failed")
        PROVE  receiver = "none"
    BY <2>1, Zenon DEF StartReceiving, TypeInv, ThreadInv, Threadless
  <2>2. ASSUME NEW next \in {"wait", "loop"}, StartSending("start_send", next, "start_failed"),
               ~is_sending
        PROVE  sender = "none"
    BY <2>2, Zenon DEF StartSending, TypeInv, ThreadInv
  <2>3. CASE StartReceiving("start", "start_send", "start_failed")
    BY <2>1, <2>3, Zenon DEF StartReceiving
  <2>4. ASSUME NEW next \in {"wait", "loop"}, StartSending("start_send", next, "start_failed")
        PROVE  /\ UNCHANGED <<rmsg, umsg, smsg, sockvars, queues, history>>
               /\ receiver' = receiver
               /\ sender' = sender \/ (sender \in Empty /\ sender' \in Empty \ {"recv"})
               /\ user \in Having <=> user' \in Having
    BY <2>2, <2>4, Zenon DEF StartSending
  <2> QED
    BY <1>2, <2>3, <2>4, Zenon DEF StartWorker
<1>3. CASE CheckStatus \/ OnMessage \/ UpdateReturn \/ BeginDelete
  BY <1>3, Zenon DEF CheckStatus, OnMessage, UpdateReturn, BeginDelete
<1>4. CASE StopWorker
  BY <1>4, Zenon DEF StopWorker, StopReceiving, JoinReceiver, StopSending, JoinSender
<1>5. CASE DeleteWorker /\ user # "release"
  BY <1>5, Zenon DEF DeleteWorker, StopReceiving, JoinReceiver, StopSending, JoinSender, Release
<1> QED
  BY <1>1, <1>2, <1>3, <1>4, <1>5, Zenon

\* The replies to a message, of which that without a result needs a failure.
Replies(m, r) == {Answer(m, r, TRUE)}
                   \cup (IF Faults \cap {"realloc", "format"} = {} THEN {}
                         ELSE {Answer(m, r, FALSE)})

\* Reply sends one of them.
LEMMA ReplySends ==
  ASSUME Reply
  PROVE  /\ \E m \in Replies(umsg, result) :
               Send(m, "reply", "update")
         /\ journal' \in {journal, Append(journal, [id |-> umsg.id, text |-> result.text])}
<1>1. PICK logged \in BOOLEAN, answered \in BOOLEAN :
        /\ ~logged => "format" \in Faults /\ ~answered
        /\ logged /\ ~answered => \/ "realloc" \in Faults
                                  \/ "format" \in Faults /\ result.text \in {"usage", "over"}
        /\ Send(Answer(umsg, result, answered), "reply", "update")
        /\ journal' = IF logged THEN Append(journal, [id |-> umsg.id, text |-> result.text])
                      ELSE journal
  BY Zenon DEF Reply
<1> QED
  BY <1>1, Zenon DEF Replies

\* The steps of the main thread that move a message: it takes one, puts it
\* back, sends a reply, or deletes the queues.
MainMoves ==
  \/ Receive("wait", "wait_add")
  \/ Receive("update", "handle")
  \/ /\ user = "wait_add" /\ user' = "loop"
     /\ inq' = Enq(inq, umsg, Capacity)
     /\ discarded' = discarded \cup DroppedIds(inq)
     /\ umsg' = NoMessage
     /\ UNCHANGED <<recvvars, sendvars, sockvars, outq, arrived, sent>>
  \/ \E m \in Replies(umsg, result) : Send(m, "reply", "update")
  \/ Send(umsg, "handle", "update")
  \/ Release("release", "exit")

LEMMA MainSteps ==
  ASSUME TypeInv, Main
  PROVE  \/ MainMoves
         \/ /\ UNCHANGED <<rmsg, umsg, smsg, sockvars, queues, history>>
            /\ receiver' = receiver \/ (receiver \in Empty /\ receiver' \in Empty)
            /\ sender' = sender \/ (sender \in Empty /\ sender' \in Empty \ {"recv"})
            /\ user \in Having <=> user' \in Having
<1>1. CASE \/ CreateWorker \/ StartWorker \/ CheckStatus \/ OnMessage \/ UpdateReturn
           \/ BeginDelete \/ StopWorker
           \/ DeleteWorker /\ user # "release"
  BY <1>1, QuietSteps, Zenon
<1>2. CASE WaitForConnection \/ UpdateTake
  BY <1>2, Zenon DEF WaitForConnection, UpdateTake, MainMoves
<1>3. CASE Reply \/ ReplyUnknown
  BY <1>3, ReplySends, Zenon DEF ReplyUnknown, MainMoves
<1>4. CASE DeleteWorker /\ user = "release"
  <2>1. Release("release", "exit")
    BY <1>4, Zenon DEF DeleteWorker, StopReceiving, JoinReceiver, StopSending, JoinSender
  <2> QED
    BY <2>1, Zenon DEF MainMoves
<1> QED
  BY <1>1, <1>2, <1>3, <1>4, Zenon DEF Main

\* A reply is a message with the id, the sender and the kind of its request.
LEMMA ReplyTypes ==
  ASSUME NEW m \in Message, NEW r, r.text \in Texts, NEW a \in Replies(m, r)
  PROVE  /\ a \in Message /\ a.id = m.id /\ a.kind = m.kind
         /\ \/ a.text = r.text
            \/ a.text = m.text /\ Faults \cap {"realloc", "format"} # {}
BY ZenonT(40) DEF Replies, Answer, Message

\* The moves of the main thread keep the types.
LEMMA MoveTypes ==
  ASSUME TypeInv, Main, MainMoves
  PROVE  TypeOK' /\ ReceiverInv' /\ SenderInv' /\ OwnerInv'
<1>0. /\ UNCHANGED <<recvvars, sendvars, sockvars, arrived, sent>>
      /\ TypeOK /\ ConnTypeOK /\ ReceiverInv /\ SenderInv /\ OwnerInv
  BY Zenon DEF MainMoves, Receive, Send, Release, history, TypeInv, TypeOK
<1>1. ReceiverInv' /\ SenderInv'
  BY <1>0, Zenon DEF ReceiverInv, SenderInv, recvvars, sendvars, sockvars
<1>2. ASSUME /\ inq' \in Queue /\ outq' \in Queue
             /\ IF user' \in Having THEN umsg' \in Message ELSE umsg' = NoMessage
             /\ discarded' \subseteq 1 .. MaxDatagrams
      PROVE  TypeOK' /\ OwnerInv'
  <2>1. ConnTypeOK'
    BY ONLY <1>0, <1>2 DEF ConnTypeOK, recvvars, sendvars, sockvars
  <2> QED
    BY <1>2, <2>1, WorkTypes, Zenon DEF TypeOK, OwnerInv
<1>3. inq \in Queue /\ outq \in Queue /\ discarded \subseteq 1 .. MaxDatagrams
  BY <1>0, Zenon DEF ConnTypeOK
<1>4. ASSUME NEW at, NEW next \in {"wait_add", "handle"}, Receive(at, next)
      PROVE  TypeOK' /\ OwnerInv'
  <2>1. /\ inq # <<>> /\ umsg' = Head(inq) /\ inq' = Tail(inq) /\ user' = next
        /\ UNCHANGED <<outq, discarded>>
    BY <1>4, Zenon DEF Receive, history
  <2>2. umsg' \in Message /\ inq' \in Queue
    BY <1>3, <2>1, TailProperties, Zenon
  <2> QED
    BY <1>2, <1>3, <2>1, <2>2, Zenon DEF Having
<1>5. CASE /\ user = "wait_add" /\ user' = "loop"
           /\ inq' = Enq(inq, umsg, Capacity)
           /\ discarded' = discarded \cup DroppedIds(inq)
           /\ umsg' = NoMessage
           /\ UNCHANGED <<recvvars, sendvars, sockvars, outq, arrived, sent>>
  <2>1. umsg \in Message
    BY <1>0, <1>5, Zenon DEF OwnerInv, Having
  <2>2. inq' \in Queue /\ DroppedIds(inq) \subseteq 1 .. MaxDatagrams
    BY <1>3, <1>5, <2>1, EnqTypes, Zenon
  <2>3. IF user' \in Having THEN umsg' \in Message ELSE umsg' = NoMessage
    BY <1>5, Zenon DEF Having
  <2>4. inq' \in Queue /\ outq' \in Queue /\ discarded' \subseteq 1 .. MaxDatagrams
    BY <1>3, <1>5, <2>2, Zenon
  <2> QED
    BY ONLY <1>1, <1>2, <2>3, <2>4, Zenon
<1>6. ASSUME NEW m \in Message, NEW at, Send(m, at, "update")
      PROVE  TypeOK' /\ OwnerInv'
  <2>1. /\ outq' = Enq(outq, m, Capacity) /\ discarded' = discarded \cup DroppedIds(outq)
        /\ umsg' = NoMessage /\ user' = "update" /\ UNCHANGED inq
    BY <1>6, Zenon DEF Send
  <2>2. outq' \in Queue /\ DroppedIds(outq) \subseteq 1 .. MaxDatagrams
    BY <1>3, <1>6, <2>1, EnqTypes, Zenon
  <2>3. IF user' \in Having THEN umsg' \in Message ELSE umsg' = NoMessage
    BY <2>1, Zenon DEF Having
  <2>4. inq' \in Queue /\ outq' \in Queue /\ discarded' \subseteq 1 .. MaxDatagrams
    BY <1>3, <2>1, <2>2, Zenon
  <2> QED
    BY ONLY <1>2, <2>3, <2>4, Zenon
<1>7. ASSUME NEW m \in Replies(umsg, result), Send(m, "reply", "update")
      PROVE  TypeOK' /\ OwnerInv'
  <2>1. umsg \in Message /\ result.text \in Texts
    BY <1>0, <1>7, Zenon DEF OwnerInv, Having, Send
  <2> QED
    BY <1>6, <1>7, <2>1, ReplyTypes, Zenon
<1>8. CASE Send(umsg, "handle", "update")
  <2>1. umsg \in Message
    BY <1>0, <1>8, Zenon DEF OwnerInv, Having, Send
  <2> QED
    BY ONLY <1>1, <1>6, <1>8, <2>1, Zenon
<1>9. CASE Release("release", "exit")
  <2>1. /\ user = "release" /\ user' = "exit" /\ inq' = <<>> /\ outq' = <<>>
        /\ discarded' = discarded \cup Ids(inq) \cup Ids(outq) /\ UNCHANGED umsg
    BY <1>9, Zenon DEF Release
  <2>2. <<>> \in Queue
    BY NetAssumption DEF Queue
  <2>3. Ids(inq) \subseteq 1 .. MaxDatagrams /\ Ids(outq) \subseteq 1 .. MaxDatagrams
    BY <1>3, IdsTyped, Zenon
  <2>4. umsg' = NoMessage
    BY <1>0, <2>1, Zenon DEF OwnerInv, Having
  <2>5. IF user' \in Having THEN umsg' \in Message ELSE umsg' = NoMessage
    BY <2>1, <2>4, Zenon DEF Having
  <2>6. inq' \in Queue /\ outq' \in Queue /\ discarded' \subseteq 1 .. MaxDatagrams
    BY <1>3, <2>1, <2>2, <2>3, Zenon
  <2> QED
    BY ONLY <1>1, <1>2, <2>5, <2>6, Zenon
<1>10. TypeOK' /\ OwnerInv'
  BY <1>4, <1>5, <1>7, <1>8, <1>9, Zenon DEF MainMoves
<1> QED
  BY <1>1, <1>10, Zenon

\* Every step of the worker keeps every type.
LEMMA TypeStep == TypeInv /\ [Next]_vars => TypeInv'
<1> SUFFICES ASSUME TypeInv, [Next]_vars PROVE TypeInv'
  BY Zenon
<1>1. ThreadInv'
  BY ThreadStep, Zenon DEF TypeInv
<1>2. CASE Main
  BY <1>1, <1>2, MainSteps, QuietTypes, MoveTypes, Zenon DEF TypeInv
<1>3. CASE ReceiveThread /\ UNCHANGED workvars
  BY <1>1, <1>3, ReceiverTypes, Zenon DEF TypeInv
<1>4. CASE SendThread /\ UNCHANGED workvars
  BY <1>1, <1>4, SenderTypes, Zenon DEF TypeInv
<1>5. CASE ParentDies \/ UNCHANGED vars
  <2>1. /\ UNCHANGED <<connvars, is_running, message_count, journal, result, held>>
        /\ orphaned' \in {orphaned, TRUE}
    BY <1>5, Zenon DEF ParentDies, vars, workvars
  <2>2. UNCHANGED <<recvvars, sendvars, sockvars, queues, uservars, history>>
    BY <2>1, Zenon DEF connvars
  <2>3. TypeOK'
    <3>1. ConnTypeOK /\ TypeOK
      BY Zenon DEF TypeInv, TypeOK
    <3>2. ConnTypeOK'
      BY ONLY <2>2, <3>1, SMTT(30) DEF ConnTypeOK, recvvars, sendvars, sockvars, queues, uservars, history
    <3>3. orphaned' \in BOOLEAN
      BY <2>1, <3>1, Zenon DEF TypeOK
    <3> QED
      BY ONLY <2>1, <2>2, <3>1, <3>2, <3>3, Zenon DEF TypeOK, uservars
  <2>4. ReceiverInv' /\ SenderInv' /\ OwnerInv'
    BY <2>1, <2>2, Zenon DEF TypeInv, ReceiverInv, SenderInv, OwnerInv, recvvars, sendvars, sockvars,
       uservars
  <2> QED
    BY <1>1, <2>3, <2>4, Zenon DEF TypeInv
<1> QED
  BY <1>2, <1>3, <1>4, <1>5, Zenon DEF Next

LEMMA TypeInit == Init => TypeInv
<1> SUFFICES ASSUME Init PROVE TypeInv
  BY Zenon
<1>1. ThreadInv
  BY ThreadInit, Zenon
<1>2. <<>> \in Queue
  BY NetAssumption DEF Queue
<1>3. ConnTypeOK
  <2>1. <<>> \in Seq([to : Clients, msg : Message]) /\ 0 \in 0 .. MaxDatagrams
    BY NetAssumption
  <2>2. ConnInit
    BY Zenon DEF Init
  <2> QED
    BY ONLY <1>2, <2>1, <2>2, Zenon DEF ConnInit, ConnTypeOK
<1>4. TypeOK
  <2>1. user \in Labels /\ 0 \in 0 .. MaxMessages
    BY WorkerAssumption DEF Init, Labels
  <2>2. NoResult \in [text : Texts \cup {"none"}, fate : {"none", "steady", "late", "absent", "other"}]
    BY Zenon DEF NoResult
  <2>3. <<>> \in Seq([id : 1 .. MaxDatagrams, text : Texts])
    OBVIOUS
  <2> QED
    BY <1>3, <2>1, <2>2, <2>3, Zenon DEF Init, TypeOK
<1>5. ReceiverInv /\ SenderInv /\ OwnerInv
  BY Zenon DEF Init, ConnInit, ReceiverInv, SenderInv, OwnerInv, Having
<1> QED
  BY <1>1, <1>4, <1>5, Zenon DEF TypeInv

\* Every variable of the worker keeps its type: a thread that hands a message
\* on has one, and no queue ever holds Capacity messages.
THEOREM WorkerTyped == Spec => []TypeOK
<1>1. TypeInv => TypeOK
  BY Zenon DEF TypeInv
<1> QED
  BY <1>1, TypeInit, TypeStep, PTL DEF Spec

-----------------------------------------------------------------------------
(* What is answered *)

\* The elements of a queue are messages with ids.
LEMMA QueueElements ==
  ASSUME NEW s \in Queue
  PROVE  /\ Len(s) \in Nat /\ DOMAIN s = 1 .. Len(s)
         /\ \A i \in 1 .. Len(s) : s[i] \in Message /\ s[i].id \in Nat
         /\ Ids(s) = {s[i].id : i \in 1 .. Len(s)}
<1>1. s \in Seq(Message)
  BY Zenon DEF Queue
<1>2. Len(s) \in Nat /\ DOMAIN s = 1 .. Len(s) /\ \A i \in 1 .. Len(s) : s[i] \in Message
  BY <1>1, SMTT(30)
<1>3. \A m \in Message : m.id \in Nat
  BY DEF Message
<1>4. Ids(s) = {s[i].id : i \in 1 .. Len(s)}
  BY <1>2, Zenon DEF Ids
<1> QED
  BY <1>2, <1>3, <1>4, Zenon

\* A reply that leaves adds its id to those that were sent.
LEMMA SendIds ==
  ASSUME NEW e \in [to : Clients, msg : Message], TypeInv
  PROVE  /\ DOMAIN sent = 1 .. Len(sent) /\ Len(sent) \in Nat
         /\ \A k \in 1 .. Len(sent) : sent[k] \in [to : Clients, msg : Message]
         /\ DOMAIN Append(sent, e) = 1 .. Len(sent) + 1
         /\ \A k \in 1 .. Len(sent) : Append(sent, e)[k] = sent[k]
         /\ Append(sent, e)[Len(sent) + 1] = e
         /\ {Append(sent, e)[k].msg.id : k \in DOMAIN Append(sent, e)}
              = {sent[k].msg.id : k \in DOMAIN sent} \cup {e.msg.id}
<1> DEFINE S == [to : Clients, msg : Message]
           n == Len(sent)
           t == Append(sent, e)
<1>1. sent \in Seq(S)
  BY Zenon DEF TypeInv, TypeOK, ConnTypeOK
<1>2. DOMAIN sent = 1 .. n /\ n \in Nat /\ \A k \in 1 .. n : sent[k] \in S
  <2> HIDE DEF S
  <2>1. DOMAIN sent = 1 .. n /\ n \in Nat
    BY <1>1
  <2>2. ASSUME NEW k \in 1 .. n PROVE sent[k] \in S
    BY <1>1, <2>2, SMTT(30)
  <2> QED
    BY <2>1, <2>2, Zenon
<1>3. /\ t \in Seq(S) /\ Len(t) = n + 1
      /\ \A k \in 1 .. n : t[k] = sent[k]
      /\ t[n + 1] = e
  BY <1>1, SMTT(30)
<1>4. DOMAIN t = 1 .. n + 1
  BY <1>3, SMTT(30)
<1>5. \A k \in 1 .. n + 1 : k \in 1 .. n \/ k = n + 1
  BY <1>2
<1>6. n + 1 \in 1 .. n + 1 /\ \A k \in 1 .. n : k \in 1 .. n + 1
  BY <1>2, SMTT(30)
<1> HIDE DEF S, n, t
<1>7. {t[k].msg.id : k \in 1 .. n + 1} = {sent[k].msg.id : k \in 1 .. n} \cup {e.msg.id}
  BY ONLY <1>3, <1>5, <1>6, Zenon
<1> QED
  BY <1>2, <1>3, <1>4, <1>7, Zenon DEF S, n, t

Elements(s) == {s[k] : k \in DOMAIN s}

\* The messages on their way to worker_on_message, and behind it.
Requests == Elements(inq) \cup (IF receiver = "add" THEN {rmsg} ELSE {})
              \cup (IF user \in Having THEN {umsg} ELSE {})

Answers == Elements(outq) \cup (IF sender \in {"write", "send"} THEN {smsg} ELSE {})
             \cup {sent[k].msg : k \in DOMAIN sent}

LEMMA RequestsWillBe ==
  Requests' = Elements(inq') \cup (IF receiver' = "add" THEN {rmsg'} ELSE {})
                \cup (IF user' \in Having THEN {umsg'} ELSE {})
BY Zenon DEF Requests, Elements, Having

LEMMA AnswersWillBe ==
  Answers' = Elements(outq') \cup (IF sender' \in {"write", "send"} THEN {smsg'} ELSE {})
               \cup {sent'[k].msg : k \in DOMAIN sent'}
BY Zenon DEF Answers, Elements

\* What the operations of a queue do to its elements.
LEMMA QueueContents ==
  ASSUME NEW s \in Queue
  PROVE  /\ Elements(<<>>) = {}
         /\ s # <<>> => Head(s) \in Elements(s) /\ Elements(Tail(s)) \subseteq Elements(s)
         /\ \A m \in Message : Elements(Enq(s, m, Capacity)) \subseteq Elements(s) \cup {m}
<1>1. Len(s) \in Nat /\ DOMAIN s = 1 .. Len(s)
  BY QueueElements, Zenon
<1>2. ASSUME s # <<>> PROVE Head(s) \in Elements(s) /\ Elements(Tail(s)) \subseteq Elements(s)
  <2>1. /\ Head(s) = s[1] /\ Len(s) >= 1 /\ Len(Tail(s)) = Len(s) - 1
        /\ \A i \in 1 .. Len(s) - 1 : Tail(s)[i] = s[i + 1]
    BY <1>2, TailProperties, Zenon
  <2>2. DOMAIN Tail(s) = 1 .. Len(s) - 1
    BY <1>2, <2>1, TailProperties, QueueElements, Zenon
  <2>3. 1 \in 1 .. Len(s) /\ \A i \in 1 .. Len(s) - 1 : i + 1 \in 1 .. Len(s)
    BY <1>1, <2>1
  <2>4. Head(s) \in Elements(s)
    BY <1>1, <2>1, <2>3, Zenon DEF Elements
  <2>5. \A i \in DOMAIN Tail(s) : Tail(s)[i] \in Elements(s)
    <3> SUFFICES ASSUME NEW i \in 1 .. Len(s) - 1 PROVE Tail(s)[i] \in Elements(s)
      BY <2>2, Zenon
    <3>1. Tail(s)[i] = s[i + 1] /\ i + 1 \in DOMAIN s
      BY <1>1, <2>1, <2>3, Zenon
    <3> QED
      BY <3>1, Zenon DEF Elements
  <2> QED
    BY <2>4, <2>5, Zenon DEF Elements
<1>3. ASSUME NEW m \in Message PROVE Elements(Enq(s, m, Capacity)) \subseteq Elements(s) \cup {m}
  <2> DEFINE r == Enq(s, m, Capacity)
             d == Dropped(s, Capacity)
  <2>1. /\ d \in 0 .. Len(s) /\ r \in Queue /\ Len(r) = Len(s) - d + 1
        /\ \A i \in 1 .. Len(s) - d : r[i] = s[d + i]
        /\ r[Len(s) - d + 1] = m
    BY EnqProperties, Zenon
  <2>2. DOMAIN r = 1 .. Len(s) - d + 1
    BY <2>1, QueueElements, Zenon
  <2> HIDE DEF r, d
  <2>3. \A i \in DOMAIN r : r[i] \in Elements(s) \cup {m}
    <3> SUFFICES ASSUME NEW i \in 1 .. Len(s) - d + 1 PROVE r[i] \in Elements(s) \cup {m}
      BY <2>2, Zenon
    <3>1. CASE i = Len(s) - d + 1
      BY <2>1, <3>1, Zenon
    <3>2. CASE i \in 1 .. Len(s) - d
      <4>1. r[i] = s[d + i] /\ d + i \in 1 .. Len(s)
        BY <1>1, <2>1, <3>2, SMTT(30)
      <4> QED
        BY <1>1, <4>1, Zenon DEF Elements
    <3> QED
      BY <1>1, <2>1, <3>1, <3>2, SMTT(30)
  <2> QED
    BY <2>3, Zenon DEF Elements, r
<1>4. Elements(<<>>) = {}
  BY SMTT(30) DEF Elements
<1> QED
  BY <1>2, <1>3, <1>4, Zenon

\* Requests come from the receive thread alone.
LEMMA RequestSteps ==
  ASSUME TypeInv, [Next]_vars
  PROVE  \/ Requests' \subseteq Requests
         \/ ReadMessage /\ Requests' \subseteq Requests \cup {rmsg'}
<1>0. /\ inq \in Queue /\ ReceiverInv /\ OwnerInv
      /\ Requests = Elements(inq) \cup (IF receiver = "add" THEN {rmsg} ELSE {})
                      \cup (IF user \in Having THEN {umsg} ELSE {})
  BY Zenon DEF TypeInv, TypeOK, ConnTypeOK, Requests
<1>1. CASE SendThread \/ ParentDies \/ UNCHANGED vars
  <2>1. UNCHANGED <<inq, receiver, rmsg, user, umsg>>
    BY <1>1, Zenon DEF SendThread, SendLoop, WriteMessage, SendTo, ParentDies,
       vars, connvars, uservars, recvvars, queues
  <2> QED
    BY <1>0, <2>1, RequestsWillBe, Zenon
<1>2. CASE ReceiveLoop \/ RecvTimeout \/ RecvFrom \/ CreateFails
  <2>1. UNCHANGED <<inq, user, umsg>> /\ receiver' # "add"
    BY <1>2, Zenon DEF ReceiveLoop, RecvTimeout, RecvFrom, CreateFails, uservars, queues
  <2> QED
    BY <1>0, <2>1, RequestsWillBe, Zenon
<1>3. CASE ReadMessage
  <2>1. UNCHANGED <<inq, user, umsg>> /\ receiver' = "add"
    BY <1>3, Zenon DEF ReadMessage, uservars, queues
  <2> QED
    BY <1>0, <1>3, <2>1, RequestsWillBe, Zenon
<1>4. CASE AddIncoming
  <2>1. /\ UNCHANGED <<user, umsg>> /\ receiver = "add" /\ receiver' # "add"
        /\ inq' = Enq(inq, rmsg, Capacity)
    BY <1>4, Zenon DEF AddIncoming, uservars
  <2>2. rmsg \in Message
    BY <1>0, <2>1, Zenon DEF ReceiverInv
  <2>3. Elements(inq') \subseteq Elements(inq) \cup {rmsg}
    BY <1>0, <2>1, <2>2, QueueContents, Zenon
  <2> QED
    BY <1>0, <2>1, <2>3, RequestsWillBe, Zenon
<1>5. CASE Main /\ MainMoves
  <2>0. UNCHANGED <<receiver, rmsg>>
    BY <1>5, Zenon DEF MainMoves, Receive, Send, Release, recvvars
  <2>1. ASSUME NEW at, NEW next, Receive(at, next) PROVE Requests' \subseteq Requests
    <3>1. inq # <<>> /\ umsg' = Head(inq) /\ inq' = Tail(inq)
      BY <2>1, Zenon DEF Receive
    <3>2. Head(inq) \in Elements(inq) /\ Elements(inq') \subseteq Elements(inq)
      BY <1>0, <3>1, QueueContents, Zenon
    <3> QED
      BY <1>0, <2>0, <3>1, <3>2, RequestsWillBe, Zenon
  <2>2. CASE user = "wait_add" /\ user' = "loop" /\ inq' = Enq(inq, umsg, Capacity)
    <3>1. umsg \in Message
      BY <1>0, <2>2, Zenon DEF OwnerInv, Having
    <3>2. Elements(inq') \subseteq Elements(inq) \cup {umsg}
      BY <1>0, <2>2, <3>1, QueueContents, Zenon
    <3> QED
      BY <1>0, <2>0, <2>2, <3>2, RequestsWillBe, SMTT(30) DEF Having
  <2>3. ASSUME NEW m, NEW at, Send(m, at, "update") PROVE Requests' \subseteq Requests
    <3>1. UNCHANGED inq /\ user' \notin Having
      BY <2>3, Zenon DEF Send, Having
    <3> QED
      BY <1>0, <2>0, <3>1, RequestsWillBe, Zenon
  <2>4. CASE Release("release", "exit")
    <3>1. inq' = <<>> /\ user' \notin Having
      BY <2>4, Zenon DEF Release, Having
    <3>2. Elements(inq') = {}
      BY <1>0, <3>1, QueueContents, Zenon
    <3> QED
      BY <1>0, <2>0, <3>1, <3>2, RequestsWillBe, Zenon
  <2> QED
    BY <1>5, <2>1, <2>2, <2>3, <2>4, Zenon DEF MainMoves
<1>6. CASE Main /\ ~MainMoves
  <2>1. /\ UNCHANGED <<inq, rmsg, umsg>>
        /\ receiver' = "add" => receiver = "add"
        /\ user \in Having <=> user' \in Having
    BY <1>6, MainSteps, Zenon DEF queues, Empty
  <2> QED
    BY <1>0, <2>1, RequestsWillBe, Zenon
<1> QED
  BY <1>1, <1>2, <1>3, <1>4, <1>5, <1>6, Zenon DEF Next, ReceiveThread, ReceiverProgress

\* Answers come from the main thread alone.
LEMMA AnswerSteps ==
  ASSUME TypeInv, [Next]_vars
  PROVE  \/ Answers' \subseteq Answers
         \/ \E m \in Replies(umsg, result) :
              /\ user = "reply" /\ user' = "update" /\ m \in Message
              /\ Answers' \subseteq Answers \cup {m}
         \/ user = "handle" /\ user' = "update" /\ Answers' \subseteq Answers \cup {umsg}
<1>0. /\ outq \in Queue /\ SenderInv /\ OwnerInv
      /\ Answers = Elements(outq) \cup (IF sender \in {"write", "send"} THEN {smsg} ELSE {})
                     \cup {sent[k].msg : k \in DOMAIN sent}
  BY Zenon DEF TypeInv, TypeOK, ConnTypeOK, Answers
<1>1. CASE ReceiveThread \/ ParentDies \/ UNCHANGED vars
  <2>1. UNCHANGED <<outq, sender, smsg, sent>>
    BY <1>1, Zenon DEF ReceiveThread, ReceiverProgress, ReceiveLoop, RecvTimeout, ReadMessage, AddIncoming,
       RecvFrom, CreateFails, ParentDies, vars, connvars, sendvars, queues, history
  <2> QED
    BY <1>0, <2>1, AnswersWillBe, Zenon
<1>2. CASE SendLoop
  <2>1. /\ UNCHANGED sent
        /\ \/ sender' = "done" /\ UNCHANGED outq
           \/ outq # <<>> /\ smsg' = Head(outq) /\ outq' = Tail(outq)
    BY <1>2, Zenon DEF SendLoop, history
  <2>2. CASE sender' = "done" /\ UNCHANGED outq
    BY <1>0, <2>1, <2>2, AnswersWillBe, Zenon
  <2>3. CASE outq # <<>> /\ smsg' = Head(outq) /\ outq' = Tail(outq)
    <3>1. Head(outq) \in Elements(outq) /\ Elements(outq') \subseteq Elements(outq)
      BY <1>0, <2>3, QueueContents, Zenon
    <3> QED
      BY <1>0, <2>1, <2>3, <3>1, AnswersWillBe, SMTT(30)
  <2> QED
    BY <2>1, <2>2, <2>3, Zenon
<1>3. CASE WriteMessage
  <2>1. /\ UNCHANGED <<outq, sent>> /\ sender = "write"
        /\ sender' \notin {"write", "send"} \/ UNCHANGED smsg
    BY <1>3, Zenon DEF WriteMessage, queues
  <2> QED
    BY <1>0, <2>1, AnswersWillBe, Zenon
<1>4. CASE SendTo
  <2> DEFINE e == [to |-> incoming_addr, msg |-> smsg]
  <2>1. /\ UNCHANGED outq /\ sender = "send" /\ sender' = "loop" /\ sent' = Append(sent, e)
    BY <1>4, Zenon DEF SendTo, queues
  <2>2. e \in [to : Clients, msg : Message] /\ e.msg = smsg
    BY <1>0, <2>1, Zenon DEF SenderInv
  <2> HIDE DEF e
  <2>3. /\ Len(sent) \in Nat /\ DOMAIN sent = 1 .. Len(sent)
        /\ DOMAIN sent' = 1 .. Len(sent) + 1
        /\ \A k \in 1 .. Len(sent) : sent'[k] = sent[k]
        /\ sent'[Len(sent) + 1] = e
    BY <2>1, <2>2, SendIds, Zenon
  <2>4. \A k \in 1 .. Len(sent) + 1 : k \in 1 .. Len(sent) \/ k = Len(sent) + 1
    BY <2>3, SMTT(30)
  <2>5. {sent'[k].msg : k \in DOMAIN sent'} \subseteq {sent[k].msg : k \in DOMAIN sent} \cup {smsg}
    BY <2>2, <2>3, <2>4, Zenon
  <2> QED
    BY <1>0, <2>1, <2>5, AnswersWillBe, Zenon
<1>5. CASE Main /\ MainMoves
  <2>0. UNCHANGED <<sender, smsg, sent>>
    BY <1>5, Zenon DEF MainMoves, Receive, Send, Release, sendvars, history
  <2>1. CASE UNCHANGED outq
    BY <1>0, <2>0, <2>1, AnswersWillBe, Zenon
  <2>2. ASSUME NEW m \in Message, NEW at, Send(m, at, "update")
        PROVE  user = at /\ user' = "update" /\ Answers' \subseteq Answers \cup {m}
    <3>1. user = at /\ user' = "update" /\ outq' = Enq(outq, m, Capacity)
      BY <2>2, Zenon DEF Send
    <3>2. Elements(outq') \subseteq Elements(outq) \cup {m}
      BY <1>0, <3>1, QueueContents, Zenon
    <3> QED
      BY <1>0, <2>0, <3>1, <3>2, AnswersWillBe, Zenon
  <2>3. ASSUME NEW m \in Replies(umsg, result), Send(m, "reply", "update")
        PROVE  /\ user = "reply" /\ user' = "update" /\ m \in Message
               /\ Answers' \subseteq Answers \cup {m}
    <3>1. umsg \in Message /\ result.text \in Texts
      BY <1>0, <2>3, Zenon DEF OwnerInv, Having, Send
    <3>2. m \in Message
      BY <2>3, <3>1, ReplyTypes, Zenon
    <3> QED
      BY ONLY <2>2, <2>3, <3>2, Zenon
  <2>4. ASSUME Send(umsg, "handle", "update")
        PROVE  user = "handle" /\ user' = "update" /\ Answers' \subseteq Answers \cup {umsg}
    <3>1. umsg \in Message
      BY <1>0, <2>4, Zenon DEF OwnerInv, Having, Send
    <3> QED
      BY ONLY <2>2, <2>4, <3>1, Zenon
  <2>5. CASE Release("release", "exit")
    <3>1. outq' = <<>>
      BY <2>5, Zenon DEF Release
    <3>2. Elements(outq') = {}
      BY <1>0, <3>1, QueueContents, Zenon
    <3> QED
      BY <1>0, <2>0, <3>1, <3>2, AnswersWillBe, Zenon
  <2> QED
    BY <1>5, <2>1, <2>3, <2>4, <2>5, Zenon DEF MainMoves, Receive
<1>6. CASE Main /\ ~MainMoves
  <2>1. /\ UNCHANGED <<outq, smsg, sent>>
        /\ sender' \in {"write", "send"} => sender' = sender
    BY <1>6, MainSteps, Zenon DEF queues, history, Empty
  <2> QED
    BY <1>0, <2>1, AnswersWillBe, Zenon
<1> QED
  BY <1>1, <1>2, <1>3, <1>4, <1>5, <1>6, Zenon DEF Next, SendThread

\* Which steps lead to and from worker_on_message, and to the journal.
LEMMA HandlerSteps ==
  ASSUME [Next]_vars
  PROVE  /\ user' = "reply" => OnMessage \/ UNCHANGED <<user, umsg, result>>
         /\ user = "reply" /\ user' = "update" => Reply
         /\ user = "handle" /\ user' = "update" => ReplyUnknown
         /\ receiver' = "read" => RecvFrom \/ UNCHANGED <<receiver, rmsg, incoming_buffer>>
         /\ journal' = journal \/ Reply
<1>1. CASE CreateWorker
  BY <1>1, Zenon DEF CreateWorker, CreateStep, OpenSocket, BindSocket, CreateQueues, recvvars, sockvars
<1>2. CASE StartWorker
  BY <1>2, Zenon DEF StartWorker, StartReceiving, StartSending, recvvars, sockvars
<1>3. CASE WaitForConnection \/ UpdateTake
  BY <1>3, Zenon DEF WaitForConnection, UpdateTake, Receive, recvvars, sockvars, workvars
<1>4. CASE CheckStatus \/ OnMessage \/ UpdateReturn \/ BeginDelete
  BY <1>4, Zenon DEF CheckStatus, OnMessage, UpdateReturn, BeginDelete, recvvars, sockvars, workvars
<1>5. CASE Reply \/ ReplyUnknown
  BY <1>5, Zenon DEF Reply, ReplyUnknown, Send, recvvars, sockvars
<1>6. CASE StopWorker \/ DeleteWorker
  BY <1>6, Zenon DEF StopWorker, DeleteWorker, StopReceiving, StopSending, JoinReceiver, JoinSender, Release,
     recvvars, sockvars, workvars
<1>7. CASE (ReceiveThread \/ SendThread) /\ UNCHANGED workvars
  <2>1. UNCHANGED <<user, umsg, result, journal>>
    BY <1>7, Zenon DEF ReceiveThread, ReceiverProgress, ReceiveLoop, RecvTimeout, ReadMessage, AddIncoming,
       RecvFrom, CreateFails, SendThread, SendLoop, WriteMessage, SendTo, uservars, workvars
  <2>2. receiver' = "read" => RecvFrom \/ UNCHANGED <<receiver, rmsg, incoming_buffer>>
    BY <1>7, Zenon DEF ReceiveThread, ReceiverProgress, ReceiveLoop, RecvTimeout, ReadMessage, AddIncoming,
       CreateFails, SendThread, SendLoop, WriteMessage, SendTo, recvvars, sockvars
  <2> QED
    BY <2>1, <2>2, Zenon
<1>8. CASE ParentDies \/ UNCHANGED vars
  BY <1>8, Zenon DEF ParentDies, vars, connvars, recvvars, sockvars, uservars, workvars
<1> QED
  BY <1>1, <1>2, <1>3, <1>4, <1>5, <1>6, <1>7, <1>8, Zenon DEF Next, Main

\* A call of get_process_cpu_usage comes to something.
LEMMA SomeResult ==
  ASSUME NEW m, m.type \in {"NONE", "PID"}
  PROVE  Results(m) # {}
<1> DEFINE a == [total |-> 0, exists |-> FALSE, spaced |-> FALSE, time |-> 0, reused |-> FALSE]
<1>1. a \in Machine /\ ~a.exists /\ ~a.reused /\ a.total = 0
  BY CpuAssumption, SMTT(30) DEF Machine
<1> HIDE DEF a
<1>2. a \in Later(a) /\ a \in {s \in Machine : s.total = 0 /\ ~s.reused}
  BY <1>1, SMTT(30) DEF Later
<1>3. <<a, a, a, a>> \in Histories
  BY <1>2, SMTT(30) DEF Histories
<1>4. 1 .. 4 \in Readings
  BY Zenon DEF Readings
<1>5. PidResults # {}
  BY <1>3, <1>4, SMTT(30) DEF PidResults
<1> QED
  BY <1>5, Zenon DEF Results

\* An answer fits its datagram, or is what was sent in spite of a failure.
FitsKind(m) == \/ (m.text = "invalid") <=> (m.kind # "pid")
               \/ m.text = "request" /\ Faults \cap {"realloc", "format"} # {}

\* A message has the type of its datagram, and an answer the text for it.
FitInv == /\ receiver = "read" => incoming_buffer = rmsg.kind
          /\ \A m \in Requests : m.type = TypeOf(m.kind) /\ m.text = "request"
          /\ user = "reply" => (result.text = "invalid" <=> umsg.kind # "pid")
          /\ \A m \in Answers : FitsKind(m)

LEMMA NothingYet ==
  ASSUME Init
  PROVE  Requests = {} /\ Answers = {}
<1>1. /\ inq = <<>> /\ outq = <<>> /\ sent = <<>> /\ receiver = "none" /\ sender = "none"
      /\ user = "create"
  BY Zenon DEF Init, ConnInit
<1> QED
  BY <1>1, SMTT(30) DEF Requests, Answers, Elements, Having

LEMMA FitStep ==
  ASSUME Kinds \subseteq {"pid", "none", "long"}, TypeInv, FitInv, [Next]_vars
  PROVE  FitInv'
<1>0. /\ ReceiverInv /\ OwnerInv
      /\ receiver = "read" => incoming_buffer = rmsg.kind
      /\ \A m \in Requests : m.type = TypeOf(m.kind) /\ m.text = "request"
      /\ user = "reply" => (result.text = "invalid" <=> umsg.kind # "pid")
      /\ \A m \in Answers : FitsKind(m)
  BY Zenon DEF TypeInv, FitInv
<1>a. user \in Having => umsg \in Requests /\ umsg \in Message
  BY <1>0, Zenon DEF Requests, OwnerInv
<1>b. \A m \in Message : m.kind \in Kinds
  BY Zenon DEF Message
<1>c. \A k \in Kinds : TypeOf(k) = IF k = "pid" THEN "PID" ELSE "NONE"
  BY Zenon DEF TypeOf
<1>1. receiver' = "read" => incoming_buffer' = rmsg'.kind
  <2>1. CASE RecvFrom
    <3>1. PICK k \in Kinds : /\ incoming_buffer' = IF k = "short" THEN incoming_buffer ELSE k
                             /\ rmsg'.kind = k
      BY <2>1, SMTT(30) DEF RecvFrom
    <3> QED
      BY <3>1, Zenon
  <2>2. CASE UNCHANGED <<receiver, rmsg, incoming_buffer>>
    BY <1>0, <2>2, Zenon
  <2> QED
    BY <2>1, <2>2, HandlerSteps, Zenon
<1>2. \A m \in Requests' : m.type = TypeOf(m.kind) /\ m.text = "request"
  <2>1. CASE Requests' \subseteq Requests
    BY <1>0, <2>1, Zenon
  <2>2. CASE ReadMessage /\ Requests' \subseteq Requests \cup {rmsg'}
    <3>1. /\ rmsg'.kind = rmsg.kind /\ rmsg'.type = TypeOf(incoming_buffer)
          /\ receiver = "read" /\ rmsg'.text = "request"
      BY <2>2, Zenon DEF ReadMessage
    <3>2. rmsg'.type = TypeOf(rmsg'.kind) /\ rmsg'.text = "request"
      BY <1>0, <3>1, Zenon
    <3> QED
      BY <1>0, <2>2, <3>2, Zenon
  <2> QED
    BY <2>1, <2>2, RequestSteps, Zenon
<1>3. user' = "reply" => (result'.text = "invalid" <=> umsg'.kind # "pid")
  <2>1. CASE OnMessage
    <3>1. user = "handle" /\ result' \in Results(umsg) /\ umsg' = umsg
      BY <2>1, Zenon DEF OnMessage
    <3>2. umsg \in Requests /\ umsg.kind \in Kinds
      BY <1>a, <1>b, <3>1, Zenon DEF Having
    <3>3. umsg.type = IF umsg.kind = "pid" THEN "PID" ELSE "NONE"
      BY <1>0, <1>c, <3>2, Zenon
    <3>4. result'.text = "invalid" <=> umsg.type = "NONE"
      BY <3>1, ResultsTyped, Zenon
    <3> QED
      BY <3>1, <3>3, <3>4, Zenon
  <2>2. CASE UNCHANGED <<user, umsg, result>>
    BY <1>0, <2>2, Zenon
  <2> QED
    BY <2>1, <2>2, HandlerSteps, Zenon
<1>4. \A m \in Answers' : FitsKind(m)
  <2>1. CASE Answers' \subseteq Answers
    BY <1>0, <2>1, Zenon
  <2>2. ASSUME NEW m \in Replies(umsg, result), user = "reply", Answers' \subseteq Answers \cup {m}
        PROVE  \A a \in Answers' : FitsKind(a)
    <3>1. umsg \in Message /\ result.text \in Texts
      BY <1>0, <1>a, <2>2, Zenon DEF OwnerInv, Having
    <3>a. umsg.text = "request"
      BY <1>0, <1>a, <2>2, Zenon DEF Having
    <3>2. /\ m.kind = umsg.kind
          /\ \/ m.text = result.text
             \/ m.text = "request" /\ Faults \cap {"realloc", "format"} # {}
      <4>1. /\ m.kind = umsg.kind
            /\ \/ m.text = result.text
               \/ m.text = umsg.text /\ Faults \cap {"realloc", "format"} # {}
        BY <2>2, <3>1, ReplyTypes, Zenon
      <4> QED
        BY ONLY <3>a, <4>1, Zenon
    <3>3. FitsKind(m)
      BY <1>0, <2>2, <3>2, Zenon DEF FitsKind
    <3> QED
      BY <1>0, <2>2, <3>3, Zenon
  <2>3. ~(user = "handle" /\ user' = "update")
    <3> SUFFICES ASSUME user = "handle", user' = "update" PROVE FALSE
      BY Zenon
    <3>1. Results(umsg) = {}
      BY HandlerSteps, Zenon DEF ReplyUnknown
    <3>2. umsg \in Requests /\ umsg.kind \in Kinds
      BY <1>a, <1>b, Zenon DEF Having
    <3>3. umsg.type \in {"NONE", "PID"}
      BY <1>0, <1>c, <3>2, Zenon
    <3> QED
      BY <3>1, <3>3, SomeResult, SMTT(30)
  <2> QED
    BY <2>1, <2>2, <2>3, AnswerSteps, Zenon
<1> QED
  BY <1>1, <1>2, <1>3, <1>4, Zenon DEF FitInv

\* A datagram that is no PID request is answered "invalid" and a PID request
\* is not, in whatever order net_connection.c and worker_on_message handle
\* them, as long as no datagram is shorter than a header, a PID without its
\* data or of an unknown type.  If realloc or snprintf may fail a client may
\* also get back what it sent, but nothing else.
THEOREM WorkerAnswersFit ==
  ASSUME Kinds \subseteq {"pid", "none", "long"}
  PROVE  Spec => []AnswerFits
<1>1. Init => TypeInv /\ FitInv
  <2> SUFFICES ASSUME Init PROVE TypeInv /\ FitInv
    BY Zenon
  <2>1. receiver = "none" /\ user = "create"
    BY Zenon DEF Init, ConnInit
  <2> QED
    BY <2>1, TypeInit, NothingYet, Zenon DEF FitInv
<1>2. TypeInv /\ FitInv /\ [Next]_vars => (TypeInv /\ FitInv)'
  BY TypeStep, FitStep, Zenon
<1>3. FitInv => AnswerFits
  <2> SUFFICES ASSUME FitInv, NEW i \in DOMAIN sent
               PROVE  \/ (sent[i].msg.text = "invalid") <=> (sent[i].msg.kind # "pid")
                      \/ sent[i].msg.text = "request" /\ Faults \cap {"realloc", "format"} # {}
    BY Zenon DEF AnswerFits
  <2>1. sent[i].msg \in Answers
    BY Zenon DEF Answers
  <2>2. FitsKind(sent[i].msg)
    BY <2>1, Zenon DEF FitInv
  <2> QED
    BY ONLY <2>2, Zenon DEF FitsKind
<1> QED
  BY <1>1, <1>2, <1>3, PTL DEF Spec
=============================================================================
