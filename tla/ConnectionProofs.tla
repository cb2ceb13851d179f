--------------------------- MODULE ConnectionProofs ---------------------------
(***************************************************************************)
(* Proofs about the threads of a connection, for any number of datagrams,  *)
(* clients and messages in the queues, and with failing pthread_create.    *)
(***************************************************************************)
EXTENDS ConnectionUser, TLAPS

\* A flag is clear, and its thread still there, exactly while the owner joins
\* the thread; net_connection_delete does not turn back.
ThreadInv ==
  /\ is_receiving \in BOOLEAN /\ is_sending \in BOOLEAN
  /\ IF user \in {"join_recv", "delete_join_recv"}
     THEN ~is_receiving /\ receiver # "none"
     ELSE is_receiving <=> receiver # "none"
  /\ IF user \in {"join_send", "delete_join_send"}
     THEN ~is_sending /\ sender # "none"
     ELSE is_sending <=> sender # "none"
  /\ user \in {"delete_send", "delete_join_send", "release", "deleted"} => ~is_receiving
  /\ user \in {"release", "deleted"} => ~is_sending

\* The threads themselves never appear, vanish or touch a flag.
LEMMA ThreadsStep ==
  ASSUME ThreadInv, ReceiveThread \/ SendThread PROVE ThreadInv'
<1>1. CASE ReceiveThread
  <2>1. UNCHANGED <<is_receiving, is_sending, sender, user>>
    BY <1>1, Zenon DEF ReceiveThread, ReceiverProgress, ReceiveLoop, RecvTimeout, ReadMessage,
       AddIncoming, RecvFrom, CreateFails, sendvars, uservars
  <2>2. receiver # "none" /\ receiver' # "none"
    BY <1>1, Zenon DEF ReceiveThread, ReceiverProgress, ReceiveLoop, RecvTimeout, ReadMessage,
       AddIncoming, RecvFrom, CreateFails
  <2> QED
    BY <2>1, <2>2, Zenon DEF ThreadInv
<1>2. CASE SendThread
  <2>1. UNCHANGED <<is_receiving, is_sending, receiver, user>>
    BY <1>2, Zenon DEF SendThread, SendLoop, WriteMessage, SendTo, recvvars, uservars
  <2>2. sender # "none" /\ sender' # "none"
    BY <1>2, Zenon DEF SendThread, SendLoop, WriteMessage, SendTo
  <2> QED
    BY <2>1, <2>2, Zenon DEF ThreadInv
<1> QED
  BY <1>1, <1>2, Zenon

\* Before the first start there is no thread.
LEMMA ThreadInit == Init => ThreadInv
BY Zenon DEF Init, ConnInit, ThreadInv

\* Every step of the owner or of a thread preserves the invariant.
LEMMA ThreadStep == ThreadInv /\ [Next]_connvars => ThreadInv'
<1> SUFFICES ASSUME ThreadInv, [Next]_connvars PROVE ThreadInv'
  BY Zenon
<1>1. CASE StartReceiving("idle", "idle", "idle")
  <2>1. /\ user = "idle" /\ user' = "idle" /\ UNCHANGED <<is_sending, sender>>
        /\ \/ UNCHANGED <<is_receiving, receiver>>
           \/ is_receiving' = TRUE /\ receiver' = "loop"
    BY <1>1, Zenon DEF StartReceiving, sendvars
  <2>2. CASE UNCHANGED <<is_receiving, receiver>>
    BY <2>1, <2>2, Zenon DEF ThreadInv
  <2>3. CASE is_receiving' = TRUE /\ receiver' = "loop"
    BY <2>1, <2>3, Zenon DEF ThreadInv
  <2> QED
    BY <2>1, <2>2, <2>3, Zenon
<1>2. CASE StartSending("idle", "idle", "idle")
  <2>1. /\ user = "idle" /\ user' = "idle" /\ UNCHANGED <<is_receiving, receiver>>
        /\ \/ UNCHANGED <<is_sending, sender>>
           \/ is_sending' = TRUE /\ sender' = "loop"
    BY <1>2, Zenon DEF StartSending, recvvars
  <2>2. CASE UNCHANGED <<is_sending, sender>>
    BY <2>1, <2>2, Zenon DEF ThreadInv
  <2>3. CASE is_sending' = TRUE /\ sender' = "loop"
    BY <2>1, <2>3, Zenon DEF ThreadInv
  <2> QED
    BY <2>1, <2>2, <2>3, Zenon
<1>3. CASE Stop \/ Join \/ DeleteConnection
  <2>1. ASSUME NEW at, NEW join, NEW next, StopReceiving(at, join, next),
               <<at, join, next>> \in {<<"idle", "join_recv", "idle">>,
                                       <<"delete", "delete_join_recv", "delete_send">>}
        PROVE ThreadInv'
    <3>1. /\ user = at /\ is_receiving' = FALSE /\ UNCHANGED <<receiver, is_sending, sender>>
          /\ user' = IF is_receiving THEN join ELSE next
      BY <2>1, Zenon DEF StopReceiving, sendvars
    <3> QED
      BY <2>1, <3>1, Zenon DEF ThreadInv
  <2>2. ASSUME NEW join, NEW next, JoinReceiver(join, next),
               <<join, next>> \in {<<"join_recv", "idle">>,
                                   <<"delete_join_recv", "delete_send">>}
        PROVE ThreadInv'
    <3>1. /\ user = join /\ user' = next /\ receiver' = "none"
          /\ UNCHANGED <<is_receiving, is_sending, sender>>
      BY <2>2, Zenon DEF JoinReceiver, sendvars
    <3> QED
      BY <2>2, <3>1, Zenon DEF ThreadInv
  <2>3. ASSUME NEW at, NEW join, NEW next, StopSending(at, join, next),
               <<at, join, next>> \in {<<"idle", "join_send", "idle">>,
                                       <<"delete_send", "delete_join_send", "release">>}
        PROVE ThreadInv'
    <3>1. /\ user = at /\ is_sending' = FALSE /\ UNCHANGED <<sender, is_receiving, receiver>>
          /\ user' = IF is_sending THEN join ELSE next
      BY <2>3, Zenon DEF StopSending, recvvars
    <3> QED
      BY <2>3, <3>1, Zenon DEF ThreadInv
  <2>4. ASSUME NEW join, NEW next, JoinSender(join, next),
               <<join, next>> \in {<<"join_send", "idle">>,
                                   <<"delete_join_send", "release">>}
        PROVE ThreadInv'
    <3>1. /\ user = join /\ user' = next /\ sender' = "none"
          /\ UNCHANGED <<is_sending, is_receiving, receiver>>
      BY <2>4, Zenon DEF JoinSender, recvvars
    <3> QED
      BY <2>4, <3>1, Zenon DEF ThreadInv
  <2>5. CASE Release("release", "deleted")
    <3>1. /\ user = "release" /\ user' = "deleted"
          /\ UNCHANGED <<is_receiving, receiver, is_sending, sender>>
      BY <2>5, Zenon DEF Release, recvvars, sendvars
    <3> QED
      BY <3>1, Zenon DEF ThreadInv
  <2> QED
    BY <1>3, <2>1, <2>2, <2>3, <2>4, <2>5, Zenon DEF Stop, Join, DeleteConnection
<1>4. CASE \/ Receive("idle", "idle") \/ BlockingReceive \/ Receive("receive", "idle")
           \/ Send(umsg, "idle", "idle") \/ DeleteMessage \/ BeginDelete
  BY <1>4 DEF ThreadInv, Receive, BlockingReceive, Send, DeleteMessage, BeginDelete,
     recvvars, sendvars
<1>5. CASE UNCHANGED connvars
  BY <1>5, Zenon DEF ThreadInv, connvars, recvvars, sendvars, uservars
<1> QED
  BY <1>1, <1>2, <1>3, <1>4, <1>5, ThreadsStep, Zenon DEF Next

\* A thread runs exactly when its flag is set, except while it is joined.
THEOREM ConnectionFlagTracksThread == Spec => []FlagTracksThread
<1>1. ThreadInv => FlagTracksThread
  BY Zenon DEF ThreadInv, FlagTracksThread
<1> QED
  BY <1>1, ThreadInit, ThreadStep, PTL DEF Spec

\* net_connection_delete frees the socket and the queues after both threads.
THEOREM ConnectionDeleteIsLast == Spec => []DeleteIsLast
<1>1. ThreadInv => DeleteIsLast
  BY Zenon DEF ThreadInv, DeleteIsLast
<1> QED
  BY <1>1, ThreadInit, ThreadStep, PTL DEF Spec
=============================================================================
