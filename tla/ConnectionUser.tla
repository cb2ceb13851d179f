--------------------------- MODULE ConnectionUser ---------------------------
(***************************************************************************)
(* A net_connection_t in the hands of one owner that calls its operations  *)
(* in any order, as src/test/network/test_net_connection.c does, and in    *)
(* the end deletes it.  The owner sends back or deletes what it receives.  *)
(***************************************************************************)
EXTENDS NetConnection

Init == ConnInit /\ user = "idle"

\* The owner deletes a message it received.
DeleteMessage == /\ user = "idle"
                 /\ umsg # NoMessage
                 /\ discarded' = discarded \cup {umsg.id}
                 /\ umsg' = NoMessage
                 /\ UNCHANGED <<recvvars, sendvars, sockvars, queues, user, arrived, sent>>

\* net_connection_receive on an empty queue blocks in message_queue_dequeue.
BlockingReceive == /\ user = "idle"
                   /\ umsg = NoMessage
                   /\ user' = "receive"
                   /\ UNCHANGED <<recvvars, sendvars, sockvars, queues, umsg, history>>

\* net_connection_delete starts; from here it does not turn back.
BeginDelete == /\ user = "idle"
               /\ umsg = NoMessage
               /\ user' = "delete"
               /\ UNCHANGED <<recvvars, sendvars, sockvars, queues, umsg, history>>

\* net_connection_delete: stop both threads, then release.
DeleteConnection == \/ StopReceiving("delete", "delete_join_recv", "delete_send")
                    \/ JoinReceiver("delete_join_recv", "delete_send")
                    \/ StopSending("delete_send", "delete_join_send", "release")
                    \/ JoinSender("delete_join_send", "release")
                    \/ Release("release", "deleted")

Stop == \/ StopReceiving("idle", "join_recv", "idle")
        \/ StopSending("idle", "join_send", "idle")

Join == JoinReceiver("join_recv", "idle") \/ JoinSender("join_send", "idle")

Next == \/ ReceiveThread \/ SendThread
        \/ StartReceiving("idle", "idle", "idle")
        \/ StartSending("idle", "idle", "idle")
        \/ Stop \/ Join
        \/ umsg = NoMessage /\ Receive("idle", "idle")
        \/ BlockingReceive \/ Receive("receive", "idle")
        \/ umsg # NoMessage /\ Send(umsg, "idle", "idle")
        \/ DeleteMessage \/ BeginDelete \/ DeleteConnection

Spec == Init /\ [][Next]_connvars

\* The scheduler runs both threads and an owner that is inside a stop; the
\* network owes the socket no datagram.
FairSpec == Spec /\ WF_connvars(ReceiverProgress) /\ WF_connvars(SendThread)
                 /\ WF_connvars(Join) /\ WF_connvars(DeleteConnection)
-----------------------------------------------------------------------------
\* While the owner is not inside a stop, a thread runs exactly when its flag
\* is set: no start creates a second receive or send thread beside one that
\* is still running, and no stopped thread is left unjoined.
FlagTracksThread ==
  /\ user \notin {"join_recv", "delete_join_recv"} =>
       (is_receiving <=> receiver # "none")
  /\ user \notin {"join_send", "delete_join_send"} =>
       (is_sending <=> sender # "none")

\* When net_connection_delete frees the socket and the queues, neither thread
\* is left to use them.
DeleteIsLast ==
  user \in {"release", "deleted"} => receiver = "none" /\ sender = "none"

\* net_connection_stop_receiving, net_connection_stop_sending and
\* net_connection_delete return.
StopReturns ==
  user \notin {"idle", "receive", "deleted"} ~> user \in {"idle", "deleted"}
=============================================================================
