---------------------------- MODULE NetConnection ----------------------------
(***************************************************************************)
(* src/network/net_connection.c and socket_udp.c: a UDP socket, an         *)
(* incoming and an outgoing message queue, and the receive and the send    *)
(* thread.  The two threads share the socket: recvfrom stores the sender   *)
(* in incoming_addr, the send thread stores the address to reply to in the *)
(* same field and sendto reads it from there, with no lock.                *)
(*                                                                         *)
(* The thread that owns the connection is user; ConnectionUser and Worker  *)
(* say what it does.  The operations it calls are written with the labels  *)
(* they start from and lead to.  The queues are used through the atomic    *)
(* operations MessageQueue is shown to implement.                          *)
(*                                                                         *)
(* The network may lose, repeat and reorder datagrams, so any datagram of  *)
(* Datagrams may arrive next.  id (the number of the arrival), from (who   *)
(* sent it) and kind (what it was) are not fields of message_header_t;     *)
(* they let the properties follow a message.                               *)
(***************************************************************************)
EXTENDS QueueOps, Integers

CONSTANTS
  Clients,         \* socket addresses of the peers
  Kinds,           \* kinds of datagrams that may arrive
  NoAddr, NoMessage,
  Capacity,        \* of each queue
  ReceiveTimeout,  \* receive_timeout_seconds
  Faults,          \* what may fail: pthread_create ("thread"), malloc, realloc,
                   \* creating a socket or a queue, bind, reading a file,
                   \* snprintf ("format")
  MaxDatagrams     \* bound: the datagrams that arrive

ASSUME NetAssumption == /\ Capacity \in Nat \ {0, 1}
                        /\ ReceiveTimeout \in Nat
                        /\ MaxDatagrams \in Nat
                        /\ Kinds \subseteq {"pid", "empty", "none", "other", "long", "short"}
                        /\ Faults \subseteq {"thread", "malloc", "realloc", "socket",
                                          "queue", "bind", "file", "format"}
                        /\ NoAddr \notin Clients

VARIABLES
  is_receiving, is_sending,
  incoming_addr,    \* socket->incoming_addr
  incoming_buffer,  \* the kind of datagram whose bytes are in the buffer
  inq, outq,        \* the message queues
  receiver, sender, \* where the receive and the send thread are
  rmsg, smsg,       \* received_message and sending_message
  user, umsg,       \* where the owner of the connection is; the message it has
  arrived,          \* the datagrams recvfrom has returned
  sent,             \* the datagrams sendto was given, in order
  discarded         \* ids of the messages deleted without being sent

recvvars == <<is_receiving, receiver, rmsg>>
sendvars == <<is_sending, sender, smsg>>
sockvars == <<incoming_addr, incoming_buffer>>
queues == <<inq, outq>>
uservars == <<user, umsg>>
history == <<arrived, sent, discarded>>
connvars == <<recvvars, sendvars, sockvars, queues, uservars, history>>

\* net_connection_create on a fresh socket and two fresh queues
ConnInit == /\ is_receiving = FALSE
            /\ is_sending = FALSE
            /\ incoming_addr = NoAddr
            /\ incoming_buffer = "none"
            /\ inq = <<>>
            /\ outq = <<>>
            /\ receiver = "none"
            /\ sender = "none"
            /\ rmsg = NoMessage
            /\ smsg = NoMessage
            /\ umsg = NoMessage
            /\ arrived = 0
            /\ sent = <<>>
            /\ discarded = {}

Ids(s) == {s[i].id : i \in DOMAIN s}

\* The ids an enqueue on s throws away.
DroppedIds(s) == Ids(SubSeq(s, 1, Dropped(s, Capacity)))
-----------------------------------------------------------------------------
(* The receive thread *)

\* Slip: the loop does not test is_receiving.
ReceiveLoopForever ==
  /\ receiver = "loop"
  /\ receiver' = "recv"
  /\ UNCHANGED <<is_receiving, rmsg, sendvars, sockvars, queues, uservars, history>>

\* while (connection->is_receiving)
ReceiveLoop == /\ receiver = "loop"
               /\ receiver' = IF is_receiving THEN "recv" ELSE "done"
               /\ UNCHANGED <<is_receiving, rmsg, sendvars, sockvars, queues, uservars, history>>

\* recvfrom returns a datagram.  One shorter than the header leaves the old
\* bytes in incoming_buffer; recv_len is not looked at.
RecvFrom == /\ receiver = "recv"
            /\ arrived < MaxDatagrams
            /\ \E c \in Clients, k \in Kinds :
                 /\ incoming_addr' = c
                 /\ incoming_buffer' = IF k = "short" THEN incoming_buffer ELSE k
                 /\ rmsg' = [id |-> arrived + 1, from |-> c, kind |-> k]
            /\ arrived' = arrived + 1
            /\ receiver' = "read"
            /\ UNCHANGED <<is_receiving, sendvars, queues, uservars, sent, discarded>>

\* SO_RCVTIMEO expires and recvfrom returns -1; with 0 seconds it never does.
RecvTimeout == /\ receiver = "recv"
               /\ ReceiveTimeout > 0
               /\ receiver' = "loop"
               /\ UNCHANGED <<is_receiving, rmsg, sendvars, sockvars, queues, uservars, history>>

\* Slip: the type is not reset when the length is refused.
TypeOfUnreset(k) == CASE k \in {"pid", "empty", "long"} -> "PID"
                      [] k = "other" -> "OTHER"
                      [] OTHER -> "NONE"

\* The type in the header, with NONE when net_connection_read_data refuses
\* the length.  An "empty" datagram has the header of a PID request and fewer
\* bytes of data than a pid has; nobody tests that.
TypeOf(k) == CASE k \in {"pid", "empty"} -> "PID"
               [] k = "other" -> "OTHER"
               [] OTHER -> "NONE"

\* message_create, net_connection_read_header, owner_addr = incoming_addr,
\* net_connection_read_data
ReadMessage ==
  /\ receiver = "read"
  /\ rmsg' = [id |-> rmsg.id, from |-> rmsg.from, kind |-> rmsg.kind,
              owner |-> incoming_addr, type |-> TypeOf(incoming_buffer),
              toolong |-> incoming_buffer = "long", text |-> "request"]
  /\ receiver' = "add"
  /\ UNCHANGED <<is_receiving, sendvars, sockvars, queues, uservars, history>>

\* message_create returns NULL.
CreateFails ==
  /\ "malloc" \in Faults
  /\ receiver = "read"
  /\ discarded' = discarded \cup {rmsg.id}
  /\ rmsg' = NoMessage
  /\ receiver' = "loop"
  /\ UNCHANGED <<is_receiving, sendvars, sockvars, queues, uservars, arrived, sent>>

\* net_connection_add_to_queue on the incoming queue.  Its mutex and condition
\* variable are taken to work: at an error the function and its caller would
\* both delete the message, and after that nothing can be said.
AddIncoming ==
  /\ receiver = "add"
  /\ inq' = Enq(inq, rmsg, Capacity)
  /\ discarded' = discarded \cup DroppedIds(inq)
  /\ rmsg' = NoMessage
  /\ receiver' = "loop"
  /\ UNCHANGED <<is_receiving, sendvars, sockvars, outq, uservars, arrived, sent>>
-----------------------------------------------------------------------------
(* The send thread *)

\* Slip: the message stays in the queue.
SendLoopPeeks ==
  /\ sender = "loop"
  /\ \/ ~is_sending /\ sender' = "done" /\ UNCHANGED <<outq, smsg>>
     \/ /\ is_sending
        /\ outq # <<>>
        /\ smsg' = Head(outq)
        /\ sender' = "write"
        /\ UNCHANGED outq
  /\ UNCHANGED <<recvvars, is_sending, sockvars, inq, uservars, history>>

\* Slip: an empty queue ends the loop.
SendLoopBreaks ==
  /\ sender = "loop"
  /\ IF is_sending /\ outq # <<>>
     THEN smsg' = Head(outq) /\ outq' = Tail(outq) /\ sender' = "write"
     ELSE sender' = "done" /\ UNCHANGED <<outq, smsg>>
  /\ UNCHANGED <<recvvars, is_sending, sockvars, inq, uservars, history>>

\* while (connection->is_sending): nonblocking dequeue; with nothing to
\* send it sleeps and tests again.
SendLoop ==
  /\ sender = "loop"
  /\ \/ ~is_sending /\ sender' = "done" /\ UNCHANGED <<outq, smsg>>
     \/ /\ is_sending
        /\ outq # <<>>
        /\ smsg' = Head(outq)
        /\ outq' = Tail(outq)
        /\ sender' = "write"
  /\ UNCHANGED <<recvvars, is_sending, sockvars, inq, uservars, history>>

\* net_connection_write_header and net_connection_write_data succeed unless
\* the length is over the buffer.
Writable(m) == ~m.toolong

\* The message is written to outcoming_buffer, or deleted if it cannot be;
\* then socket->incoming_addr = owner_addr.
WriteMessage ==
  /\ sender = "write"
  /\ \/ /\ ~Writable(smsg)
        /\ discarded' = discarded \cup {smsg.id}
        /\ smsg' = NoMessage
        /\ sender' = "loop"
        /\ UNCHANGED incoming_addr
     \/ /\ Writable(smsg)
        /\ incoming_addr' = smsg.owner
        /\ sender' = "send"
        /\ UNCHANGED <<discarded, smsg>>
  /\ UNCHANGED <<recvvars, is_sending, incoming_buffer, queues, uservars, arrived, sent>>

\* udp_socket_send to socket->incoming_addr, then message_delete
SendTo ==
  /\ sender = "send"
  /\ sent' = Append(sent, [to |-> incoming_addr, msg |-> smsg])
  /\ smsg' = NoMessage
  /\ sender' = "loop"
  /\ UNCHANGED <<recvvars, is_sending, sockvars, queues, uservars, arrived, discarded>>

\* What the receive thread does without the network's help.
ReceiverProgress == ReceiveLoop \/ RecvTimeout \/ ReadMessage \/ AddIncoming

ReceiveThread == ReceiverProgress \/ RecvFrom \/ CreateFails
SendThread == SendLoop \/ WriteMessage \/ SendTo
-----------------------------------------------------------------------------
(* The operations of the owner *)

\* Slip: is_receiving is not cleared when pthread_create fails.
StartReceivingKeepsFlag(at, ok, failed) ==
  /\ user = at
  /\ \/ is_receiving /\ user' = ok /\ UNCHANGED <<is_receiving, receiver>>
     \/ ~is_receiving /\ user' = ok /\ is_receiving' = TRUE /\ receiver' = "loop"
     \/ /\ ~is_receiving /\ "thread" \in Faults
        /\ user' = failed /\ is_receiving' = TRUE /\ UNCHANGED receiver
  /\ UNCHANGED <<rmsg, sendvars, sockvars, queues, umsg, history>>

\* net_connection_start_receiving; pthread_create may fail.
StartReceiving(at, ok, failed) ==
  /\ user = at
  /\ \/ is_receiving /\ user' = ok /\ UNCHANGED <<is_receiving, receiver>>
     \/ ~is_receiving /\ user' = ok /\ is_receiving' = TRUE /\ receiver' = "loop"
     \/ /\ ~is_receiving /\ "thread" \in Faults
        /\ user' = failed /\ UNCHANGED <<is_receiving, receiver>>
  /\ UNCHANGED <<rmsg, sendvars, sockvars, queues, umsg, history>>

StartSending(at, ok, failed) ==
  /\ user = at
  /\ \/ is_sending /\ user' = ok /\ UNCHANGED <<is_sending, sender>>
     \/ ~is_sending /\ user' = ok /\ is_sending' = TRUE /\ sender' = "loop"
     \/ /\ ~is_sending /\ "thread" \in Faults
        /\ user' = failed /\ UNCHANGED <<is_sending, sender>>
  /\ UNCHANGED <<recvvars, smsg, sockvars, queues, umsg, history>>

\* net_connection_stop_receiving: clear the flag, then join the thread.
StopReceiving(at, join, next) ==
  /\ user = at
  /\ user' = IF is_receiving THEN join ELSE next
  /\ is_receiving' = FALSE
  /\ UNCHANGED <<receiver, rmsg, sendvars, sockvars, queues, umsg, history>>

JoinReceiver(join, next) ==
  /\ user = join
  /\ receiver = "done"
  /\ receiver' = "none"
  /\ user' = next
  /\ UNCHANGED <<is_receiving, rmsg, sendvars, sockvars, queues, umsg, history>>

\* Slip: the send thread is not joined.
StopSendingUnjoined(at, join, next) ==
  /\ user = at
  /\ user' = next
  /\ is_sending' = FALSE
  /\ UNCHANGED <<recvvars, sender, smsg, sockvars, queues, umsg, history>>

\* net_connection_stop_sending
StopSending(at, join, next) ==
  /\ user = at
  /\ user' = IF is_sending THEN join ELSE next
  /\ is_sending' = FALSE
  /\ UNCHANGED <<recvvars, sender, smsg, sockvars, queues, umsg, history>>

JoinSender(join, next) ==
  /\ user = join
  /\ sender = "done"
  /\ sender' = "none"
  /\ user' = next
  /\ UNCHANGED <<recvvars, is_sending, smsg, sockvars, queues, umsg, history>>

\* Slip: the newest message is taken.
ReceiveNewest(at, next) ==
  /\ user = at
  /\ inq # <<>>
  /\ umsg' = inq[Len(inq)]
  /\ inq' = SubSeq(inq, 1, Len(inq) - 1)
  /\ user' = next
  /\ UNCHANGED <<recvvars, sendvars, sockvars, outq, history>>

\* net_connection_receive_nonblocking finds a message; net_connection_receive
\* waits until it does.
Receive(at, next) ==
  /\ user = at
  /\ inq # <<>>
  /\ umsg' = Head(inq)
  /\ inq' = Tail(inq)
  /\ user' = next
  /\ UNCHANGED <<recvvars, sendvars, sockvars, outq, history>>

\* net_connection_send of the message m
Send(m, at, next) ==
  /\ user = at
  /\ outq' = Enq(outq, m, Capacity)
  /\ discarded' = discarded \cup DroppedIds(outq)
  /\ umsg' = NoMessage
  /\ user' = next
  /\ UNCHANGED <<recvvars, sendvars, sockvars, inq, arrived, sent>>

\* The end of net_connection_delete: the socket and both queues, with the
\* messages in them, are deleted.
Release(at, next) ==
  /\ user = at
  /\ user' = next
  /\ discarded' = discarded \cup Ids(inq) \cup Ids(outq)
  /\ inq' = <<>>
  /\ outq' = <<>>
  /\ UNCHANGED <<recvvars, sendvars, sockvars, umsg, arrived, sent>>
-----------------------------------------------------------------------------
\* What is in a message: what came, or an answer.  A usage that is "over" is
\* above 100 percent.
Texts == {"request", "usage", "over", "not found", "invalid"}

\* A datagram in incoming_buffer, and a message made of it.
Received == [id : 1 .. MaxDatagrams, from : Clients, kind : Kinds]
Message == [id : 1 .. MaxDatagrams, from : Clients, kind : Kinds, owner : Clients,
            type : {"NONE", "PID", "OTHER"}, toolong : BOOLEAN, text : Texts]
Queue == {s \in Seq(Message) : Len(s) < Capacity}

ASSUME NoMessageAssumption == NoMessage \notin Received \cup Message

ConnTypeOK ==
  /\ is_receiving \in BOOLEAN
  /\ is_sending \in BOOLEAN
  /\ incoming_addr \in Clients \cup {NoAddr}
  /\ incoming_buffer \in Kinds \cup {"none"}
  /\ inq \in Queue
  /\ outq \in Queue
  /\ receiver \in {"none", "loop", "recv", "read", "add", "done"}
  /\ sender \in {"none", "loop", "write", "send", "done"}
  /\ rmsg \in Received \cup Message \cup {NoMessage}
  /\ smsg \in Message \cup {NoMessage}
  /\ umsg \in Message \cup {NoMessage}
  /\ arrived \in 0 .. MaxDatagrams
  /\ sent \in Seq([to : Clients, msg : Message])
  /\ discarded \subseteq 1 .. MaxDatagrams
=============================================================================
