------------------------------ MODULE Transfer ------------------------------
(***************************************************************************)
(* src/server/journal_transfer.c: the journal thread of the server serves  *)
(* the journal over a Unix stream socket (journal_transfer_run_receiver),  *)
(* and processes of journal_utility save it (journal_transfer_rcv_and_     *)
(* write_file), each to a file of its own.                                 *)
(*                                                                         *)
(* The thread listens anew for each transfer.  It closes the listening     *)
(* socket after accept, which resets the connections still in the backlog, *)
(* and it never reads the trigger.  It calls send once.  send blocks while *)
(* the socket buffer is full; with the peer closed, or at an error, it     *)
(* returns what was sent so far.  If that is nothing it returns -1, and    *)
(* with the peer closed SIGPIPE ends the process.                          *)
(***************************************************************************)
EXTENDS Journal, Sequences

CONSTANTS
  Thread,         \* the actor that runs journal_receiver_job
  Utilities,      \* processes of journal_utility
  NoUtility,
  Backlog,        \* backlog of listen
  SocketBuffer,   \* bytes a stream socket holds
  TransferFaults  \* what may fail: "listen" (or socket, bind), "accept",
                  \* "malloc", "connect" (or socket), "send", "file" (fopen,
                  \* fwrite and fclose)

ASSUME TransferAssumption ==
  /\ Thread \in Actors
  /\ NoUtility \notin Utilities
  /\ Backlog \in Nat
  /\ SocketBuffer \in Nat \ {0}
  /\ TransferFaults \subseteq {"listen", "accept", "malloc", "connect", "send", "file"}

VARIABLES
  thread,           \* where the journal thread is
  listening,        \* there is a listening socket at socket_path
  backlog,          \* the utilities whose connection is not accepted yet
  client_sockfd,    \* the utility the thread serves
  conn,             \* conn[u]: the server's end of the connection of u; to u
                    \* "closed" and "cut" (inside the journal) look the same
  journal_content,  \* journal_content[u]: what journal_read returned for u
  bytes_sent,       \* of the journal_content being sent
  stream,           \* stream[u]: bytes sent to u and not received yet
  util, file,       \* util[u]: where u is; file[u]: its output file
  unflushed         \* unflushed[u]: bytes u's stdio has taken for the file; when
                    \* they leave its buffer before fclose nobody can see

threadvars == <<thread, client_sockfd, journal_content, bytes_sent>>
sockets == <<listening, backlog, conn, stream>>
utilvars == <<util, file, unflushed>>
transfervars == <<threadvars, sockets, utilvars>>

\* The file of an earlier run is there; the thread does not exist yet.
TransferInit == /\ thread = "none"
                /\ listening = FALSE
                /\ backlog = <<>>
                /\ client_sockfd = NoUtility
                /\ conn = [u \in Utilities |-> "none"]
                /\ journal_content = [u \in Utilities |-> <<>>]
                /\ bytes_sent = 0
                /\ stream = [u \in Utilities |-> <<>>]
                /\ util = [u \in Utilities |-> "start"]
                /\ file = [u \in Utilities |-> <<Blank>>]
                /\ unflushed = [u \in Utilities |-> <<>>]

\* The utilities of a set find their connection closed after a failure.
Reset(us) == conn' = [u \in Utilities |-> IF u \in us THEN "reset" ELSE conn[u]]

Waiting == {backlog[i] : i \in DOMAIN backlog}

\* close of the listening socket
CloseListening == /\ listening' = FALSE
                  /\ backlog' = <<>>
                  /\ Reset(Waiting)
-----------------------------------------------------------------------------
(* journal_transfer_run_receiver *)

\* socket, unlink, bind and listen; a failure ends the thread.  When bind
\* fails the socket is left open, but nobody listens on it.
Listen == /\ thread = "socket"
          /\ \/ thread' = "accept" /\ listening' = TRUE
             \/ "listen" \in TransferFaults /\ thread' = "ended" /\ UNCHANGED listening
          /\ UNCHANGED <<vars, client_sockfd, journal_content, bytes_sent,
                         backlog, conn, stream, utilvars>>

Accept == /\ thread = "accept"
          /\ backlog # <<>>
          /\ client_sockfd' = Head(backlog)
          /\ backlog' = Tail(backlog)
          /\ thread' = "accepted"
          /\ UNCHANGED <<vars, journal_content, bytes_sent, listening, conn,
                         stream, utilvars>>

AcceptFails == /\ "accept" \in TransferFaults
               /\ thread = "accept"
               /\ CloseListening
               /\ thread' = "ended"
               /\ UNCHANGED <<vars, client_sockfd, journal_content, bytes_sent,
                              stream, utilvars>>

\* close(sockfd) after accept
CloseSocket == /\ thread = "accepted"
               /\ CloseListening
               /\ thread' = "malloc"
               /\ UNCHANGED <<vars, client_sockfd, journal_content, bytes_sent,
                              stream, utilvars>>

\* An error after accept closes the client's socket and ends the thread.
Abandon == /\ Reset({client_sockfd})
           /\ thread' = "ended"
           /\ client_sockfd' = NoUtility

\* Slip: a failed malloc returns without closing the client's socket.
AllocateLeaks ==
  /\ thread = "malloc"
  /\ \/ /\ thread' = "read"
        /\ CallRead(Thread)
        /\ UNCHANGED <<client_sockfd, conn>>
     \/ "malloc" \in TransferFaults /\ thread' = "ended" /\ client_sockfd' = NoUtility
        /\ UNCHANGED <<conn, vars>>
  /\ UNCHANGED <<journal_content, bytes_sent, listening, backlog, stream, utilvars>>

\* malloc, then the call of journal_read
Allocate ==
  /\ thread = "malloc"
  /\ \/ /\ thread' = "read"
        /\ CallRead(Thread)
        /\ UNCHANGED <<client_sockfd, conn>>
     \/ "malloc" \in TransferFaults /\ Abandon /\ UNCHANGED vars
  /\ UNCHANGED <<journal_content, bytes_sent, listening, backlog, stream, utilvars>>

\* The bytes journal_read has put into the buffer.
Content == [k \in 1 .. local[Thread] - HeaderSize |-> out[Thread][k - 1]]

\* journal_read: inside it, back with the content, or back with an error.
ReadJournal ==
  /\ thread = "read"
  /\ \/ /\ ReadLock(Thread) \/ ReadCopy(Thread) \/ ReadDone(Thread)
        /\ pc'[Thread] # "idle"
        /\ UNCHANGED <<thread, client_sockfd, conn, journal_content>>
     \/ /\ Return(Thread)
        /\ thread' = "send"
        /\ journal_content' = [journal_content EXCEPT ![client_sockfd] = Content]
        /\ UNCHANGED <<client_sockfd, conn>>
     \/ /\ ReadLock(Thread) \/ LockFails(Thread) \/ UnlockFails(Thread)
        /\ pc'[Thread] = "idle"
        /\ Abandon
        /\ UNCHANGED journal_content
  /\ UNCHANGED <<bytes_sent, listening, backlog, stream, utilvars>>

\* The utility has not closed its end.
PeerOpen == util[client_sockfd] \in {"trigger", "open", "recv"}

\* send moves bytes as the socket buffer has room.
SendByte ==
  /\ thread = "send"
  /\ PeerOpen
  /\ bytes_sent < Len(journal_content[client_sockfd])
  /\ Len(stream[client_sockfd]) < SocketBuffer
  /\ stream' = [stream EXCEPT ![client_sockfd] =
                  Append(@, journal_content[client_sockfd][bytes_sent + 1])]
  /\ bytes_sent' = bytes_sent + 1
  /\ UNCHANGED <<vars, thread, client_sockfd, journal_content, listening,
                 backlog, conn, utilvars>>

\* All that journal_read returned has been sent.
AllSent == bytes_sent = Len(journal_content[client_sockfd])

\* send returns: everything is sent, or it stops after a part because the peer
\* has closed or because of an error.  Either way the socket is closed and
\* run_receiver is called again; the rest is not sent.
SendReturns ==
  /\ thread = "send"
  /\ \/ AllSent /\ (bytes_sent > 0 \/ PeerOpen)
     \/ ~AllSent /\ bytes_sent > 0 /\ (~PeerOpen \/ "send" \in TransferFaults)
  /\ conn' = [conn EXCEPT ![client_sockfd] = IF AllSent THEN "closed" ELSE "cut"]
  /\ thread' = "socket"
  /\ client_sockfd' = NoUtility
  /\ bytes_sent' = 0
  /\ UNCHANGED <<vars, journal_content, listening, backlog, stream, utilvars>>

\* send returns -1: it has failed before the first byte.
SendFails == /\ "send" \in TransferFaults
             /\ thread = "send"
             /\ bytes_sent = 0
             /\ Abandon
             /\ UNCHANGED <<vars, journal_content, bytes_sent, listening, backlog,
                            stream, utilvars>>

\* SIGPIPE: the peer closed before anything was sent.
BrokenPipe == thread = "send" /\ bytes_sent = 0 /\ ~PeerOpen

\* The end of the server process closes its sockets and takes the thread along.
ProcessEnds == /\ thread' = "gone"
               /\ client_sockfd' = NoUtility
               /\ bytes_sent' = 0
               /\ listening' = FALSE
               /\ backlog' = <<>>
               /\ Reset({u \in Utilities : conn[u] = "open"})
               /\ UNCHANGED <<vars, journal_content, stream, utilvars>>

Receiver == \/ Listen \/ Accept \/ AcceptFails \/ CloseSocket \/ Allocate
            \/ SendByte \/ SendReturns \/ SendFails
-----------------------------------------------------------------------------
(* journal_transfer_rcv_and_write_file *)

\* Slip: the backlog has no limit.
ConnectUnbounded(u) ==
  /\ util[u] = "start"
  /\ \/ /\ listening
        /\ backlog' = Append(backlog, u)
        /\ conn' = [conn EXCEPT ![u] = "open"]
        /\ util' = [util EXCEPT ![u] = "trigger"]
     \/ /\ ~listening \/ "connect" \in TransferFaults
        /\ util' = [util EXCEPT ![u] = "failed"]
        /\ UNCHANGED <<backlog, conn>>
  /\ UNCHANGED <<vars, threadvars, listening, stream, file, unflushed>>

\* connect is refused where nobody listens and waits for room in the backlog.
Connect(u) ==
  /\ util[u] = "start"
  /\ \/ /\ listening
        /\ Len(backlog) <= Backlog
        /\ backlog' = Append(backlog, u)
        /\ conn' = [conn EXCEPT ![u] = "open"]
        /\ util' = [util EXCEPT ![u] = "trigger"]
     \/ /\ ~listening \/ "connect" \in TransferFaults
        /\ util' = [util EXCEPT ![u] = "failed"]
        /\ UNCHANGED <<backlog, conn>>
  /\ UNCHANGED <<vars, threadvars, listening, stream, file, unflushed>>

\* send of GET_JOURNAL; SIGPIPE if the server has closed already
SendTrigger(u) ==
  /\ util[u] = "trigger"
  /\ \E next \in {"open", "killed", "failed"} :
       /\ next = "open" => conn[u] = "open"
       /\ next = "killed" => conn[u] # "open"
       /\ next = "failed" => "send" \in TransferFaults
       /\ util' = [util EXCEPT ![u] = next]
  /\ UNCHANGED <<vars, threadvars, sockets, file, unflushed>>

\* fopen with "wb" truncates the file.
OpenFile(u) ==
  /\ util[u] = "open"
  /\ \/ util' = [util EXCEPT ![u] = "recv"] /\ file' = [file EXCEPT ![u] = <<>>]
     \/ /\ "file" \in TransferFaults
        /\ util' = [util EXCEPT ![u] = "failed"]
        /\ UNCHANGED file
  /\ UNCHANGED <<vars, threadvars, sockets, unflushed>>

\* Slip: each buffer that was received is written to the start of the file.
ReceiveBytesOver(u) ==
  /\ util[u] = "recv"
  /\ stream[u] # <<>>
  /\ stream' = [stream EXCEPT ![u] = <<>>]
  /\ unflushed' = [unflushed EXCEPT ![u] = stream[u]]
  /\ UNCHANGED <<vars, threadvars, listening, backlog, conn, util, file>>

\* Slip: the result of fwrite is not compared with bytes_received.
ReceiveBytesUnchecked(u) ==
  /\ util[u] = "recv"
  /\ stream[u] # <<>>
  /\ stream' = [stream EXCEPT ![u] = <<>>]
  /\ \/ unflushed' = [unflushed EXCEPT ![u] = @ \o stream[u]]
     \/ "file" \in TransferFaults /\ UNCHANGED unflushed
  /\ UNCHANGED <<vars, threadvars, listening, backlog, conn, util, file>>

\* recv returns what has come, and fwrite takes it; a short fwrite ends the
\* transfer with an error (how much is then in the file is left out).
ReceiveBytes(u) ==
  /\ util[u] = "recv"
  /\ stream[u] # <<>>
  /\ stream' = [stream EXCEPT ![u] = <<>>]
  /\ \/ unflushed' = [unflushed EXCEPT ![u] = @ \o stream[u]] /\ UNCHANGED util
     \/ /\ "file" \in TransferFaults
        /\ util' = [util EXCEPT ![u] = "failed"]
        /\ unflushed' = [unflushed EXCEPT ![u] = <<>>]
  /\ UNCHANGED <<vars, threadvars, listening, backlog, conn, file>>

\* recv returns 0 or -1.  fclose writes the buffer, or a part of it if it
\* fails, which goes unnoticed; the transfer succeeded if any byte came.
ReceiveEnd(u) ==
  /\ util[u] = "recv"
  /\ stream[u] = <<>>
  /\ conn[u] # "open"
  /\ \E k \in 0 .. Len(unflushed[u]) :
       /\ k = Len(unflushed[u]) \/ "file" \in TransferFaults
       /\ file' = [file EXCEPT ![u] = SubSeq(unflushed[u], 1, k)]
       /\ unflushed' = [unflushed EXCEPT ![u] = SubSeq(@, k + 1, Len(@))]
  /\ util' = [util EXCEPT ![u] = IF unflushed[u] = <<>> THEN "failed" ELSE "ok"]
  /\ UNCHANGED <<vars, threadvars, sockets>>

Utility(u) == \/ Connect(u) \/ SendTrigger(u) \/ OpenFile(u)
              \/ ReceiveBytes(u) \/ ReceiveEnd(u)
=============================================================================
