------------------------------- MODULE Server -------------------------------
(***************************************************************************)
(* main of src/server/server.c with its journal thread and the worker      *)
(* processes it forks.  The parent writes a first entry, forks, starts the *)
(* thread and waits for any worker to end; then it deletes the journal and *)
(* exits.  The workers are here what they are to the journal: processes    *)
(* that call journal_write and may end at any moment.                      *)
(*                                                                         *)
(* The actors of Journal are Main and Thread, in one process, and the      *)
(* workers, in a process each.  mapped tells whether the parent still maps *)
(* the journal.                                                            *)
(***************************************************************************)
EXTENDS Transfer

CONSTANTS
  Main,
  ServerFaults  \* what may fail: "create" (journal_create), "fork", "pthread"
                \* (pthread_create), "munmap"

ASSUME ServerAssumption ==
  /\ Main \in Actors \ {Thread}
  /\ ProcessOf[Main] = ProcessOf[Thread]
  /\ ServerFaults \subseteq {"create", "fork", "pthread", "munmap"}

VARIABLES main, worker, mapped

mainvars == <<main, worker, mapped>>
servervars == <<vars, transfervars, mainvars>>

Workers == Actors \ {Main, Thread}

ServerInit == /\ Init
              /\ TransferInit
              /\ main = "create"
              /\ worker = [w \in Workers |-> "unborn"]
              /\ mapped = FALSE

\* The process exits, or a signal ends it.
Exit == main' = "ended" /\ ProcessEnds

CreateJournal ==
  /\ main = "create"
  /\ \/ main' = "hello" /\ mapped' = TRUE /\ UNCHANGED <<vars, transfervars>>
     \/ "create" \in ServerFaults /\ Exit /\ UNCHANGED mapped
  /\ UNCHANGED worker

\* The steps of a journal_write that was called.
WriteStep(a) == \/ WriteLock(a) \/ WriteCopy(a) \/ WriteSize(a) \/ Return(a)
                \/ LockFails(a) \/ UnlockFails(a)

\* journal_write of the first entry; its result is ignored.
WriteHello ==
  /\ main = "hello"
  /\ (writes[Main] = 0 /\ CallWrite(Main)) \/ WriteStep(Main)
  /\ main' = IF pc'[Main] = "idle" THEN "fork" ELSE "hello"
  /\ UNCHANGED <<transfervars, worker, mapped>>

\* The first journal_write could not unlock the mutex of the parent.
LeftLocked == mutex[ProcessOf[Main]] = Main

Unborn == {w \in Workers : worker[w] = "unborn"}

\* Slip: the workers are forked before the first entry is written.
ForkFirst ==
  /\ main \in {"hello", "fork"}
  /\ \/ \E w \in Unborn : worker' = [worker EXCEPT ![w] = "running"]
        /\ UNCHANGED <<vars, transfervars, main>>
     \/ /\ Unborn # {} /\ "fork" \in ServerFaults
        /\ Exit
        /\ UNCHANGED worker
     \/ /\ main = "fork" /\ Unborn = {}
        /\ main' = "thread"
        /\ UNCHANGED <<vars, transfervars, worker>>
  /\ UNCHANGED mapped

\* safe_process_create for each worker; the parent exits if a fork fails.
Fork ==
  /\ main = "fork"
  /\ \/ \E w \in Unborn : worker' = [worker EXCEPT ![w] = "running"]
        /\ UNCHANGED <<vars, transfervars, main>>
     \/ /\ Unborn # {} /\ "fork" \in ServerFaults
        /\ Exit
        /\ UNCHANGED worker
     \/ /\ Unborn = {}
        /\ main' = "thread"
        /\ UNCHANGED <<vars, transfervars, worker>>
  /\ UNCHANGED mapped

\* pthread_create of journal_receiver_job; the process exits if it fails.
StartThread ==
  /\ main = "thread"
  /\ \/ /\ main' = "wait"
        /\ thread' = "socket"
        /\ UNCHANGED <<vars, client_sockfd, journal_content, bytes_sent,
                       sockets, utilvars>>
     \/ "pthread" \in ServerFaults /\ Exit
  /\ UNCHANGED <<worker, mapped>>

\* wait(NULL) returns when one worker has ended.
Wait == /\ main = "wait"
        /\ \E w \in Workers : worker[w] = "ended"
        /\ main' = "delete"
        /\ UNCHANGED <<vars, transfervars, worker, mapped>>

\* journal_delete, whose munmap may fail
DeleteJournal == /\ main = "delete"
                 /\ main' = "return"
                 /\ mapped' \in {FALSE} \cup (IF "munmap" \in ServerFaults THEN {TRUE} ELSE {})
                 /\ UNCHANGED <<vars, transfervars, worker>>

ReturnFromMain == main = "return" /\ Exit /\ UNCHANGED <<worker, mapped>>

MainThread == \/ CreateJournal \/ WriteHello \/ Fork \/ StartThread
              \/ Wait \/ DeleteJournal \/ ReturnFromMain

\* The journal thread.  Once the journal is deleted, journal_read can only
\* return: locking the destroyed mutex fails, or its memcpy was complete.
JournalThread ==
  /\ Receiver \/ (ReadJournal /\ (mapped \/ pc'[Thread] = "idle"))
  /\ UNCHANGED mainvars

\* SIGPIPE, or a journal_read that uses the journal main has deleted, ends
\* the process.
ThreadKills ==
  /\ BrokenPipe \/ (thread = "read" /\ ~mapped)
  /\ Exit
  /\ UNCHANGED <<worker, mapped>>

\* A worker handles requests, each with one journal_write.  fork copies the
\* mutex: if main could not unlock it, no worker can lock its copy.
WorkerWrites(w) == /\ worker[w] = "running"
                   /\ CallWrite(w) \/ LockFails(w) \/ (~LeftLocked /\ WriteStep(w))
                   /\ UNCHANGED <<transfervars, mainvars>>

\* A worker exits or is killed, also inside journal_write.
WorkerEnds(w) == /\ worker[w] = "running"
                 /\ worker' = [worker EXCEPT ![w] = "ended"]
                 /\ UNCHANGED <<vars, transfervars, main, mapped>>

ServerNext ==
  \/ MainThread \/ JournalThread \/ ThreadKills
  \/ \E w \in Workers : WorkerWrites(w) \/ WorkerEnds(w)
  \/ \E u \in Utilities : Utility(u) /\ UNCHANGED mainvars

ServerSpec == ServerInit /\ [][ServerNext]_servervars

\* The scheduler runs the journal thread and the utilities.
ServerFairSpec == /\ ServerSpec
                  /\ WF_servervars(JournalThread \/ ThreadKills)
                  /\ \A u \in Utilities : WF_servervars(Utility(u) /\ UNCHANGED mainvars)
-----------------------------------------------------------------------------
Connections == {"none", "open", "closed", "cut", "reset"}
Done == {"ok", "failed", "killed"}

\* Every variable has its type.
ServerTypeOK ==
  /\ TypeOK
  /\ thread \in {"none", "socket", "accept", "accepted", "malloc", "read", "send",
                 "ended", "gone"}
  /\ listening \in BOOLEAN
  /\ backlog \in Seq(Utilities) /\ Len(backlog) <= Backlog + 1
  /\ client_sockfd \in Utilities \cup {NoUtility}
  /\ conn \in [Utilities -> Connections]
  /\ journal_content \in [Utilities -> Seq(Bytes)]
  /\ bytes_sent \in Nat
  /\ stream \in [Utilities -> Seq(Bytes)]
  /\ util \in [Utilities -> Done \cup {"start", "trigger", "open", "recv"}]
  /\ file \in [Utilities -> Seq(Bytes)]
  /\ unflushed \in [Utilities -> Seq(Bytes)]
  /\ main \in {"create", "hello", "fork", "thread", "wait", "delete", "return", "ended"}
  /\ worker \in [Workers -> {"unborn", "running", "ended"}]
  /\ mapped \in BOOLEAN

\* Where the first entry lies, once main has appended it.
Hello == {e \in entries : e.by = Main}

\* The first entry is there to stay: main writes it before there are other
\* processes, so none of them reads a cur_size below its end.
HelloKept == \A e \in Hello : Intact(e) /\ e.at = HeaderSize

\* s begins with the first k bytes of t, k being its length.
PrefixOf(s, t) == /\ Len(s) <= Len(t)
                  /\ \A i \in 1 .. Len(s) : s[i] = t[i]

\* The three ways in which a part of the journal is lost unnoticed: send
\* stopped early, the server ended during the transfer, or fclose failed.
Truncated(u) == \/ conn[u] = "cut"
                \/ conn[u] = "reset" /\ main = "ended"
                \/ unflushed[u] # <<>>

\* The file of a utility that reports success comes from one journal_read: it
\* is all that the call returned, or a first part of it if the transfer was
\* truncated.  It has no gap, nothing twice, nothing of another read and
\* nothing of the file that was there before, and no other failure of
\* journal_transfer.c is reported as success.
SavedFromOneRead ==
  \A u \in Utilities : util[u] = "ok" =>
    /\ PrefixOf(file[u], journal_content[u])
    /\ file[u] = journal_content[u] \/ Truncated(u)

\* What a utility has saved begins with the first entry, as far as it goes,
\* although other processes write while it is read.
SavedBeginsWithHello ==
  \A u \in Utilities, e \in Hello : util[u] = "ok" =>
    \A k \in 1 .. e.len : k <= Len(file[u]) => file[u][k] = Byte(Main, 1, k - 1)

\* A utility that is connected comes to an end, unless the first journal_write
\* left the mutex locked, so that the journal thread waits in journal_read for
\* ever.  Every error after listen closes the sockets the thread has; a failed
\* bind leaves one open, to which nobody can connect.
UtilityReturns ==
  \A u \in Utilities : (util[u] # "start" /\ ~LeftLocked) ~> util[u] \in Done
=============================================================================
