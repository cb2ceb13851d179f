------------------------------ MODULE MCJournal ------------------------------
(* Small instances of Journal for TLC. *)
EXTENDS Journal

\* The threads of one process, which share a mutex.
OneProcess == [a \in Actors |-> "server"]

\* The deployment of server.c: every worker is a process of its own, and so
\* is the parent, whose thread answers journal_utility.
OwnProcess == [a \in Actors |-> a]
=============================================================================
