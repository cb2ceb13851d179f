------------------------------ MODULE MCServer ------------------------------
(* A small instance of Server for TLC. *)
EXTENDS Server

\* The parent and its thread are one process, each worker is another.
ServerProcesses == [a \in Actors |-> IF a \in {Main, Thread} THEN Main ELSE a]
=============================================================================
