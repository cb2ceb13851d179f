-------------------------- MODULE MCConnectionUser --------------------------
(* Small instances of ConnectionUser for TLC. *)
EXTENDS ConnectionUser
=============================================================================
