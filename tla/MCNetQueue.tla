---------------------------- MODULE MCNetQueue ----------------------------
(* Instances of NetQueue for TLC. *)
EXTENDS NetQueue
=============================================================================
