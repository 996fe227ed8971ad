------------------------------- MODULE MCHeap -------------------------------
(* Instances of Heap for TLC. *)
EXTENDS Heap

\* Data that reads as a block in use, and would lead the walk astray.
LeftOver == {[state |-> "used", size |-> 2]}
=============================================================================
