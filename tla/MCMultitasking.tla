--------------------------- MODULE MCMultitasking ---------------------------
(* Instances of Multitasking for TLC. *)
EXTENDS Multitasking

\* dispatchd and videod, the two processes a program depends on.
Desktop == <<"dispatchd", "videod">>

\* With the network daemon, as main() starts them.
Networked == <<"dispatchd", "netd", "videod">>

\* With an event listener that never runs (moused, sysrqd).
Listening == <<"dispatchd", "videod", "zombie">>
=============================================================================
