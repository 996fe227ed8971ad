----------------------------- MODULE Allocator -----------------------------
(***************************************************************************)
(* What a heap promises its callers: a block that malloc returns shares no *)
(* unit with a block that is still held, and a block is held until it is   *)
(* given back.  Memory is counted in units of 16 bytes.                    *)
(***************************************************************************)
EXTENDS Naturals

VARIABLE held     \* the blocks handed out and not given back

Units(b) == b.at..(b.at + b.units - 1)

Apart(blocks) ==
  \A b, c \in blocks : b # c => Units(b) \intersect Units(c) = {}

AllocatorInit == Apart(held)

\* malloc: some block of at least two units (a header and some data) that
\* touches none of the blocks held.
Grant ==
  \E b \in held' \ held :
    /\ b.units >= 2
    /\ \A c \in held : Units(b) \intersect Units(c) = {}
    /\ held' = held \union {b}

\* free
Release == \E b \in held : held' = held \ {b}

AllocatorSpec == AllocatorInit /\ [][Grant \/ Release]_held

=============================================================================
