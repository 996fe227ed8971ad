-------------------------------- MODULE Heap --------------------------------
(***************************************************************************)
(* The kernel heap (src/memory/memory.c): a chain of blocks, each behind a *)
(* header with its state and size, ended by a header that is zero.         *)
(*                                                                         *)
(* Memory is counted in units of 16 bytes.  The heap starts 8 bytes before *)
(* a unit boundary and malloc rounds a request to 16n - 8 bytes, so every  *)
(* block, header included, is a whole number of units: a request of s      *)
(* bytes (s > 0) takes s/16, rounded up, plus one.  A block of u units has *)
(* the size field 16u - 8 in the code and u here.  What lies where a header*)
(* may be is hdr: real headers, and the data between them, which can look  *)
(* like anything.                                                          *)
(***************************************************************************)
EXTENDS Integers, FiniteSetsExt

CONSTANTS
  HeapUnits,   \* heap_end, counted from heap
  Requests,    \* the sizes malloc is called with, in units
  Clients,     \* the processes and interrupt handlers that call it
  Garbage      \* what data may look like when it is read as a header

HeaderStates == {"none", "free", "used", "other"}    \* other: state > 3
Headers == [state : HeaderStates, size : Nat]

ASSUME HeapUnitsNat == HeapUnits \in Nat /\ HeapUnits >= 2
ASSUME RequestsFit == Requests \subseteq 2..HeapUnits
ASSUME GarbageHeaders == Garbage # {} /\ Garbage \subseteq Headers

VARIABLES
  hdr,           \* the word pair at each place a header may be
  given,         \* the blocks callers hold, as they know them
  used_memory,   \* in units, from what mmap_parse sets
  pending,       \* the block a caller's malloc has yet to add to used_memory
  error          \* "none" or "MEMORY_CORRUPTION"

vars == <<hdr, given, used_memory, pending, error>>

\* malloc lets a block start at heap_end and be as long as the heap, and clears
\* two headers behind it; nothing is known of the memory behind heap_end, which
\* is taken to keep what is written to it.
Slots == 0..(2 * HeapUnits + 1)

None == [state |-> "none", size |-> 0]
Free(u) == [state |-> "free", size |-> u]
Used(u) == [state |-> "used", size |-> u]

\* memory_init: the chain is empty but for the first block, the 16 bytes of the
\* identifier; the rest of memory holds what the last boot left there.
Init ==
  /\ \E g \in Garbage :
       hdr = [a \in Slots |-> CASE a = 0 -> Used(2) [] a \in {2, 3} -> None [] OTHER -> g]
  /\ given = {[at |-> 0, units |-> 2]}
  /\ used_memory = 2
  /\ pending = [c \in Clients |-> {}]
  /\ error = "none"

-----------------------------------------------------------------------------
(***************************************************************************)
(* malloc's walk.  Position k of the walk is the header it reads after k   *)
(* steps; a block is at least a unit long, so it leaves the heap by step   *)
(* HeapUnits + 1.                                                          *)
(***************************************************************************)
Steps == 0..(HeapUnits + 1)

IsBlock(h) == h.state \in {"free", "used"}

Walk ==
  LET w[k \in Steps] ==
        IF k = 0 THEN 0
        ELSE LET a == w[k - 1]
             IN  IF a <= HeapUnits /\ IsBlock(hdr[a]) THEN a + hdr[a].size ELSE a
  IN  w

IsFree(k) == Walk[k] <= HeapUnits /\ hdr[Walk[k]].state = "free"
NextAt(k) == Walk[k] + hdr[Walk[k]].size

\* A block in use does not reset consecutive_start.
FaultyRunStart(k) == CHOOSE j \in 0..k : IsFree(j) /\ \A i \in 0..(j - 1) : ~IsFree(i)

\* consecutive_start: where the run of free blocks that ends at step k began.
RunStart(k) ==
  CHOOSE j \in 0..k : /\ \A i \in j..k : IsFree(i)
                      /\ j = 0 \/ ~IsFree(j - 1)

\* The checks made at step k, in the order of the loop's body.
Corrupt(k) ==
  k > 0 /\ (Walk[k] > HeapUnits \/ hdr[Walk[k]].state = "other")
AtEnd(k) == ~IsBlock(hdr[Walk[k]])
Fits(k, n) == IsFree(k) /\ hdr[Walk[k]].size >= n
IsLast(k) == IsFree(k) /\ hdr[NextAt(k)].state = "none"
RunFits(k, n) == IsFree(k) /\ NextAt(k) - Walk[RunStart(k)] >= n

StopsAt(k, n) == Corrupt(k) \/ AtEnd(k) \/ Fits(k, n) \/ IsLast(k) \/ RunFits(k, n)

-----------------------------------------------------------------------------
\* split forgets to subtract what it keeps from the size of what it cuts off.
FaultyTake(a, u, n) ==
  hdr' = [x \in Slots |->
            CASE x = a -> Used(IF u > n THEN n ELSE u)
              [] x = a + n /\ u > n ->
                   IF hdr[a + u].state = "none" THEN None ELSE Free(u)
              [] OTHER -> hdr[x]]

\* split and its destroy: n of the u units from a are used, the rest becomes a
\* free block, or the end of the chain if the chain ended behind it.
Take(a, u, n) ==
  hdr' = [x \in Slots |->
            CASE x = a -> Used(IF u > n THEN n ELSE u)
              [] x = a + n /\ u > n ->
                   IF hdr[a + u].state = "none" THEN None ELSE Free(u - n)
              [] OTHER -> hdr[x]]

\* The 32 bytes are not cleared.
FaultyGrow(a, n) == hdr' = [hdr EXCEPT ![a] = Used(n)]

\* The chain grows by a block at a; the 32 bytes behind it are cleared.
Grow(a, n) ==
  hdr' = [x \in Slots |-> CASE x = a -> Used(n)
                            [] x \in {a + n, a + n + 1} -> None
                            [] OTHER -> hdr[x]]

\* A block taken from a free one is counted once interrupts are restored, and
\* only then handed to the caller.
Hand(c, a) ==
  LET b == [at |-> a, units |-> hdr'[a].size] IN
  /\ given' = given \union {b}
  /\ pending' = [pending EXCEPT ![c] = {b}]
  /\ UNCHANGED <<used_memory, error>>

\* malloc, interrupts disabled.  (A request for nothing, or for more than the
\* whole heap, returns NULL and changes nothing.)  The test against heap_end
\* that let the request in did not know where the chain ends.
Malloc(c, n) ==
  /\ error = "none" /\ pending[c] = {}
  /\ \E k \in Steps :
       /\ StopsAt(k, n) /\ \A j \in 0..(k - 1) : ~StopsAt(j, n)
       /\ \/ /\ Corrupt(k)
             /\ error' = "MEMORY_CORRUPTION"
             /\ UNCHANGED <<hdr, given, used_memory, pending>>
          \/ /\ ~Corrupt(k) /\ Fits(k, n)
             /\ Take(Walk[k], hdr[Walk[k]].size, n)
             /\ Hand(c, Walk[k])
          \/ /\ ~Corrupt(k) /\ ~Fits(k, n) /\ (AtEnd(k) \/ IsLast(k))
             /\ Grow(Walk[k], n)
             /\ given' = given \union {[at |-> Walk[k], units |-> n]}
             /\ used_memory' = used_memory + n
             /\ UNCHANGED <<pending, error>>
          \/ /\ ~Corrupt(k) /\ ~Fits(k, n) /\ ~IsLast(k) /\ RunFits(k, n)
             /\ LET s == Walk[RunStart(k)] IN
                /\ Take(s, NextAt(k) - s, n)
                /\ Hand(c, s)

\* A caller that was interrupted does not count its block.
FaultyCountUsed(c) ==
  /\ error = "none" /\ pending[c] # {}
  /\ used_memory' = used_memory
  /\ pending' = [pending EXCEPT ![c] = {}]
  /\ UNCHANGED <<hdr, given, error>>

\* used_memory += current_block->size + 8, after interrupts are restored: other
\* callers may have come between.
CountUsed(c) ==
  /\ error = "none"
  /\ \E b \in pending[c] : used_memory' = used_memory + hdr[b.at].size
  /\ pending' = [pending EXCEPT ![c] = {}]
  /\ UNCHANGED <<hdr, given, error>>

\* The blocks callers really have in hand.
Held == given \ UNION {pending[c] : c \in Clients}

\* free does not give back what it counted, or destroy does not look at the next
\* block.
FaultyReleaseUsed(b) ==
  /\ error = "none" /\ hdr[b.at].state = "used"
  /\ hdr' = [hdr EXCEPT ![b.at] = IF hdr[b.at + @.size].state = "none" THEN None
                                 ELSE Free(@.size)]
  /\ given' = given \ {b}
  /\ UNCHANGED <<used_memory, pending, error>>
FaultyReleaseDestroy(b) ==
  /\ error = "none" /\ hdr[b.at].state = "used"
  /\ hdr' = [hdr EXCEPT ![b.at] = None]
  /\ used_memory' = used_memory - hdr[b.at].size
  /\ given' = given \ {b}
  /\ UNCHANGED <<pending, error>>

\* free of a block its caller holds; destroy makes it the end of the chain if
\* the chain ended behind it.
Release(b) ==
  /\ error = "none" /\ hdr[b.at].state = "used"
  /\ hdr' = [hdr EXCEPT ![b.at] = IF hdr[b.at + @.size].state = "none" THEN None
                                 ELSE Free(@.size)]
  /\ used_memory' = used_memory - hdr[b.at].size
  /\ given' = given \ {b}
  /\ UNCHANGED <<pending, error>>

\* The holder of a block fills its data.
Write(b, g) ==
  /\ error = "none"
  /\ hdr' = [x \in Slots |-> IF x \in (b.at + 1)..(b.at + b.units - 1) THEN g ELSE hdr[x]]
  /\ UNCHANGED <<given, used_memory, pending, error>>

\* The identifier at the start of the heap is never freed.
Next ==
  \/ \E c \in Clients, n \in Requests : Malloc(c, n)
  \/ \E c \in Clients : CountUsed(c)
  \/ \E b \in Held : b.at # 0 /\ Release(b)
  \/ \E b \in Held, g \in Garbage : Write(b, g)

Spec == Init /\ [][Next]_vars

-----------------------------------------------------------------------------
TypeOK ==
  /\ hdr \in [Slots -> Headers]
  /\ \A b \in given : b.at \in 0..HeapUnits /\ b.units \in 2..HeapUnits
  /\ used_memory \in Nat
  /\ pending \in [Clients -> SUBSET given]
  /\ error \in {"none", "MEMORY_CORRUPTION"}

\* The places the walk visits.
Visited == {Walk[k] : k \in Steps}

\* The blocks in use that malloc's walk finds are exactly the blocks callers
\* hold, with their sizes, however blocks were split, merged and destroyed
\* (malloc, free, split, destroy); and the walk ends in a zero header, never in
\* memory left over from the last boot or from a block's former data ("prevent us
\* from getting confused by left over memory").
ChainIsHeld ==
  /\ given = {[at |-> a, units |-> hdr[a].size] :
                a \in {x \in Visited : x <= HeapUnits /\ hdr[x].state = "used"}}
  /\ hdr[Walk[HeapUnits + 1]].state = "none"

\* What one caller does never changes what another one keeps in its block
\* (malloc's clearing, split, free).
DataKept ==
  [][\A b \in given \intersect given' :
       \/ \A x \in (b.at + 1)..(b.at + b.units - 1) : hdr'[x] = hdr[x]
       \/ \E g \in Garbage : Write(b, g)]_vars

\* used_memory counts the blocks in use, once the callers that were interrupted
\* between interrupts_restore and the addition are counted in.
UsedMemoryExact ==
  used_memory = MapThenSumSet(LAMBDA b : b.units, Held)

\* malloc and free keep an allocator's promise, for the blocks callers hold.
Promise == INSTANCE Allocator WITH held <- given
HeapIsAllocator == Promise!AllocatorSpec

\* "MEMORY_CORRUPTION, // somebody fucked up memory they shouldnt be touching":
\* while every caller keeps to its own blocks, malloc never reports it.
NobodyTouchedIt == error = "none"

=============================================================================
