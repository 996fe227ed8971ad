---------------------------- MODULE Heap_proofs ----------------------------
(***************************************************************************)
(* Theorems about module Heap, for a heap of any size, any requests, any   *)
(* callers and anything that may be left over in memory.                   *)
(*                                                                         *)
(* The argument is about the chain: the set of places where the headers    *)
(* that malloc would find begin.  HeapInv says that the places Walk visits *)
(* are such a chain, whose blocks in use are the ones callers hold.        *)
(***************************************************************************)
EXTENDS Heap, FiniteSetTheorems, WellFoundedInduction, TLAPS

-----------------------------------------------------------------------------
(* Induction over a set of naturals, without an operator parameter. *)

LEMMA LeastOfNaturals ==
    ASSUME NEW D \in SUBSET Nat, D # {}
    PROVE  \E m \in D : \A k \in D : m <= k
<1> DEFINE R == OpToRel(<, Nat)
<1>1. \A x, y \in Nat : <<y, x>> \in R <=> y < x
  BY DEF OpToRel
<1>2. IsWellFoundedOn(R, Nat)
  BY NatLessThanWellFounded
<1> HIDE DEF R
<1>3. PICK m \in D : \A k \in D : ~(<<k, m>> \in R)
  BY <1>2, WFMin
<1>4. ASSUME NEW k \in D PROVE m <= k
  <2>1. k \in Nat /\ m \in Nat
    OBVIOUS
  <2>2. ~(k < m)
    BY <1>1, <1>3, <2>1
  <2> QED
    BY <2>1, <2>2
<1> QED
  BY <1>4

\* A set that holds 0 and, with a number below N, the next one, holds 0..N.
LEMMA IntervalInduction ==
    ASSUME NEW N \in Nat, NEW S, 0 \in S, \A k \in 0..(N - 1) : k \in S => k + 1 \in S
    PROVE  \A k \in 0..N : k \in S
<1> DEFINE D == {k \in 0..N : k \notin S}
<1> SUFFICES ASSUME D # {} PROVE FALSE
  OBVIOUS
<1>0. D \in SUBSET Nat
  OBVIOUS
<1>1. PICK m \in D : \A k \in D : m <= k
  BY <1>0, LeastOfNaturals
<1>2. m \in 1..N /\ m \notin S
  BY <1>1
<1>3. m - 1 \in S
  BY <1>1, <1>2
<1> QED
  BY <1>2, <1>3

-----------------------------------------------------------------------------
(* The walk over headers h: Walk is WalkIn(hdr). *)

WalkIn(h) ==
    LET w[k \in Steps] ==
          IF k = 0 THEN 0
          ELSE LET a == w[k - 1]
               IN  IF a <= HeapUnits /\ IsBlock(h[a]) THEN a + h[a].size ELSE a
    IN  w

Onward(h, a) == IF a <= HeapUnits /\ IsBlock(h[a]) THEN a + h[a].size ELSE a

Walks(w, h, N) == w = [k \in 0..N |-> IF k = 0 THEN 0 ELSE Onward(h, w[k - 1])]

LEMMA WalkIsWalkIn == Walk = WalkIn(hdr) /\ Walk' = WalkIn(hdr')
<1>1. Walk = WalkIn(hdr)
  BY DEF Walk, WalkIn
<1>2. Walk' = WalkIn(hdr')
  BY DEF Walk, WalkIn, IsBlock
<1> QED
  BY <1>1, <1>2

\* The recursive definition defines something: a walk exists.
LEMMA WalkExists ==
    ASSUME NEW h, NEW N \in Nat
    PROVE  \E w : Walks(w, h, N)
<1> DEFINE S == {n \in Nat : \E w : Walks(w, h, n)}
<1>1. 0 \in S
  <2> DEFINE w == [k \in 0..0 |-> 0]
  <2>1. w = [k \in 0..0 |-> IF k = 0 THEN 0 ELSE Onward(h, w[k - 1])]
    OBVIOUS
  <2> HIDE DEF w
  <2> QED
    BY <2>1 DEF Walks
<1>2. ASSUME NEW n \in 0..(N - 1), n \in S PROVE n + 1 \in S
  <2>1. PICK w : Walks(w, h, n)
    BY <1>2
  <2>2. /\ \A k \in 0..n : w[k] = IF k = 0 THEN 0 ELSE Onward(h, w[k - 1])
    BY <2>1 DEF Walks
  <2> DEFINE v == [k \in 0..(n + 1) |-> IF k <= n THEN w[k] ELSE Onward(h, w[n])]
  <2>3. ASSUME NEW k \in 0..(n + 1)
        PROVE  v[k] = IF k = 0 THEN 0 ELSE Onward(h, v[k - 1])
    <3>1. CASE k = 0
      BY <3>1, <2>2
    <3>2. CASE k \in 1..n
      <4>1. v[k] = w[k] /\ v[k - 1] = w[k - 1]
        BY <3>2
      <4> QED
        BY <4>1, <3>2, <2>2
    <3>3. CASE k = n + 1
      <4>1. v[k] = Onward(h, w[n]) /\ v[k - 1] = w[n]
        BY <3>3
      <4> QED
        BY <4>1, <3>3
    <3> QED
      BY <3>1, <3>2, <3>3
  <2>4. v = [k \in 0..(n + 1) |-> v[k]]
    OBVIOUS
  <2> HIDE DEF v
  <2>5. Walks(v, h, n + 1)
    BY <2>3, <2>4 DEF Walks
  <2> QED
    BY <2>5
<1> HIDE DEF S
<1>3. N \in S
  BY <1>1, <1>2, IntervalInduction
<1> QED
  BY <1>3 DEF S

LEMMA WalkStep ==
    ASSUME NEW h
    PROVE  /\ WalkIn(h)[0] = 0
           /\ \A k \in 0..HeapUnits : WalkIn(h)[k + 1] = Onward(h, WalkIn(h)[k])
<1>1. HeapUnits + 1 \in Nat
  BY HeapUnitsNat
<1>2. WalkIn(h) = CHOOSE w : Walks(w, h, HeapUnits + 1)
  BY DEF WalkIn, Walks, Steps, Onward
<1>3. Walks(WalkIn(h), h, HeapUnits + 1)
  BY <1>1, <1>2, WalkExists
<1> DEFINE w == WalkIn(h)
<1> HIDE DEF w
<1>4. w = [k \in 0..(HeapUnits + 1) |-> IF k = 0 THEN 0 ELSE Onward(h, w[k - 1])]
  BY <1>3 DEF Walks, w
<1>5. \A k \in 0..(HeapUnits + 1) : w[k] = IF k = 0 THEN 0 ELSE Onward(h, w[k - 1])
  BY <1>4
<1>6. w[0] = 0
  BY <1>5, HeapUnitsNat
<1>7. ASSUME NEW k \in 0..HeapUnits PROVE w[k + 1] = Onward(h, w[k])
  BY <1>5, HeapUnitsNat
<1> QED
  BY <1>6, <1>7 DEF w

-----------------------------------------------------------------------------
(* Chains. *)

IsEnd(C, h, a) == h[a].state = "none" /\ \A b \in C : b <= a

IsLink(C, h, a) ==
    /\ a <= HeapUnits /\ IsBlock(h[a]) /\ h[a].size > 0
    /\ a + h[a].size \in C
    /\ \A b \in C : b <= a \/ a + h[a].size <= b

\* C is where the headers are: each block ends where the next begins, up to a
\* header that is zero.
Chain(C, h) ==
    /\ C \subseteq 0..(2 * HeapUnits) /\ 0 \in C
    /\ \A a \in C : IsEnd(C, h, a) \/ IsLink(C, h, a)

UsedPlaces(C, h) == {a \in C : a <= HeapUnits /\ h[a].state = "used"}

\* The blocks in use, as their callers know them.
UsedIn(C, h) == {[at |-> a, units |-> h[a].size] : a \in UsedPlaces(C, h)}

\* What a chain's places are like, for the provers.
LEMMA ChainPlaces ==
    ASSUME NEW h, h \in [Slots -> Headers], NEW C, Chain(C, h), NEW a \in C
    PROVE  /\ a \in Nat /\ a <= 2 * HeapUnits /\ a \in Slots
           /\ h[a].size \in Nat
           /\ \/ IsEnd(C, h, a) /\ ~IsBlock(h[a])
              \/ IsLink(C, h, a) /\ IsBlock(h[a]) /\ h[a].state # "none"
BY HeapUnitsNat DEF Chain, IsEnd, IsLink, IsBlock, Slots, Headers

(* The walk stays in the chain. *)
LEMMA WalkInChain ==
    ASSUME NEW h, h \in [Slots -> Headers], NEW C, Chain(C, h)
    PROVE  \A k \in Steps : WalkIn(h)[k] \in C
<1> DEFINE w == WalkIn(h)
           S == {k \in Steps : w[k] \in C}
<1>1. 0 \in S
  BY WalkStep, HeapUnitsNat DEF Steps, Chain
<1>2. ASSUME NEW k \in 0..HeapUnits, k \in S PROVE k + 1 \in S
  <2>1. w[k] \in C /\ w[k + 1] = Onward(h, w[k])
    BY <1>2, WalkStep
  <2> HIDE DEF w
  <2>2. w[k + 1] \in C
    BY <2>1, ChainPlaces DEF Onward, IsLink
  <2> QED
    BY <2>2, HeapUnitsNat DEF Steps
<1> HIDE DEF S
<1>3. \A k \in 0..(HeapUnits + 1) : k \in S
  BY <1>1, <1>2, IntervalInduction, HeapUnitsNat
<1> QED
  BY <1>3 DEF S, Steps

(* One step of the walk: over a block, or nowhere. *)
LEMMA WalkOn ==
    ASSUME NEW h, h \in [Slots -> Headers], NEW C, Chain(C, h), NEW k \in 0..HeapUnits
    PROVE  LET a == WalkIn(h)[k]
               b == WalkIn(h)[k + 1]
           IN  /\ a \in C /\ b \in C
               /\ \/ IsEnd(C, h, a) /\ b = a
                  \/ IsLink(C, h, a) /\ b = a + h[a].size /\ b > a
<1> DEFINE w == WalkIn(h)
<1>1. w[k + 1] = Onward(h, w[k])
  BY WalkStep
<1>2. w[k] \in C /\ w[k + 1] \in C
  BY WalkInChain, HeapUnitsNat DEF Steps
<1> HIDE DEF w
<1>3. \/ IsEnd(C, h, w[k]) /\ w[k + 1] = w[k]
      \/ IsLink(C, h, w[k]) /\ w[k + 1] = w[k] + h[w[k]].size /\ w[k + 1] > w[k]
  BY <1>1, <1>2, ChainPlaces DEF Onward, IsLink
<1> QED
  BY <1>2, <1>3 DEF w

LEMMA WalkRises ==
    ASSUME NEW h, h \in [Slots -> Headers], NEW C, Chain(C, h),
           NEW i \in Steps, NEW j \in Steps, i <= j
    PROVE  WalkIn(h)[i] <= WalkIn(h)[j]
<1> DEFINE w == WalkIn(h)
           S == {k \in Steps : i <= k => w[i] <= w[k]}
<1>0. \A k \in Steps : w[k] \in Nat
  BY WalkInChain, ChainPlaces
<1>1. 0 \in S
  BY <1>0, HeapUnitsNat DEF Steps
<1>2. ASSUME NEW k \in 0..HeapUnits, k \in S PROVE k + 1 \in S
  <2>0. k \in Steps /\ k + 1 \in Steps
    BY HeapUnitsNat DEF Steps
  <2>1. w[k + 1] = w[k] \/ w[k + 1] > w[k]
    BY WalkOn
  <2> HIDE DEF w
  <2>2. CASE i <= k
    BY <2>0, <2>1, <2>2, <1>0, <1>2
  <2>3. CASE ~(i <= k)
    <3>1. i = k + 1 \/ ~(i <= k + 1)
      BY <2>3 DEF Steps
    <3> QED
      BY <3>1, <2>0, <1>0
  <2> QED
    BY <2>2, <2>3
<1> HIDE DEF S
<1>3. \A k \in 0..(HeapUnits + 1) : k \in S
  BY <1>1, <1>2, IntervalInduction, HeapUnitsNat
<1> QED
  BY <1>3 DEF S, Steps

(* The walk has HeapUnits + 1 steps, and each block is at least a unit: it ends
   at the end of the chain. *)
LEMMA WalkEnds ==
    ASSUME NEW h, h \in [Slots -> Headers], NEW C, Chain(C, h)
    PROVE  IsEnd(C, h, WalkIn(h)[HeapUnits + 1])
<1> DEFINE w == WalkIn(h)
           S == {k \in Steps : IsEnd(C, h, w[k]) \/ w[k] >= k}
<1>0. \A k \in Steps : w[k] \in C /\ w[k] \in Nat
  BY WalkInChain, ChainPlaces
<1>1. 0 \in S
  BY <1>0, HeapUnitsNat DEF Steps
<1>2. ASSUME NEW k \in 0..HeapUnits, k \in S PROVE k + 1 \in S
  <2>0. k \in Steps /\ k + 1 \in Steps
    BY HeapUnitsNat DEF Steps
  <2>1. \/ IsEnd(C, h, w[k]) /\ w[k + 1] = w[k]
        \/ IsLink(C, h, w[k]) /\ w[k + 1] > w[k]
    BY WalkOn
  <2>2. IsLink(C, h, w[k]) => ~IsEnd(C, h, w[k])
    BY DEF IsLink, IsEnd, IsBlock
  <2> HIDE DEF w
  <2> QED
    BY <1>0, <1>2, <2>0, <2>1, <2>2
<1>3. \A k \in 0..(HeapUnits + 1) : k \in S
  <2> HIDE DEF S
  <2> QED
    BY <1>1, <1>2, IntervalInduction, HeapUnitsNat
<1>4. HeapUnits + 1 \in Steps
  BY HeapUnitsNat DEF Steps
<1> HIDE DEF w
<1>5. w[HeapUnits + 1] >= HeapUnits + 1 => ~IsLink(C, h, w[HeapUnits + 1])
  BY <1>0, <1>4, HeapUnitsNat DEF IsLink
<1>6. IsEnd(C, h, w[HeapUnits + 1]) \/ w[HeapUnits + 1] >= HeapUnits + 1
  BY <1>3, <1>4, HeapUnitsNat
<1>7. IsEnd(C, h, w[HeapUnits + 1]) \/ IsLink(C, h, w[HeapUnits + 1])
  BY <1>0, <1>4 DEF Chain
<1> QED
  BY <1>5, <1>6, <1>7 DEF w

(* ... and it visits every place of the chain. *)
LEMMA WalkVisitsChain ==
    ASSUME NEW h, h \in [Slots -> Headers], NEW C, Chain(C, h)
    PROVE  {WalkIn(h)[k] : k \in Steps} = C
<1> DEFINE w == WalkIn(h)
<1>0. \A k \in Steps : w[k] \in C /\ w[k] \in Nat
  BY WalkInChain, ChainPlaces
<1>1. ASSUME NEW c \in C, \A k \in Steps : w[k] # c PROVE FALSE
  <2> DEFINE S == {k \in Steps : w[k] < c}
  <2>0. c \in Nat
    BY ChainPlaces
  <2>1. 0 \in S
    <3>1. w[0] = 0 /\ 0 \in Steps
      BY WalkStep, HeapUnitsNat DEF Steps
    <3> HIDE DEF w
    <3> QED
      BY <3>1, <2>0, <1>1
  <2>2. ASSUME NEW k \in 0..HeapUnits, k \in S PROVE k + 1 \in S
    <3>0. k \in Steps /\ k + 1 \in Steps
      BY HeapUnitsNat DEF Steps
    <3>1. \/ IsEnd(C, h, w[k])
          \/ IsLink(C, h, w[k]) /\ w[k + 1] = w[k] + h[w[k]].size
      BY WalkOn
    <3> HIDE DEF w
    <3>2. w[k] < c
      BY <2>2
    <3>3. ~IsEnd(C, h, w[k])
      BY <3>2, <3>0, <2>0, <1>0 DEF IsEnd
    <3>4. c <= w[k] \/ w[k + 1] <= c
      BY <3>1, <3>3 DEF IsLink
    <3>5. w[k + 1] < c
      BY <3>4, <3>2, <3>0, <2>0, <1>0, <1>1
    <3> QED
      BY <3>0, <3>5
  <2>3. HeapUnits + 1 \in S
    <3> HIDE DEF S
    <3> QED
      BY <2>1, <2>2, IntervalInduction, HeapUnitsNat
  <2>4. IsEnd(C, h, w[HeapUnits + 1])
    BY WalkEnds
  <2>5. HeapUnits + 1 \in Steps
    BY HeapUnitsNat DEF Steps
  <2> HIDE DEF w
  <2> QED
    BY <2>3, <2>4, <2>5, <2>0, <1>0 DEF IsEnd
<1> HIDE DEF w
<1>2. {w[k] : k \in Steps} = C
  BY <1>0, <1>1
<1> QED
  BY <1>2 DEF w

-----------------------------------------------------------------------------
(* What malloc and free do to a chain. *)

LEMMA ChainOrder ==
    ASSUME NEW h, h \in [Slots -> Headers], NEW C, Chain(C, h),
           NEW a \in C, NEW b \in C, a < b
    PROVE  /\ a <= HeapUnits /\ IsBlock(h[a]) /\ h[a].size > 0
           /\ a + h[a].size \in C /\ a + h[a].size <= b
           /\ \A c \in C : c <= a \/ a + h[a].size <= c
<1>1. a \in Nat /\ b \in Nat /\ h[a].size \in Nat
  BY ChainPlaces
<1>2. ~IsEnd(C, h, a)
  BY <1>1 DEF IsEnd
<1>3. IsLink(C, h, a)
  BY <1>2 DEF Chain
<1>4. ~(b <= a)
  BY <1>1
<1> QED
  BY <1>3, <1>4 DEF IsLink

\* A place that is not the end is at most HeapUnits.
LEMMA ChainBefore ==
    ASSUME NEW h, h \in [Slots -> Headers], NEW C, Chain(C, h), NEW a \in C,
           h[a].state # "none"
    PROVE  /\ a <= HeapUnits /\ IsBlock(h[a]) /\ h[a].size > 0
           /\ a + h[a].size \in C /\ a + h[a].size > a
           /\ \A c \in C : c <= a \/ a + h[a].size <= c
<1>1. IsLink(C, h, a) /\ a \in Nat /\ h[a].size \in Nat
  BY ChainPlaces DEF IsEnd
<1> QED
  BY <1>1 DEF IsLink

\* Headers h2 and places D have one more block in use, at s, and keep the others.
OneMoreUsed(C, h, D, h2, s) ==
    /\ UsedPlaces(D, h2) = UsedPlaces(C, h) \union {s}
    /\ \A a \in UsedPlaces(C, h) : h2[a].size = h[a].size

LEMMA UsedInGrows ==
    ASSUME NEW C, NEW h, NEW D, NEW h2, NEW s, OneMoreUsed(C, h, D, h2, s)
    PROVE  UsedIn(D, h2) = UsedIn(C, h) \union {[at |-> s, units |-> h2[s].size]}
<1> DEFINE P == UsedPlaces(C, h)
           R(f, a) == [at |-> a, units |-> f[a].size]
<1>1. UsedIn(C, h) = {R(h, a) : a \in P} /\ UsedIn(D, h2) = {R(h2, a) : a \in P \union {s}}
  BY DEF UsedIn, OneMoreUsed
<1>2. \A a \in P : R(h2, a) = R(h, a)
  BY DEF OneMoreUsed
<1>3. R(h2, s) = [at |-> s, units |-> h2[s].size]
  OBVIOUS
<1> HIDE DEF P, R
<1> QED
  BY <1>1, <1>2, <1>3

LEMMA UsedInIs ==
    ASSUME NEW C, NEW h, NEW b
    PROVE  b \in UsedIn(C, h) <=>
             \E a \in C : a <= HeapUnits /\ h[a].state = "used"
                          /\ b = [at |-> a, units |-> h[a].size]
BY DEF UsedIn, UsedPlaces

\* No block in use begins at a place that is not in use.
LEMMA NotUsedThere ==
    ASSUME NEW C, NEW h, NEW s, NEW n, h[s].state # "used"
    PROVE  [at |-> s, units |-> n] \notin UsedIn(C, h)
BY UsedInIs

(* Take: the blocks from s up to e, all free, become one in use and a rest. *)
Taken(h, s, u, n) ==
    [x \in Slots |->
       CASE x = s -> Used(IF u > n THEN n ELSE u)
         [] x = s + n /\ u > n ->
              IF h[s + u].state = "none" THEN None ELSE Free(u - n)
         [] OTHER -> h[x]]

LEMMA TakeIsTaken ==
    ASSUME NEW a, NEW u, NEW n, Take(a, u, n)
    PROVE  hdr' = Taken(hdr, a, u, n)
BY DEF Take, Taken

LEMMA TakenHeaders ==
    ASSUME NEW h, h \in [Slots -> Headers], NEW s \in Nat, NEW e \in Nat,
           s < e, e <= 2 * HeapUnits, NEW n \in Nat, 0 < n, n <= e - s
    PROVE  LET h2 == Taken(h, s, e - s, n) IN
           /\ h2 \in [Slots -> Headers]
           /\ h2[s] = Used(n)
           /\ s + n < e => h2[s + n] = IF h[e].state = "none" THEN None ELSE Free(e - s - n)
           /\ \A x \in Slots : (x # s /\ (x # s + n \/ s + n = e)) => h2[x] = h[x]
<1>1. s \in Slots /\ s + n \in Slots /\ s + (e - s) = e
  BY HeapUnitsNat DEF Slots
<1>2. Used(n) \in Headers /\ None \in Headers /\ Free(e - s - n) \in Headers
      /\ Used(e - s) \in Headers
  <2>1. e - s \in Nat /\ e - s - n \in Nat
    OBVIOUS
  <2> QED
    BY <2>1 DEF Used, None, Free, Headers, HeaderStates
<1> DEFINE h2 == Taken(h, s, e - s, n)
<1>3. h2[s] = Used(n)
  <2>1. (IF e - s > n THEN n ELSE e - s) = n
    OBVIOUS
  <2> QED
    BY <1>1, <2>1 DEF Taken
<1>4. s + n < e => h2[s + n] = IF h[e].state = "none" THEN None ELSE Free(e - s - n)
  <2>1. s + n # s
    OBVIOUS
  <2> QED
    BY <1>1, <2>1 DEF Taken
<1>5. \A x \in Slots : (x # s /\ (x # s + n \/ s + n = e)) => h2[x] = h[x]
  BY <1>1 DEF Taken
<1>6. h2 \in [Slots -> Headers]
  <2>1. h2 = [x \in Slots |-> h2[x]]
    BY DEF Taken
  <2>2. ASSUME NEW x \in Slots PROVE h2[x] \in Headers
    <3>1. CASE x = s
      BY <3>1, <1>2, <1>3
    <3>2. CASE x = s + n /\ s + n < e
      BY <3>2, <1>2, <1>4
    <3>3. CASE x # s /\ (x # s + n \/ s + n = e)
      <4>1. h2[x] = h[x]
        BY <3>3, <1>5
      <4> QED
        BY <4>1
    <3> QED
      BY <3>1, <3>2, <3>3
  <2> HIDE DEF h2
  <2> QED
    BY <2>1, <2>2
<1> QED
  BY <1>3, <1>4, <1>5, <1>6

\* The chain after Take: the places between s and e are gone, and the rest, if
\* any, begins at s + n.
TakenChain(C, h, s, e, n) ==
    IF s + n = e THEN {x \in C : x <= s \/ x >= e}
    ELSE IF h[e].state = "none" THEN {x \in C : x <= s} \union {s + n}
         ELSE {x \in C : x <= s \/ x >= e} \union {s + n}

LEMMA TakeChain ==
    ASSUME NEW h, h \in [Slots -> Headers], NEW C, Chain(C, h),
           NEW s \in C, NEW e \in C, s < e,
           \A x \in C : (s <= x /\ x < e) => h[x].state = "free",
           NEW n \in Nat, 0 < n, n <= e - s
    PROVE  /\ s <= HeapUnits
           /\ Taken(h, s, e - s, n) \in [Slots -> Headers]
           /\ Chain(TakenChain(C, h, s, e, n), Taken(h, s, e - s, n))
           /\ UsedIn(TakenChain(C, h, s, e, n), Taken(h, s, e - s, n)) =
                UsedIn(C, h) \union {[at |-> s, units |-> n]}
           /\ [at |-> s, units |-> n] \notin UsedIn(C, h)
           /\ Taken(h, s, e - s, n)[s].size = n
<1> DEFINE h2 == Taken(h, s, e - s, n)
           D == TakenChain(C, h, s, e, n)
<1>1. /\ s \in Nat /\ e \in Nat /\ e <= 2 * HeapUnits /\ HeapUnits \in Nat
      /\ \A x \in C : x \in Nat /\ x \in Slots /\ h[x].size \in Nat
  BY ChainPlaces, HeapUnitsNat
<1>2. s <= HeapUnits /\ h[s].state = "free"
  BY <1>1, ChainOrder
<1>3. /\ h2 \in [Slots -> Headers]
      /\ h2[s] = Used(n)
      /\ s + n < e => h2[s + n] = IF h[e].state = "none" THEN None ELSE Free(e - s - n)
      /\ \A x \in Slots : (x # s /\ (x # s + n \/ s + n = e)) => h2[x] = h[x]
  BY <1>1, TakenHeaders
<1>4. h[e].state # "none" => e <= HeapUnits
  BY <1>1, ChainBefore
<1>5. h[e].state = "none" => \A x \in C : x <= e
  BY ChainPlaces DEF IsLink, IsEnd, IsBlock
\* Before s, and from e on, nothing changes.
<1>6. ASSUME NEW x \in C, x < s \/ x >= e PROVE h2[x] = h[x]
  <2>1. x \in Slots /\ x \in Nat /\ x # s /\ (x # s + n \/ s + n = e)
    BY <1>1, <1>6
  <2> QED
    BY <2>1, <1>3
<1>7. /\ D \subseteq C \union {s + n} /\ s \in D /\ (s + n) \in D
      /\ \A x \in C : x <= s => x \in D
      /\ (s + n = e \/ h[e].state # "none") => \A x \in C : x >= e => x \in D
      /\ \A x \in D : x <= s \/ x >= s + n
      /\ \A x \in D : x = s + n \/ x <= s \/ (x \in C /\ x >= e)
      /\ (s + n < e /\ h[e].state = "none") => \A x \in D : x <= s + n
      /\ s + n <= e
  BY <1>1 DEF TakenChain
<1> HIDE DEF h2, D
<1>8. D \subseteq 0..(2 * HeapUnits) /\ 0 \in D
  <2>1. s + n \in 0..(2 * HeapUnits)
    BY <1>1, <1>7
  <2>2. C \subseteq 0..(2 * HeapUnits) /\ 0 \in C /\ 0 <= s
    BY <1>1 DEF Chain
  <2> QED
    BY <1>7, <2>1, <2>2
<1>9. ASSUME NEW a \in D PROVE IsEnd(D, h2, a) \/ IsLink(D, h2, a)
  <2>1. CASE a < s
    <3>1. a \in C
      BY <2>1, <1>1, <1>7
    <3>2. /\ a <= HeapUnits /\ IsBlock(h[a]) /\ h[a].size > 0
          /\ a + h[a].size \in C /\ a + h[a].size <= s
          /\ \A c \in C : c <= a \/ a + h[a].size <= c
      BY <2>1, <3>1, ChainOrder
    <3>3. h2[a] = h[a]
      BY <2>1, <3>1, <1>6
    <3>4. a + h[a].size \in D
      BY <3>2, <1>7
    <3>5. ASSUME NEW b \in D PROVE b <= a \/ a + h[a].size <= b
      <4>1. CASE b = s + n
        BY <4>1, <3>1, <3>2, <1>1
      <4>2. CASE b \in C
        BY <4>2, <3>2
      <4> QED
        BY <4>1, <4>2, <1>7
    <3> QED
      BY <3>2, <3>3, <3>4, <3>5 DEF IsLink
  <2>2. CASE a = s
    <3>1. IsBlock(h2[a]) /\ h2[a].size = n
      BY <2>2, <1>3 DEF IsBlock, Used
    <3> QED
      BY <2>2, <3>1, <1>2, <1>7 DEF IsLink
  <2>3. CASE a = s + n /\ s + n < e
    <3>1. CASE h[e].state = "none"
      <4>1. h2[a].state = "none"
        BY <2>3, <3>1, <1>3 DEF None
      <4> QED
        BY <2>3, <3>1, <4>1, <1>7 DEF IsEnd
    <3>2. CASE h[e].state # "none"
      <4>1. h2[a].state = "free" /\ h2[a].size = e - s - n
        BY <2>3, <3>2, <1>3 DEF Free
      <4>2. a + h2[a].size = e /\ h2[a].size > 0 /\ a <= HeapUnits /\ e \in D
        BY <2>3, <3>2, <4>1, <1>1, <1>4, <1>7
      <4>3. ASSUME NEW b \in D PROVE b <= a \/ e <= b
        BY <2>3, <1>1, <1>7
      <4> QED
        BY <4>1, <4>2, <4>3 DEF IsLink, IsBlock
    <3> QED
      BY <3>1, <3>2
  <2>4. CASE a \in C /\ a >= e
    <3>1. h2[a] = h[a]
      BY <2>4, <1>6
    <3>2. CASE h[a].state = "none"
      <4>1. \A b \in C : b <= a
        BY <2>4, <3>2, ChainPlaces DEF IsLink, IsEnd, IsBlock
      <4>2. s + n <= a
        BY <2>4, <1>1, <1>7
      <4>3. \A b \in D : b <= a
        BY <4>1, <4>2, <1>7
      <4> QED
        BY <3>1, <3>2, <4>3 DEF IsEnd
    <3>3. CASE h[a].state # "none"
      <4>1. /\ a <= HeapUnits /\ IsBlock(h[a]) /\ h[a].size > 0
            /\ a + h[a].size \in C /\ a + h[a].size > a
            /\ \A c \in C : c <= a \/ a + h[a].size <= c
        BY <2>4, <3>3, ChainBefore
      <4>2. h[e].state # "none"
        BY <2>4, <4>1, <1>1, <1>5
      <4>3. a + h[a].size \in D
        BY <2>4, <4>1, <4>2, <1>1, <1>7
      <4>4. s + n <= a
        BY <2>4, <1>1, <1>7
      <4>5. \A c \in D : c <= a \/ a + h[a].size <= c
        BY <4>1, <4>4, <1>7
      <4> QED
        BY <3>1, <4>1, <4>3, <4>5 DEF IsLink
    <3> QED
      BY <3>2, <3>3
  <2>5. a = s + n /\ s + n = e => a \in C /\ a >= e
    BY <1>1
  <2> QED
    BY <2>1, <2>2, <2>3, <2>4, <2>5, <1>1, <1>7
<1>10. UsedPlaces(D, h2) = UsedPlaces(C, h) \union {s}
  <2>1. ASSUME NEW a \in UsedPlaces(C, h) PROVE a \in UsedPlaces(D, h2)
    <3>1. a \in C /\ a \in Nat /\ a <= HeapUnits /\ h[a].state = "used"
      BY <2>1, <1>1 DEF UsedPlaces
    <3>2. a < s \/ a >= e
      BY <3>1, <1>1
    <3>3. h2[a] = h[a]
      BY <3>1, <3>2, <1>6
    <3>4. a >= e => h[e].state # "none"
      <4>1. h[e].state = "none" => a <= e
        BY <3>1, <1>5
      <4> QED
        BY <3>1, <4>1, <1>1
    <3>5. a \in D
      BY <3>1, <3>2, <3>4, <1>1, <1>7
    <3> QED
      BY <3>1, <3>3, <3>5 DEF UsedPlaces
  <2>2. s \in UsedPlaces(D, h2)
    BY <1>2, <1>3, <1>7 DEF UsedPlaces, Used
  <2>3. ASSUME NEW a \in UsedPlaces(D, h2), a # s PROVE a \in UsedPlaces(C, h)
    <3>1. a \in D /\ a <= HeapUnits /\ h2[a].state = "used"
      BY <2>3 DEF UsedPlaces
    <3>2. ~(a = s + n /\ s + n < e)
      BY <3>1, <1>3 DEF None, Free
    <3>3. a = s + n => s + n = e
      BY <3>1, <3>2, <1>1, <1>7
    <3>4. a \in C /\ a \in Nat
      BY <3>1, <3>3, <1>1, <1>7
    <3>5. a < s \/ a >= e
      BY <3>1, <3>3, <3>4, <2>3, <1>1, <1>7
    <3> QED
      BY <3>1, <3>4, <3>5, <1>6 DEF UsedPlaces
  <2> QED
    BY <2>1, <2>2, <2>3
<1>11. \A a \in UsedPlaces(C, h) : h2[a].size = h[a].size
  <2> SUFFICES ASSUME NEW a \in UsedPlaces(C, h) PROVE h2[a] = h[a]
    OBVIOUS
  <2>1. a \in C /\ h[a].state = "used"
    BY DEF UsedPlaces
  <2> QED
    BY <2>1, <1>1, <1>6
<1>12. h2[s].size = n
  BY <1>3 DEF Used
<1>13. UsedIn(D, h2) = UsedIn(C, h) \union {[at |-> s, units |-> n]}
  <2>1. UsedIn(D, h2) = UsedIn(C, h) \union {[at |-> s, units |-> h2[s].size]}
    <3>1. OneMoreUsed(C, h, D, h2, s)
      BY <1>10, <1>11 DEF OneMoreUsed
    <3> QED
      BY <3>1, UsedInGrows
  <2> QED
    BY <2>1, <1>12
<1>14. [at |-> s, units |-> n] \notin UsedIn(C, h)
  BY <1>2, NotUsedThere
<1>15. Chain(D, h2)
  BY <1>8, <1>9 DEF Chain
<1> QED
  BY <1>2, <1>3, <1>12, <1>13, <1>14, <1>15 DEF h2, D

(* Grow: the chain is longer by a block at a, where it ended or where its last
   free block was. *)
Grown(h, a, n) ==
    [x \in Slots |-> CASE x = a -> Used(n)
                       [] x \in {a + n, a + n + 1} -> None
                       [] OTHER -> h[x]]

LEMMA GrowIsGrown ==
    ASSUME NEW a, NEW n, Grow(a, n)
    PROVE  hdr' = Grown(hdr, a, n)
BY DEF Grow, Grown

LEMMA GrownHeaders ==
    ASSUME NEW h, h \in [Slots -> Headers], NEW a \in 0..HeapUnits, NEW n \in 1..HeapUnits
    PROVE  LET h2 == Grown(h, a, n) IN
           /\ h2 \in [Slots -> Headers]
           /\ h2[a] = Used(n) /\ h2[a + n] = None
           /\ \A x \in Slots : x \notin {a, a + n, a + n + 1} => h2[x] = h[x]
<1>1. a \in Slots /\ a + n \in Slots /\ a + n + 1 \in Slots
  BY HeapUnitsNat DEF Slots
<1>2. Used(n) \in Headers /\ None \in Headers
  BY HeapUnitsNat DEF Used, None, Headers, HeaderStates
<1> DEFINE h2 == Grown(h, a, n)
<1>3. h2[a] = Used(n)
  BY <1>1 DEF Grown
<1>4. h2[a + n] = None /\ h2[a + n + 1] = None
  <2>1. a + n # a /\ a + n + 1 # a
    BY HeapUnitsNat
  <2> QED
    BY <1>1, <2>1 DEF Grown
<1>5. \A x \in Slots : x \notin {a, a + n, a + n + 1} => h2[x] = h[x]
  BY DEF Grown
<1>6. h2 = [x \in Slots |-> h2[x]]
  BY DEF Grown
<1> HIDE DEF h2
<1>7. ASSUME NEW x \in Slots PROVE h2[x] \in Headers
  BY <1>2, <1>3, <1>4, <1>5
<1>8. h2 \in [Slots -> Headers]
  BY <1>6, <1>7
<1> QED
  BY <1>3, <1>4, <1>5, <1>8 DEF h2

LEMMA GrowChain ==
    ASSUME NEW h, h \in [Slots -> Headers], NEW C, Chain(C, h),
           NEW a \in C, a <= HeapUnits, h[a].state # "used",
           \A x \in C : x > a => h[x].state = "none",
           NEW n \in 1..HeapUnits
    PROVE  LET h2 == Grown(h, a, n)
               D == {x \in C : x <= a} \union {a + n}
           IN  /\ h2 \in [Slots -> Headers]
               /\ Chain(D, h2)
               /\ UsedIn(D, h2) = UsedIn(C, h) \union {[at |-> a, units |-> n]}
               /\ [at |-> a, units |-> n] \notin UsedIn(C, h)
               /\ h2[a].size = n
<1> DEFINE h2 == Grown(h, a, n)
           D == {x \in C : x <= a} \union {a + n}
<1>1. /\ a \in 0..HeapUnits /\ HeapUnits \in Nat /\ n \in Nat /\ n > 0
      /\ \A x \in C : x \in Nat /\ x \in Slots /\ h[x].size \in Nat
  BY ChainPlaces, HeapUnitsNat
<1>2. /\ h2 \in [Slots -> Headers]
      /\ h2[a] = Used(n) /\ h2[a + n] = None
      /\ \A x \in Slots : x \notin {a, a + n, a + n + 1} => h2[x] = h[x]
  BY <1>1, GrownHeaders
<1>3. ASSUME NEW x \in C, x < a PROVE h2[x] = h[x]
  <2>1. x \in Slots /\ x \notin {a, a + n, a + n + 1}
    BY <1>1, <1>3
  <2> QED
    BY <1>2, <2>1
<1>4. /\ a \in D /\ a + n \in D /\ (\A x \in C : x <= a => x \in D)
      /\ \A x \in D : x = a + n \/ (x \in C /\ x <= a)
      /\ \A x \in D : x <= a + n
      /\ a + n \in 0..(2 * HeapUnits)
  BY <1>1, HeapUnitsNat
<1> HIDE DEF h2, D
<1>5. D \subseteq 0..(2 * HeapUnits) /\ 0 \in D
  BY <1>1, <1>4 DEF Chain
<1>6. ASSUME NEW x \in D PROVE IsEnd(D, h2, x) \/ IsLink(D, h2, x)
  <2>1. CASE x = a + n
    <3>1. h2[x].state = "none"
      BY <2>1, <1>2 DEF None
    <3> QED
      BY <2>1, <3>1, <1>4 DEF IsEnd
  <2>2. CASE x = a
    <3>1. IsBlock(h2[x]) /\ h2[x].size = n
      BY <2>2, <1>2 DEF IsBlock, Used
    <3>2. \A b \in D : b <= x \/ x + n <= b
      BY <2>2, <1>1, <1>4
    <3> QED
      BY <2>2, <3>1, <3>2, <1>1, <1>4 DEF IsLink
  <2>3. CASE x \in C /\ x < a
    <3>1. /\ x <= HeapUnits /\ IsBlock(h[x]) /\ h[x].size > 0
          /\ x + h[x].size \in C /\ x + h[x].size <= a
          /\ \A c \in C : c <= x \/ x + h[x].size <= c
      BY <2>3, ChainOrder
    <3>2. h2[x] = h[x]
      BY <2>3, <1>3
    <3>3. x + h[x].size \in D
      BY <3>1, <1>4
    <3>4. \A c \in D : c <= x \/ x + h[x].size <= c
      BY <2>3, <3>1, <1>1, <1>4
    <3> QED
      BY <3>1, <3>2, <3>3, <3>4 DEF IsLink
  <2>4. x \in C /\ x <= a => x < a \/ x = a
    BY <1>1
  <2> QED
    BY <2>1, <2>2, <2>3, <2>4, <1>4
<1>7. UsedPlaces(D, h2) = UsedPlaces(C, h) \union {a}
  <2>1. ASSUME NEW x \in UsedPlaces(C, h) PROVE x \in UsedPlaces(D, h2)
    <3>1. x \in C /\ x <= HeapUnits /\ h[x].state = "used"
      BY <2>1 DEF UsedPlaces
    <3>2. x < a /\ x <= a
      BY <3>1, <1>1
    <3> QED
      BY <3>1, <3>2, <1>3, <1>4 DEF UsedPlaces
  <2>2. a \in UsedPlaces(D, h2)
    BY <1>2, <1>4 DEF UsedPlaces, Used
  <2>3. ASSUME NEW x \in UsedPlaces(D, h2), x # a PROVE x \in UsedPlaces(C, h)
    <3>1. x \in D /\ x <= HeapUnits /\ h2[x].state = "used"
      BY <2>3 DEF UsedPlaces
    <3>2. x # a + n
      BY <3>1, <1>2 DEF None
    <3>3. x \in C /\ x < a
      BY <3>1, <3>2, <2>3, <1>1, <1>4
    <3> QED
      BY <3>1, <3>3, <1>3 DEF UsedPlaces
  <2> QED
    BY <2>1, <2>2, <2>3
<1>8. \A x \in UsedPlaces(C, h) : h2[x].size = h[x].size
  <2> SUFFICES ASSUME NEW x \in UsedPlaces(C, h) PROVE h2[x] = h[x]
    OBVIOUS
  <2>1. x \in C /\ h[x].state = "used"
    BY DEF UsedPlaces
  <2>2. x < a
    BY <2>1, <1>1
  <2> QED
    BY <2>1, <2>2, <1>3
<1>9. h2[a].size = n
  BY <1>2 DEF Used
<1>10. UsedIn(D, h2) = UsedIn(C, h) \union {[at |-> a, units |-> n]}
  <2>1. UsedIn(D, h2) = UsedIn(C, h) \union {[at |-> a, units |-> h2[a].size]}
    <3>1. OneMoreUsed(C, h, D, h2, a)
      BY <1>7, <1>8 DEF OneMoreUsed
    <3> QED
      BY <3>1, UsedInGrows
  <2> QED
    BY <2>1, <1>9
<1>11. [at |-> a, units |-> n] \notin UsedIn(C, h)
  BY NotUsedThere
<1>12. Chain(D, h2)
  BY <1>5, <1>6 DEF Chain
<1> QED
  BY <1>2, <1>9, <1>10, <1>11, <1>12 DEF h2, D

(* Release: the block at a is free, or the end of the chain if the chain ended
   behind it. *)
Freed(h, a) ==
    [h EXCEPT ![a] = IF h[a + @.size].state = "none" THEN None ELSE Free(@.size)]

OneLessUsed(C, h, D, h2, s) ==
    /\ s \in UsedPlaces(C, h)
    /\ UsedPlaces(D, h2) = UsedPlaces(C, h) \ {s}
    /\ \A a \in UsedPlaces(D, h2) : h2[a].size = h[a].size

LEMMA UsedInShrinks ==
    ASSUME NEW C, NEW h, NEW D, NEW h2, NEW s, OneLessUsed(C, h, D, h2, s)
    PROVE  UsedIn(D, h2) = UsedIn(C, h) \ {[at |-> s, units |-> h[s].size]}
<1> DEFINE P == UsedPlaces(C, h)
           R(f, a) == [at |-> a, units |-> f[a].size]
<1>1. UsedIn(C, h) = {R(h, a) : a \in P} /\ UsedIn(D, h2) = {R(h2, a) : a \in P \ {s}}
  BY DEF UsedIn, OneLessUsed
<1>2. \A a \in P \ {s} : R(h2, a) = R(h, a)
  BY DEF OneLessUsed
<1>3. \A a \in P \ {s} : R(h, a) # R(h, s)
  <2> SUFFICES ASSUME NEW a \in P \ {s}, R(h, a) = R(h, s) PROVE FALSE
    OBVIOUS
  <2>1. R(h, a).at = a /\ R(h, s).at = s
    OBVIOUS
  <2> QED
    BY <2>1
<1>4. s \in P /\ R(h, s) = [at |-> s, units |-> h[s].size]
  BY DEF OneLessUsed
<1> HIDE DEF P, R
<1> QED
  BY <1>1, <1>2, <1>3, <1>4

LEMMA FreedHeaders ==
    ASSUME NEW h, h \in [Slots -> Headers], NEW a \in Slots
    PROVE  LET h2 == Freed(h, a) IN
           /\ h2 \in [Slots -> Headers]
           /\ h2[a] = IF h[a + h[a].size].state = "none" THEN None ELSE Free(h[a].size)
           /\ \A x \in Slots : x # a => h2[x] = h[x]
<1>1. h[a].size \in Nat
  BY DEF Headers
<1>2. None \in Headers /\ Free(h[a].size) \in Headers
  BY <1>1 DEF Free, None, Headers, HeaderStates
<1> DEFINE v == IF h[a + h[a].size].state = "none" THEN None ELSE Free(h[a].size)
<1>3. Freed(h, a) = [h EXCEPT ![a] = v]
  BY DEF Freed
<1>4. v \in Headers
  BY <1>2
<1> HIDE DEF v
<1>5. [h EXCEPT ![a] = v] \in [Slots -> Headers]
  BY <1>4
<1>6. [h EXCEPT ![a] = v][a] = v /\ \A x \in Slots : x # a => [h EXCEPT ![a] = v][x] = h[x]
  OBVIOUS
<1> QED
  BY <1>3, <1>5, <1>6 DEF v

FreedChain(C, h, a) ==
    IF h[a + h[a].size].state = "none" THEN {x \in C : x <= a} ELSE C

LEMMA FreeChain ==
    ASSUME NEW h, h \in [Slots -> Headers], NEW C, Chain(C, h), NEW a \in UsedPlaces(C, h)
    PROVE  LET h2 == Freed(h, a)
               D == FreedChain(C, h, a)
           IN  /\ h2 \in [Slots -> Headers]
               /\ Chain(D, h2)
               /\ UsedIn(D, h2) = UsedIn(C, h) \ {[at |-> a, units |-> h[a].size]}
<1> DEFINE h2 == Freed(h, a)
           D == FreedChain(C, h, a)
           e == a + h[a].size
<1>1. /\ \A x \in C : x \in Nat /\ x \in Slots /\ h[x].size \in Nat
      /\ a \in C /\ a <= HeapUnits /\ HeapUnits \in Nat /\ h[a].state = "used"
  BY ChainPlaces, HeapUnitsNat DEF UsedPlaces
<1>2. e \in C /\ e > a /\ \A c \in C : c <= a \/ e <= c
  BY <1>1, ChainBefore
<1>3. /\ h2 \in [Slots -> Headers]
      /\ h2[a] = IF h[e].state = "none" THEN None ELSE Free(h[a].size)
      /\ \A x \in Slots : x # a => h2[x] = h[x]
  BY <1>1, FreedHeaders
<1>4. h[e].state = "none" => \A x \in C : x <= e
  BY <1>2, ChainPlaces DEF IsLink, IsEnd, IsBlock
<1>5. /\ h[e].state = "none" => D = {x \in C : x <= a}
      /\ h[e].state # "none" => D = C
      /\ D \subseteq C /\ a \in D /\ 0 \in D
      /\ \A x \in C : x <= a => x \in D
  BY <1>1 DEF FreedChain, Chain
<1> HIDE DEF h2, D
<1>6. ASSUME NEW x \in D PROVE IsEnd(D, h2, x) \/ IsLink(D, h2, x)
  <2>1. CASE x = a
    <3>1. CASE h[e].state = "none"
      <4>1. h2[x].state = "none" /\ \A b \in D : b <= x
        BY <2>1, <3>1, <1>3, <1>5 DEF None
      <4> QED
        BY <4>1 DEF IsEnd
    <3>2. CASE h[e].state # "none"
      <4>1. IsBlock(h2[x]) /\ h2[x].size = h[a].size
        BY <2>1, <3>2, <1>3 DEF IsBlock, Free
      <4> QED
        BY <2>1, <3>2, <4>1, <1>1, <1>2, <1>5 DEF IsLink
    <3> QED
      BY <3>1, <3>2
  <2>2. CASE x < a
    <3>1. /\ x <= HeapUnits /\ IsBlock(h[x]) /\ h[x].size > 0
          /\ x + h[x].size \in C /\ x + h[x].size <= a
          /\ \A c \in C : c <= x \/ x + h[x].size <= c
      BY <2>2, <1>1, <1>5, ChainOrder
    <3>2. h2[x] = h[x]
      BY <2>2, <1>1, <1>3, <1>5
    <3> QED
      BY <3>1, <3>2, <1>5 DEF IsLink
  <2>3. CASE x > a
    <3>1. h2[x] = h[x] /\ x \in C
      BY <2>3, <1>1, <1>3, <1>5
    <3>2. D = C
      BY <2>3, <1>1, <1>5
    <3> QED
      BY <3>1, <3>2 DEF Chain, IsLink, IsEnd
  <2> QED
    BY <2>1, <2>2, <2>3, <1>1, <1>5
<1>7. Chain(D, h2)
  BY <1>5, <1>6 DEF Chain
<1>8. OneLessUsed(C, h, D, h2, a)
  <2>1. ASSUME NEW x \in UsedPlaces(C, h), x # a PROVE x \in UsedPlaces(D, h2)
    <3>1. x \in C /\ x <= HeapUnits /\ h[x].state = "used" /\ h2[x] = h[x]
      BY <2>1, <1>1, <1>3 DEF UsedPlaces
    <3>2. x <= a \/ e <= x
      BY <3>1, <1>2
    <3>3. h[e].state = "none" => x <= e
      BY <3>1, <1>4
    <3>4. h[e].state = "none" => x <= a
      BY <3>1, <3>2, <3>3, <1>1, <1>2
    <3> QED
      BY <3>1, <3>4, <1>5 DEF UsedPlaces
  <2>2. ASSUME NEW x \in UsedPlaces(D, h2)
        PROVE  x \in UsedPlaces(C, h) /\ x # a /\ h2[x] = h[x]
    <3>1. x \in C /\ x <= HeapUnits /\ h2[x].state = "used"
      BY <2>2, <1>5 DEF UsedPlaces
    <3>2. x # a
      BY <3>1, <1>3 DEF None, Free
    <3> QED
      BY <3>1, <3>2, <1>1, <1>3 DEF UsedPlaces
  <2> QED
    BY <2>1, <2>2 DEF OneLessUsed
<1>9. UsedIn(D, h2) = UsedIn(C, h) \ {[at |-> a, units |-> h[a].size]}
  BY <1>8, UsedInShrinks
<1> QED
  BY <1>3, <1>7, <1>9 DEF h2, D

(* Write: what lies inside a block in use is no place of the chain. *)
Written(h, b, g) ==
    [x \in Slots |-> IF x \in (b.at + 1)..(b.at + b.units - 1) THEN g ELSE h[x]]

\* The units of a block in use.
LEMMA InsideIsOutside ==
    ASSUME NEW h, h \in [Slots -> Headers], NEW C, Chain(C, h), NEW b \in UsedIn(C, h)
    PROVE  /\ b.at \in UsedPlaces(C, h) /\ b = [at |-> b.at, units |-> h[b.at].size]
           /\ b.at \in Nat /\ b.at <= HeapUnits /\ b.units \in Nat /\ b.units > 0
           /\ b.units = h[b.at].size
           /\ b.at \in C /\ b.at + b.units \in C
           /\ \A x \in C : x <= b.at \/ b.at + b.units <= x
<1>1. PICK a \in UsedPlaces(C, h) : b = [at |-> a, units |-> h[a].size]
  BY DEF UsedIn
<1>2. b.at = a /\ b.units = h[a].size
  BY <1>1
<1>3. a \in C /\ a \in Nat /\ a <= HeapUnits /\ h[a].size \in Nat /\ h[a].state = "used"
  BY ChainPlaces DEF UsedPlaces
<1>4. h[a].size > 0 /\ a + h[a].size \in C /\ \A x \in C : x <= a \/ a + h[a].size <= x
  BY <1>3, ChainBefore
<1> QED
  BY <1>1, <1>2, <1>3, <1>4

LEMMA WriteChain ==
    ASSUME NEW h, h \in [Slots -> Headers], NEW C, Chain(C, h),
           NEW b \in UsedIn(C, h), NEW g \in Headers
    PROVE  LET h2 == Written(h, b, g)
           IN  /\ h2 \in [Slots -> Headers]
               /\ Chain(C, h2)
               /\ UsedIn(C, h2) = UsedIn(C, h)
<1> DEFINE h2 == Written(h, b, g)
<1>1. h2 \in [Slots -> Headers]
  BY DEF Written
<1>2. ASSUME NEW x \in C PROVE h2[x] = h[x]
  <2>1. x \in Slots /\ x \in Nat
    BY ChainPlaces
  <2>2. x <= b.at \/ b.at + b.units <= x
    BY InsideIsOutside
  <2>3. b.at \in Nat /\ b.units \in Nat
    BY InsideIsOutside
  <2>4. x \notin (b.at + 1)..(b.at + b.units - 1)
    BY <2>1, <2>2, <2>3
  <2> QED
    BY <2>1, <2>4 DEF Written
<1> HIDE DEF h2
<1>3. Chain(C, h2)
  BY <1>2 DEF Chain, IsLink, IsEnd
<1>4. UsedPlaces(C, h2) = UsedPlaces(C, h)
  BY <1>2 DEF UsedPlaces
<1>5. \A a \in UsedPlaces(C, h) : h2[a] = h[a]
  BY <1>2 DEF UsedPlaces
<1>6. UsedIn(C, h2) = UsedIn(C, h)
  BY <1>4, <1>5 DEF UsedIn
<1> QED
  BY <1>1, <1>3, <1>6 DEF h2

-----------------------------------------------------------------------------
(* The sum of the units of a finite set of blocks, whatever their order. *)

SumUnits(B) == MapThenSumSet(LAMBDA b : b.units, B)

Picked(T) == CHOOSE x \in T : TRUE

\* The recursive function MapThenSumSet is defined by.
Iterates(f, B) ==
    f = [T \in SUBSET B |->
           IF T = {} THEN 0 ELSE Picked(T).units + f[T \ {Picked(T)}]]

\* A function that adds up the units of subsets of B, whatever is added first.
AddsUp(f, B) ==
    /\ \A b \in B : b.units \in Nat
    /\ f \in [SUBSET B -> Nat]
    /\ f[{}] = 0
    /\ \A T \in SUBSET B : \A x \in T : f[T] = x.units + f[T \ {x}]

Blocks(B) == IsFiniteSet(B) /\ \A b \in B : b.units \in Nat

LEMMA SumIterates ==
    ASSUME NEW B
    PROVE  SumUnits(B) = (CHOOSE f : Iterates(f, B))[B]
BY DEF SumUnits, MapThenSumSet, MapThenFoldSet, Iterates, Picked

LEMMA AddsUpIterates ==
    ASSUME NEW B, NEW f, AddsUp(f, B)
    PROVE  Iterates(f, B)
<1>1. ASSUME NEW T \in SUBSET B
      PROVE  f[T] = IF T = {} THEN 0 ELSE Picked(T).units + f[T \ {Picked(T)}]
  <2>1. T # {} => Picked(T) \in T
    BY DEF Picked
  <2> QED
    BY <2>1 DEF AddsUp
<1>2. f = [T \in SUBSET B |-> f[T]]
  BY DEF AddsUp
<1> QED
  BY <1>1, <1>2 DEF Iterates

LEMMA IteratesUnique ==
    ASSUME NEW B, IsFiniteSet(B), NEW f, Iterates(f, B), NEW g, Iterates(g, B)
    PROVE  \A T \in SUBSET B : f[T] = g[T]
<1> DEFINE S == {n \in Nat : \A T \in SUBSET B : Cardinality(T) = n => f[T] = g[T]}
<1>0. \A T \in SUBSET B : IsFiniteSet(T) /\ Cardinality(T) \in Nat
  BY FS_Subset, FS_CardinalityType
<1>1. \A T \in SUBSET B :
        /\ f[T] = IF T = {} THEN 0 ELSE Picked(T).units + f[T \ {Picked(T)}]
        /\ g[T] = IF T = {} THEN 0 ELSE Picked(T).units + g[T \ {Picked(T)}]
  BY DEF Iterates
<1>2. 0 \in S
  <2> SUFFICES ASSUME NEW T \in SUBSET B, Cardinality(T) = 0 PROVE f[T] = g[T]
    OBVIOUS
  <2>1. T = {}
    BY <1>0, FS_EmptySet
  <2> QED
    BY <2>1, <1>1
<1>3. ASSUME NEW n \in Nat, n \in S PROVE n + 1 \in S
  <2> SUFFICES ASSUME NEW T \in SUBSET B, Cardinality(T) = n + 1 PROVE f[T] = g[T]
    OBVIOUS
  <2>1. T # {}
    BY FS_EmptySet
  <2>2. Picked(T) \in T
    BY <2>1 DEF Picked
  <2>3. Cardinality(T \ {Picked(T)}) = n /\ T \ {Picked(T)} \in SUBSET B
    <3> DEFINE p == Picked(T)
    <3>1. p \in T
      BY <2>2
    <3> HIDE DEF p
    <3>2. IsFiniteSet(T)
      BY <1>0
    <3>3. Cardinality(T \ {p}) = Cardinality(T) - 1
      BY <3>1, <3>2, FS_RemoveElement
    <3> QED
      BY <3>3 DEF p
  <2>4. f[T \ {Picked(T)}] = g[T \ {Picked(T)}]
    BY <2>3, <1>3
  <2> QED
    BY <2>1, <2>4, <1>1
<1> SUFFICES ASSUME NEW T \in SUBSET B PROVE f[T] = g[T]
  OBVIOUS
<1>4. Cardinality(T) \in S
  <2> HIDE DEF S
  <2>1. \A k \in 0..(Cardinality(T) - 1) : k \in S => k + 1 \in S
    BY <1>3
  <2>2. Cardinality(T) \in Nat
    BY <1>0
  <2> QED
    BY <2>1, <2>2, <1>2, IntervalInduction
<1> QED
  BY <1>4

\* One more block: the function for the larger set.
LEMMA AddsUpMore ==
    ASSUME NEW B, NEW f, AddsUp(f, B), NEW b, b \notin B, b.units \in Nat
    PROVE  AddsUp([T \in SUBSET (B \union {b}) |->
                     IF b \in T THEN b.units + f[T \ {b}] ELSE f[T]], B \union {b})
<1> DEFINE D == B \union {b}
           g == [T \in SUBSET D |-> IF b \in T THEN b.units + f[T \ {b}] ELSE f[T]]
<1>0. \A T \in SUBSET D : (b \notin T => T \in SUBSET B) /\ T \ {b} \in SUBSET B
  OBVIOUS
<1>1. \A T \in SUBSET B : f[T] \in Nat
  BY DEF AddsUp
<1>2. \A T \in SUBSET D : g[T] = IF b \in T THEN b.units + f[T \ {b}] ELSE f[T]
  OBVIOUS
<1>3. g \in [SUBSET D -> Nat]
  BY <1>0, <1>1
<1>4. g[{}] = 0
  BY <1>2 DEF AddsUp
<1> HIDE DEF g
<1>5. ASSUME NEW T \in SUBSET D, NEW x \in T PROVE g[T] = x.units + g[T \ {x}]
  <2>0. T \ {x} \in SUBSET D
    OBVIOUS
  <2>1. CASE x = b
    <3>1. g[T] = b.units + f[T \ {b}] /\ g[T \ {b}] = f[T \ {b}]
      BY <2>0, <2>1, <1>2
    <3> QED
      BY <2>1, <3>1
  <2>2. CASE x # b /\ b \notin T
    <3>1. g[T] = f[T] /\ g[T \ {x}] = f[T \ {x}]
      BY <2>0, <2>2, <1>2
    <3>2. T \in SUBSET B
      BY <2>2, <1>0
    <3> QED
      BY <3>1, <3>2 DEF AddsUp
  <2>3. CASE x # b /\ b \in T
    <3> DEFINE U == T \ {b}
    <3>1. U \in SUBSET B /\ x \in U /\ (T \ {x}) \ {b} = U \ {x} /\ b \in T \ {x}
          /\ U \ {x} \in SUBSET B
      BY <2>3
    <3>2. g[T] = b.units + f[U] /\ g[T \ {x}] = b.units + f[U \ {x}]
      BY <2>0, <2>3, <3>1, <1>2
    <3>3. f[U] = x.units + f[U \ {x}]
      BY <3>1 DEF AddsUp
    <3> HIDE DEF U
    <3>4. f[U] \in Nat /\ f[U \ {x}] \in Nat
      BY <3>1, <1>1
    <3>5. x.units \in Nat
      BY <3>1 DEF AddsUp
    <3> QED
      BY <3>2, <3>3, <3>4, <3>5
  <2> QED
    BY <2>1, <2>2, <2>3
<1>6. \A x \in D : x.units \in Nat
  BY DEF AddsUp
<1> QED
  BY <1>3, <1>4, <1>5, <1>6 DEF AddsUp, g

LEMMA AddsUpExists ==
    ASSUME NEW B, Blocks(B)
    PROVE  \E f : AddsUp(f, B)
<1> DEFINE S == {n \in Nat : \A C : (Blocks(C) /\ Cardinality(C) = n) => \E f : AddsUp(f, C)}
<1>1. 0 \in S
  <2> SUFFICES ASSUME NEW C, Blocks(C), Cardinality(C) = 0 PROVE \E f : AddsUp(f, C)
    OBVIOUS
  <2>1. C = {}
    BY FS_EmptySet DEF Blocks
  <2> DEFINE f == [T \in SUBSET C |-> 0]
  <2>2. f \in [SUBSET C -> Nat] /\ f[{}] = 0
    OBVIOUS
  <2>3. \A T \in SUBSET C : \A x \in T : f[T] = x.units + f[T \ {x}]
    BY <2>1
  <2> HIDE DEF f
  <2> QED
    BY <2>2, <2>3 DEF AddsUp, Blocks
<1>2. ASSUME NEW n \in Nat, n \in S PROVE n + 1 \in S
  <2> SUFFICES ASSUME NEW C, Blocks(C), Cardinality(C) = n + 1 PROVE \E f : AddsUp(f, C)
    OBVIOUS
  <2>1. PICK b : b \in C
    BY FS_EmptySet
  <2> DEFINE D == C \ {b}
  <2>2. Blocks(D) /\ Cardinality(D) = n
    <3>1. IsFiniteSet(C)
      BY DEF Blocks
    <3>2. IsFiniteSet(D) /\ Cardinality(D) = Cardinality(C) - 1
      BY <2>1, <3>1, FS_RemoveElement
    <3> QED
      BY <3>2 DEF Blocks
  <2>3. PICK f : AddsUp(f, D)
    BY <2>2, <1>2
  <2>4. b \notin D /\ b.units \in Nat /\ D \union {b} = C
    BY <2>1 DEF Blocks
  <2> HIDE DEF D
  <2> QED
    BY <2>3, <2>4, AddsUpMore
<1>3. Cardinality(B) \in Nat
  BY FS_CardinalityType DEF Blocks
<1>4. Cardinality(B) \in S
  <2> HIDE DEF S
  <2> QED
    BY <1>1, <1>2, <1>3, IntervalInduction
<1> QED
  BY <1>4

\* The sum is what any function that adds up says.
LEMMA SumIs ==
    ASSUME NEW B, Blocks(B), NEW f, AddsUp(f, B)
    PROVE  SumUnits(B) = f[B] /\ SumUnits(B) \in Nat
<1>1. Iterates(f, B)
  BY AddsUpIterates
<1> DEFINE g == CHOOSE h : Iterates(h, B)
<1>2. Iterates(g, B)
  BY <1>1
<1>3. SumUnits(B) = g[B]
  BY SumIterates
<1> HIDE DEF g
<1>4. g[B] = f[B]
  BY <1>1, <1>2, IteratesUnique DEF Blocks
<1>5. f[B] \in Nat
  BY DEF AddsUp
<1> QED
  BY <1>3, <1>4, <1>5

LEMMA SumEmpty == SumUnits({}) = 0
<1>1. Blocks({})
  BY FS_EmptySet DEF Blocks
<1>2. PICK f : AddsUp(f, {})
  BY <1>1, AddsUpExists
<1>3. SumUnits({}) = f[{}]
  BY <1>1, <1>2, SumIs
<1> QED
  BY <1>2, <1>3 DEF AddsUp

LEMMA SumAdd ==
    ASSUME NEW B, Blocks(B), NEW b, b \notin B, b.units \in Nat
    PROVE  /\ Blocks(B \union {b})
           /\ SumUnits(B \union {b}) = SumUnits(B) + b.units
           /\ SumUnits(B) \in Nat
<1>1. Blocks(B \union {b})
  <2>1. IsFiniteSet(B \union {b})
    BY FS_AddElement DEF Blocks
  <2> QED
    BY <2>1 DEF Blocks
<1>2. PICK f : AddsUp(f, B)
  BY AddsUpExists
<1> DEFINE g == [T \in SUBSET (B \union {b}) |-> IF b \in T THEN b.units + f[T \ {b}] ELSE f[T]]
<1>3. AddsUp(g, B \union {b})
  BY <1>2, AddsUpMore
<1>4. g[B \union {b}] = b.units + f[B]
  <2>1. (B \union {b}) \ {b} = B
    OBVIOUS
  <2> QED
    BY <2>1
<1> HIDE DEF g
<1>5. SumUnits(B \union {b}) = g[B \union {b}]
  BY <1>1, <1>3, SumIs
<1>6. SumUnits(B) = f[B] /\ SumUnits(B) \in Nat
  BY <1>2, SumIs
<1> QED
  BY <1>1, <1>4, <1>5, <1>6

LEMMA SumRemove ==
    ASSUME NEW B, Blocks(B), NEW b \in B
    PROVE  /\ Blocks(B \ {b})
           /\ SumUnits(B \ {b}) = SumUnits(B) - b.units
           /\ SumUnits(B \ {b}) \in Nat
<1>1. Blocks(B \ {b})
  BY FS_RemoveElement DEF Blocks
<1>2. b.units \in Nat /\ b \notin B \ {b} /\ (B \ {b}) \union {b} = B
  BY DEF Blocks
<1>3. SumUnits((B \ {b}) \union {b}) = SumUnits(B \ {b}) + b.units /\ SumUnits(B \ {b}) \in Nat
  BY <1>1, <1>2, SumAdd
<1>4. SumUnits(B) = SumUnits(B \ {b}) + b.units
  BY <1>2, <1>3
<1> DEFINE m == SumUnits(B \ {b})
           n == SumUnits(B)
<1>5. m \in Nat /\ n = m + b.units
  BY <1>3, <1>4
<1> HIDE DEF m, n
<1>6. m = n - b.units
  BY <1>2, <1>5
<1> QED
  BY <1>1, <1>5, <1>6 DEF m, n

-----------------------------------------------------------------------------
(* What is inside a block in use stays as it is. *)

Inside(b) == (b.at + 1)..(b.at + b.units - 1)

Keeps(B, h, h2) == \A b \in B : \A x \in Inside(b) : h2[x] = h[x]

LEMMA InsidePlaces ==
    ASSUME NEW h, h \in [Slots -> Headers], NEW C, Chain(C, h),
           NEW b \in UsedIn(C, h), NEW x \in Inside(b)
    PROVE  /\ x \in Slots /\ x \in Nat
           /\ b.at \in Nat /\ b.at \in C /\ h[b.at].state = "used"
           /\ b.at < x /\ x < b.at + b.units /\ b.at + b.units \in Nat
           /\ \A c \in C : c <= b.at \/ b.at + b.units <= c
<1>1. /\ b.at \in Nat /\ b.units \in Nat /\ b.at \in C /\ b.at \in UsedPlaces(C, h)
      /\ b.at + b.units \in C
      /\ \A c \in C : c <= b.at \/ b.at + b.units <= c
  BY InsideIsOutside
<1>2. b.at + b.units <= 2 * HeapUnits
  BY <1>1, ChainPlaces
<1>3. x \in Nat /\ b.at < x /\ x < b.at + b.units
  BY <1>1 DEF Inside
<1>4. x \in Slots
  BY <1>1, <1>2, <1>3, HeapUnitsNat DEF Slots
<1> QED
  BY <1>1, <1>3, <1>4 DEF UsedPlaces

LEMMA TakeKeeps ==
    ASSUME NEW h, h \in [Slots -> Headers], NEW C, Chain(C, h),
           NEW s \in C, NEW e \in C, s < e,
           \A x \in C : (s <= x /\ x < e) => h[x].state = "free",
           NEW n \in Nat, 0 < n, n <= e - s
    PROVE  Keeps(UsedIn(C, h), h, Taken(h, s, e - s, n))
<1> SUFFICES ASSUME NEW b \in UsedIn(C, h), NEW x \in Inside(b)
             PROVE  Taken(h, s, e - s, n)[x] = h[x]
  BY DEF Keeps
<1>1. s \in Nat /\ e \in Nat /\ e <= 2 * HeapUnits
  BY ChainPlaces
<1>2. /\ x \in Slots /\ x \in Nat
      /\ b.at \in Nat /\ b.at \in C /\ h[b.at].state = "used"
      /\ b.at < x /\ x < b.at + b.units /\ b.at + b.units \in Nat
      /\ \A c \in C : c <= b.at \/ b.at + b.units <= c
  BY InsidePlaces
<1>3. b.at < s \/ b.at >= e
  BY <1>1, <1>2
<1>4. (s <= b.at \/ b.at + b.units <= s)
  BY <1>2
<1>5. x < s \/ x > e
  BY <1>1, <1>2, <1>3, <1>4
<1>6. x # s /\ (x # s + n \/ s + n = e)
  BY <1>1, <1>2, <1>5
<1> QED
  BY <1>1, <1>2, <1>6, TakenHeaders

LEMMA GrowKeeps ==
    ASSUME NEW h, h \in [Slots -> Headers], NEW C, Chain(C, h),
           NEW a \in C, a <= HeapUnits, h[a].state # "used",
           \A x \in C : x > a => h[x].state = "none",
           NEW n \in 1..HeapUnits
    PROVE  Keeps(UsedIn(C, h), h, Grown(h, a, n))
<1> SUFFICES ASSUME NEW b \in UsedIn(C, h), NEW x \in Inside(b)
             PROVE  Grown(h, a, n)[x] = h[x]
  BY DEF Keeps
<1>1. a \in Nat /\ a \in 0..HeapUnits
  BY ChainPlaces, HeapUnitsNat
<1>2. /\ x \in Slots /\ x \in Nat
      /\ b.at \in Nat /\ b.at \in C /\ h[b.at].state = "used"
      /\ b.at < x /\ x < b.at + b.units /\ b.at + b.units \in Nat
      /\ \A c \in C : c <= b.at \/ b.at + b.units <= c
  BY InsidePlaces
<1>3. b.at < a
  BY <1>1, <1>2
<1>4. a <= b.at \/ b.at + b.units <= a
  BY <1>2
<1>5. x < a
  BY <1>1, <1>2, <1>3, <1>4
<1>6. x \notin {a, a + n, a + n + 1}
  BY <1>1, <1>2, <1>5, HeapUnitsNat
<1> QED
  BY <1>1, <1>2, <1>6, GrownHeaders

LEMMA FreeKeeps ==
    ASSUME NEW h, h \in [Slots -> Headers], NEW C, Chain(C, h), NEW a \in UsedPlaces(C, h)
    PROVE  Keeps(UsedIn(C, h), h, Freed(h, a))
<1> SUFFICES ASSUME NEW b \in UsedIn(C, h), NEW x \in Inside(b)
             PROVE  Freed(h, a)[x] = h[x]
  BY DEF Keeps
<1>1. a \in Nat /\ a \in Slots /\ a \in C
  BY ChainPlaces DEF UsedPlaces
<1>2. /\ x \in Slots /\ x \in Nat
      /\ b.at \in Nat
      /\ b.at < x /\ x < b.at + b.units /\ b.at + b.units \in Nat
      /\ \A c \in C : c <= b.at \/ b.at + b.units <= c
  BY InsidePlaces
<1>3. x # a
  BY <1>1, <1>2
<1> QED
  BY <1>1, <1>2, <1>3, FreedHeaders

(* The blocks of a chain share no unit. *)
LEMMA UsedApart ==
    ASSUME NEW h, h \in [Slots -> Headers], NEW C, Chain(C, h),
           NEW b \in UsedIn(C, h), NEW d \in UsedIn(C, h), b # d
    PROVE  Promise!Units(b) \intersect Promise!Units(d) = {}
<1>1. /\ b.at \in Nat /\ b.units \in Nat /\ b.at \in C
      /\ b = [at |-> b.at, units |-> h[b.at].size]
      /\ \A c \in C : c <= b.at \/ b.at + b.units <= c
  BY InsideIsOutside
<1>2. /\ d.at \in Nat /\ d.units \in Nat /\ d.at \in C
      /\ d = [at |-> d.at, units |-> h[d.at].size]
      /\ \A c \in C : c <= d.at \/ d.at + d.units <= c
  BY InsideIsOutside
<1>3. b.at # d.at
  BY <1>1, <1>2
<1>4. d.at <= b.at \/ b.at + b.units <= d.at
  BY <1>1, <1>2
<1>5. b.at <= d.at \/ d.at + d.units <= b.at
  BY <1>1, <1>2
<1>6. Promise!Units(b) = b.at..(b.at + b.units - 1) /\ Promise!Units(d) = d.at..(d.at + d.units - 1)
  BY DEF Promise!Units
<1>7. b.at + b.units <= d.at \/ d.at + d.units <= b.at
  BY <1>1, <1>2, <1>3, <1>4, <1>5
<1> QED
  BY <1>1, <1>2, <1>6, <1>7

(* Two different blocks: writing one leaves the other alone. *)
LEMMA WriteKeeps ==
    ASSUME NEW h, h \in [Slots -> Headers], NEW C, Chain(C, h),
           NEW d \in UsedIn(C, h), NEW g
    PROVE  Keeps(UsedIn(C, h) \ {d}, h, Written(h, d, g))
<1> SUFFICES ASSUME NEW b \in UsedIn(C, h), b # d, NEW x \in Inside(b)
             PROVE  Written(h, d, g)[x] = h[x]
  BY DEF Keeps
<1>1. x \in Slots /\ x \in Nat /\ b.at \in Nat /\ b.at < x /\ x < b.at + b.units
  BY InsidePlaces
<1>2. d.at \in Nat /\ d.units \in Nat /\ b.units \in Nat
  BY InsideIsOutside
<1>3. x \in Promise!Units(b)
  BY <1>1, <1>2 DEF Promise!Units
<1>4. x \notin Promise!Units(d)
  BY <1>3, UsedApart
<1>5. x \notin (d.at + 1)..(d.at + d.units - 1)
  BY <1>1, <1>2, <1>4 DEF Promise!Units
<1> QED
  BY <1>1, <1>5 DEF Written

-----------------------------------------------------------------------------
(* The inductive invariant. *)

\* A caller that was interrupted before it counted its block has one block to
\* count, and nobody else has that one.
PendingInv ==
    /\ pending \in [Clients -> SUBSET given]
    /\ \A c \in Clients : \A p, q \in pending[c] : p = q
    /\ \A c, d \in Clients : c # d => pending[c] \intersect pending[d] = {}

ChainInv ==
    /\ hdr \in [Slots -> Headers]
    /\ Chain(Visited, hdr)
    /\ given = UsedIn(Visited, hdr)
    /\ \A b \in given : b.units \in 2..HeapUnits

CountInv ==
    /\ IsFiniteSet(given)
    /\ used_memory = SumUnits(Held)

HeapInv ==
    /\ ChainInv
    /\ PendingInv
    /\ CountInv
    /\ error \in {"none", "MEMORY_CORRUPTION"}

LEMMA VisitedIs ==
    ASSUME NEW C, hdr \in [Slots -> Headers], Chain(C, hdr)
    PROVE  Visited = C
BY WalkIsWalkIn, WalkVisitsChain DEF Visited

LEMMA VisitedIsThen ==
    ASSUME NEW C, hdr' \in [Slots -> Headers], Chain(C, hdr')
    PROVE  Visited' = C
<1>1. Visited' = {WalkIn(hdr')[k] : k \in Steps}
  <2>1. Visited' = {Walk'[k] : k \in Steps}
    BY DEF Visited, Steps
  <2> QED
    BY <2>1, WalkIsWalkIn
<1> QED
  BY <1>1, WalkVisitsChain

\* A step keeps ChainInv if what it leaves is some chain with the right blocks.
LEMMA ChainInvThen ==
    ASSUME NEW C, hdr' \in [Slots -> Headers], Chain(C, hdr'), given' = UsedIn(C, hdr'),
           \A b \in given' : b.units \in 2..HeapUnits
    PROVE  ChainInv'
<1>1. Visited' = C
  BY VisitedIsThen
<1>2. Chain(Visited, hdr)' = Chain(Visited', hdr')
  BY DEF Chain, IsEnd, IsLink, IsBlock
<1>3. UsedIn(Visited, hdr)' = UsedIn(Visited', hdr')
  BY DEF UsedIn, UsedPlaces
<1> QED
  BY <1>1, <1>2, <1>3 DEF ChainInv

LEMMA ChainInvSame ==
    ASSUME ChainInv, UNCHANGED <<hdr, given>>
    PROVE  ChainInv'
<1>1. Chain(Visited, hdr') /\ hdr' \in [Slots -> Headers] /\ given' = UsedIn(Visited, hdr')
      /\ \A b \in given' : b.units \in 2..HeapUnits
  BY DEF ChainInv
<1> QED
  BY <1>1, ChainInvThen

\* What ChainInv says of the blocks, with C for Visited.
LEMMA HeldBlocks ==
    ASSUME ChainInv, NEW b \in given
    PROVE  /\ b \in UsedIn(Visited, hdr)
           /\ b.at \in UsedPlaces(Visited, hdr) /\ b.at \in 0..HeapUnits
           /\ hdr[b.at].state = "used" /\ hdr[b.at].size = b.units
           /\ b = [at |-> b.at, units |-> hdr[b.at].size]
           /\ b.units \in 2..HeapUnits /\ b.units \in Nat
<1>1. hdr \in [Slots -> Headers] /\ Chain(Visited, hdr) /\ b \in UsedIn(Visited, hdr)
  BY DEF ChainInv
<1>2. /\ b.at \in UsedPlaces(Visited, hdr) /\ b = [at |-> b.at, units |-> hdr[b.at].size]
      /\ b.at \in Nat /\ b.at <= HeapUnits /\ b.units \in Nat
      /\ b.units = hdr[b.at].size
  BY <1>1, InsideIsOutside
<1>3. hdr[b.at].state = "used" /\ b.at \in 0..HeapUnits
  BY <1>2, HeapUnitsNat DEF UsedPlaces
<1> QED
  BY <1>1, <1>2, <1>3 DEF ChainInv

-----------------------------------------------------------------------------
(* malloc *)

\* A block given: what malloc leaves behind, whichever way it found the place.
Gives(s, n) ==
    /\ s \in 0..HeapUnits /\ n \in Requests
    /\ [at |-> s, units |-> n] \notin given
    /\ given' = given \union {[at |-> s, units |-> n]}
    /\ ChainInv'
    /\ Keeps(given, hdr, hdr')
    /\ UNCHANGED error

Counts(c, b) ==
    \/ pending' = [pending EXCEPT ![c] = {b}] /\ UNCHANGED used_memory
    \/ used_memory' = used_memory + b.units /\ UNCHANGED pending

LEMMA RequestsAre ==
    ASSUME NEW n \in Requests
    PROVE  n \in Nat /\ n \in 2..HeapUnits /\ n \in 1..HeapUnits /\ 0 < n
BY RequestsFit, HeapUnitsNat

LEMMA UnitsStay ==
    ASSUME ChainInv, NEW s, NEW n \in Requests,
           given' = given \union {[at |-> s, units |-> n]}
    PROVE  \A b \in given' : b.units \in 2..HeapUnits
BY RequestsAre DEF ChainInv

LEMMA TakeGives ==
    ASSUME ChainInv, NEW s \in Visited, NEW e \in Visited, s < e,
           \A x \in Visited : (s <= x /\ x < e) => hdr[x].state = "free",
           NEW n \in Requests, n <= e - s,
           Take(s, e - s, n), NEW c \in Clients, Hand(c, s)
    PROVE  Gives(s, n) /\ Counts(c, [at |-> s, units |-> n])
<1> DEFINE b == [at |-> s, units |-> n]
<1>1. hdr \in [Slots -> Headers] /\ Chain(Visited, hdr) /\ given = UsedIn(Visited, hdr)
  BY DEF ChainInv
<1>2. n \in Nat /\ 0 < n
  BY RequestsAre
<1>3. hdr' = Taken(hdr, s, e - s, n)
  BY TakeIsTaken
<1> DEFINE D == TakenChain(Visited, hdr, s, e, n)
<1>4. /\ s <= HeapUnits /\ hdr' \in [Slots -> Headers] /\ Chain(D, hdr')
      /\ UsedIn(D, hdr') = given \union {b} /\ b \notin given /\ hdr'[s].size = n
  BY <1>1, <1>2, <1>3, TakeChain
<1>5. Keeps(given, hdr, hdr')
  BY <1>1, <1>2, <1>3, TakeKeeps
<1> HIDE DEF D
<1>6. /\ given' = given \union {b} /\ pending' = [pending EXCEPT ![c] = {b}]
      /\ UNCHANGED <<used_memory, error>>
  BY <1>4 DEF Hand
<1>7. ChainInv'
  BY <1>4, <1>6, UnitsStay, ChainInvThen
<1>8. s \in 0..HeapUnits
  BY <1>1, <1>4, ChainPlaces, HeapUnitsNat
<1> QED
  BY <1>4, <1>5, <1>6, <1>7, <1>8 DEF Gives, Counts

LEMMA GrowGives ==
    ASSUME ChainInv, NEW a \in Visited, a <= HeapUnits, hdr[a].state # "used",
           \A x \in Visited : x > a => hdr[x].state = "none",
           NEW n \in Requests, Grow(a, n),
           given' = given \union {[at |-> a, units |-> n]}, UNCHANGED error
    PROVE  Gives(a, n)
<1> DEFINE b == [at |-> a, units |-> n]
<1>1. hdr \in [Slots -> Headers] /\ Chain(Visited, hdr) /\ given = UsedIn(Visited, hdr)
  BY DEF ChainInv
<1>2. n \in 1..HeapUnits
  BY RequestsAre
<1>3. hdr' = Grown(hdr, a, n)
  BY GrowIsGrown
<1> DEFINE D == {x \in Visited : x <= a} \union {a + n}
<1>4. /\ hdr' \in [Slots -> Headers] /\ Chain(D, hdr')
      /\ UsedIn(D, hdr') = given \union {b} /\ b \notin given
  BY <1>1, <1>2, <1>3, GrowChain
<1>5. Keeps(given, hdr, hdr')
  BY <1>1, <1>2, <1>3, GrowKeeps
<1> HIDE DEF D
<1>6. ChainInv'
  BY <1>4, UnitsStay, ChainInvThen
<1>7. a \in 0..HeapUnits
  BY <1>1, ChainPlaces, HeapUnitsNat
<1> QED
  BY <1>4, <1>5, <1>6, <1>7 DEF Gives

(* The steps of the walk, in the words of the model. *)
LEMMA FreeStep ==
    ASSUME ChainInv, NEW k \in Steps, IsFree(k)
    PROVE  /\ k \in 0..HeapUnits
           /\ Walk[k] \in Visited /\ Walk[k] \in Nat /\ Walk[k] <= HeapUnits
           /\ NextAt(k) = Walk[k] + hdr[Walk[k]].size /\ hdr[Walk[k]].size \in Nat
           /\ NextAt(k) \in Visited /\ NextAt(k) > Walk[k] /\ Walk[k + 1] = NextAt(k)
           /\ \A c \in Visited : c <= Walk[k] \/ NextAt(k) <= c
           /\ hdr[Walk[k]].state = "free"
<1> DEFINE a == Walk[k]
<1>1. hdr \in [Slots -> Headers] /\ Chain(Visited, hdr) /\ Walk = WalkIn(hdr)
  BY WalkIsWalkIn DEF ChainInv
<1>2. a \in Visited /\ hdr[a].state = "free" /\ a <= HeapUnits
  BY DEF Visited, IsFree
<1>3. k # HeapUnits + 1
  <2>1. IsEnd(Visited, hdr, Walk[HeapUnits + 1])
    BY <1>1, WalkEnds
  <2> QED
    BY <1>2, <2>1 DEF IsEnd
<1>4. k \in 0..HeapUnits
  BY <1>3, HeapUnitsNat DEF Steps
<1>5. /\ a + hdr[a].size \in Visited /\ a + hdr[a].size > a
      /\ \A c \in Visited : c <= a \/ a + hdr[a].size <= c
  BY <1>1, <1>2, ChainBefore
<1>6. Walk[k + 1] = a + hdr[a].size
  BY <1>1, <1>2, <1>4, WalkStep DEF Onward, IsBlock
<1>7. a \in Nat /\ hdr[a].size \in Nat
  BY <1>1, <1>2, ChainPlaces
<1> QED
  BY <1>2, <1>4, <1>5, <1>6, <1>7 DEF NextAt

\* consecutive_start is the first of the run of free blocks that ends at step k.
LEMMA RunStartIs ==
    ASSUME NEW k \in Steps, IsFree(k)
    PROVE  RunStart(k) \in 0..k /\ \A i \in RunStart(k)..k : IsFree(i)
<1> DEFINE J == {j \in 0..k : \A i \in j..k : IsFree(i)}
<1>1. k \in Nat
  BY HeapUnitsNat DEF Steps
<1>2. k \in J /\ J \in SUBSET Nat
  <2>1. \A i \in k..k : i = k
    BY <1>1
  <2> QED
    BY <1>1, <2>1
<1>3. PICK m \in J : \A j \in J : m <= j
  BY <1>2, LeastOfNaturals
<1>4. m = 0 \/ ~IsFree(m - 1)
  <2> SUFFICES ASSUME m # 0, IsFree(m - 1) PROVE FALSE
    OBVIOUS
  <2>1. m - 1 \in 0..k
    BY <1>1, <1>3
  <2>2. \A i \in (m - 1)..k : i = m - 1 \/ i \in m..k
    BY <1>1, <1>3
  <2>3. m - 1 \in J
    BY <1>3, <2>1, <2>2
  <2>4. m <= m - 1
    BY <1>3, <2>3
  <2> QED
    BY <1>1, <1>3, <2>4
<1> DEFINE P(j) == (\A i \in j..k : IsFree(i)) /\ (j = 0 \/ ~IsFree(j - 1))
<1>5. \E j \in 0..k : P(j)
  BY <1>3, <1>4
<1>6. RunStart(k) = CHOOSE j \in 0..k : P(j)
  BY DEF RunStart
<1> HIDE DEF P
<1>7. RunStart(k) \in 0..k /\ P(RunStart(k))
  BY <1>5, <1>6
<1> QED
  BY <1>7 DEF P

\* Between the start of the run and the block behind it there are only free blocks.
LEMMA RunIsFree ==
    ASSUME ChainInv, NEW k \in Steps, IsFree(k)
    PROVE  LET s == Walk[RunStart(k)] IN
           /\ s \in Visited /\ s \in Nat /\ s < NextAt(k)
           /\ \A x \in Visited : (s <= x /\ x < NextAt(k)) => hdr[x].state = "free"
<1> DEFINE j == RunStart(k)
<1>1. hdr \in [Slots -> Headers] /\ Chain(Visited, hdr) /\ Walk = WalkIn(hdr)
  BY WalkIsWalkIn DEF ChainInv
<1>2. k \in Nat /\ j \in 0..k /\ (\A i \in j..k : IsFree(i)) /\ k <= HeapUnits
  BY RunStartIs, FreeStep
<1> HIDE DEF j
<1>3. j \in Steps /\ k + 1 \in Steps /\ j \in Nat /\ IsFree(j) /\ j <= k
  BY <1>2, HeapUnitsNat DEF Steps
<1>4. Walk[j] \in Visited /\ Walk[j] \in Nat
  BY <1>3, FreeStep
<1>5. Walk[j] <= Walk[k]
  BY <1>1, <1>3, WalkRises
<1>6. Walk[k] \in Nat /\ NextAt(k) > Walk[k] /\ Walk[k + 1] = NextAt(k)
      /\ NextAt(k) \in Nat
  BY FreeStep
<1>7. Walk[j] < NextAt(k)
  BY <1>4, <1>5, <1>6
<1>8. ASSUME NEW x \in Visited, Walk[j] <= x, x < NextAt(k) PROVE hdr[x].state = "free"
  <2>1. PICK i \in Steps : x = Walk[i]
    BY DEF Visited
  <2>2. i \in Nat /\ x \in Nat
    BY <1>1, <1>8, ChainPlaces, HeapUnitsNat DEF Steps
  <2>3. CASE i < j
    <3>1. Walk[i] <= Walk[j]
      BY <1>1, <1>3, <2>2, <2>3, WalkRises
    <3>2. x = Walk[j]
      BY <1>4, <1>8, <2>1, <2>2, <3>1
    <3> QED
      BY <3>2, <1>3 DEF IsFree
  <2>4. CASE i > k
    <3>1. Walk[k + 1] <= Walk[i]
      BY <1>1, <1>2, <1>3, <2>2, <2>4, WalkRises
    <3> QED
      BY <3>1, <1>6, <1>8, <2>1, <2>2
  <2>5. CASE i \in j..k
    BY <2>1, <2>5, <1>2 DEF IsFree
  <2> QED
    BY <2>2, <2>3, <2>4, <2>5, <1>2, <1>3
<1> QED
  BY <1>4, <1>7, <1>8 DEF j

(* Whichever way malloc finds a place, it gives a block there. *)
LEMMA MallocGives ==
    ASSUME ChainInv, NEW c \in Clients, NEW n \in Requests, Malloc(c, n)
    PROVE  \/ error' = "MEMORY_CORRUPTION" /\ UNCHANGED <<hdr, given, used_memory, pending>>
           \/ \E s : Gives(s, n) /\ Counts(c, [at |-> s, units |-> n])
<1>1. PICK k \in Steps :
        \/ /\ Corrupt(k)
           /\ error' = "MEMORY_CORRUPTION"
           /\ UNCHANGED <<hdr, given, used_memory, pending>>
        \/ /\ ~Corrupt(k) /\ Fits(k, n)
           /\ Take(Walk[k], hdr[Walk[k]].size, n)
           /\ Hand(c, Walk[k])
        \/ /\ ~Corrupt(k) /\ ~Fits(k, n) /\ (AtEnd(k) \/ IsLast(k))
           /\ Grow(Walk[k], n)
           /\ given' = given \union {[at |-> Walk[k], units |-> n]}
           /\ used_memory' = used_memory + n
           /\ UNCHANGED <<pending, error>>
        \/ /\ ~Corrupt(k) /\ ~Fits(k, n) /\ ~IsLast(k) /\ RunFits(k, n)
           /\ LET s == Walk[RunStart(k)] IN
              /\ Take(s, NextAt(k) - s, n)
              /\ Hand(c, s)
  BY DEF Malloc
<1>2. hdr \in [Slots -> Headers] /\ Chain(Visited, hdr) /\ Walk = WalkIn(hdr)
  BY WalkIsWalkIn DEF ChainInv
<1>3. Walk[k] \in Visited /\ Walk[k] \in Nat
  BY <1>2, ChainPlaces DEF Visited
<1>4. n \in Nat /\ 0 < n
  BY RequestsAre
<1>5. CASE /\ ~Corrupt(k) /\ Fits(k, n)
           /\ Take(Walk[k], hdr[Walk[k]].size, n)
           /\ Hand(c, Walk[k])
  <2> DEFINE s == Walk[k]
             e == NextAt(k)
  <2>1. IsFree(k) /\ hdr[s].size >= n
    BY <1>5 DEF Fits
  <2>2. /\ s \in Visited /\ s \in Nat /\ hdr[s].size \in Nat /\ e = s + hdr[s].size
        /\ e \in Visited /\ e > s
        /\ \A x \in Visited : x <= s \/ e <= x
        /\ hdr[s].state = "free"
    BY <2>1, FreeStep
  <2> HIDE DEF s, e
  <2>3. \A x \in Visited : (s <= x /\ x < e) => hdr[x].state = "free"
    <3> SUFFICES ASSUME NEW x \in Visited, s <= x, x < e PROVE x = s
      BY <2>2
    <3>1. x \in Nat
      BY <1>2, ChainPlaces
    <3> QED
      BY <2>2, <3>1
  <2>4. e - s = hdr[s].size /\ s < e /\ n <= e - s
    BY <2>1, <2>2, <1>4
  <2>5. Take(s, e - s, n) /\ Hand(c, s)
    BY <1>5, <2>4 DEF s
  <2> QED
    BY <2>2, <2>3, <2>4, <2>5, TakeGives
<1>6. CASE /\ ~Corrupt(k) /\ ~Fits(k, n) /\ (AtEnd(k) \/ IsLast(k))
           /\ Grow(Walk[k], n)
           /\ given' = given \union {[at |-> Walk[k], units |-> n]}
           /\ used_memory' = used_memory + n
           /\ UNCHANGED <<pending, error>>
  <2> DEFINE a == Walk[k]
  <2>1. a <= HeapUnits /\ hdr[a].state # "used"
        /\ \A x \in Visited : x > a => hdr[x].state = "none"
    <3>1. CASE AtEnd(k)
      <4>1. ~IsBlock(hdr[a])
        BY <3>1 DEF AtEnd
      <4>2. hdr[a].state # "used" /\ IsEnd(Visited, hdr, a)
        BY <4>1, <1>2, <1>3, ChainPlaces DEF IsBlock
      <4>3. a <= HeapUnits
        <5>1. CASE k = 0
          BY <5>1, <1>2, WalkStep, HeapUnitsNat
        <5>2. CASE k # 0
          BY <5>2, <1>3, <1>6, HeapUnitsNat DEF Corrupt, Steps
        <5> QED
          BY <5>1, <5>2
      <4>4. \A x \in Visited : ~(x > a)
        BY <1>2, <1>3, <4>2, ChainPlaces DEF IsEnd
      <4> QED
        BY <4>2, <4>3, <4>4
    <3>2. CASE IsLast(k)
      <4> DEFINE e == NextAt(k)
      <4>1. IsFree(k) /\ hdr[e].state = "none"
        BY <3>2 DEF IsLast
      <4>2. /\ a <= HeapUnits /\ hdr[a].state = "free" /\ e \in Visited
            /\ \A x \in Visited : x <= a \/ e <= x
        BY <4>1, FreeStep
      <4>3. \A x \in Visited : x <= e
        BY <4>1, <4>2, <1>2, ChainPlaces DEF IsLink, IsEnd, IsBlock
      <4> HIDE DEF e
      <4>4. \A x \in Visited : x > a => x = e
        BY <4>2, <4>3, <1>2, <1>3, ChainPlaces
      <4> QED
        BY <4>1, <4>2, <4>4
    <3> QED
      BY <3>1, <3>2, <1>6
  <2>2. Gives(a, n)
    BY <2>1, <1>3, <1>6, GrowGives
  <2>3. Counts(c, [at |-> a, units |-> n])
    BY <1>6 DEF Counts
  <2> QED
    BY <2>2, <2>3
<1>7. CASE /\ ~Corrupt(k) /\ ~Fits(k, n) /\ ~IsLast(k) /\ RunFits(k, n)
           /\ LET s == Walk[RunStart(k)] IN
              /\ Take(s, NextAt(k) - s, n)
              /\ Hand(c, s)
  <2> DEFINE s == Walk[RunStart(k)]
             e == NextAt(k)
  <2>1. IsFree(k) /\ e - s >= n
    BY <1>7 DEF RunFits
  <2>2. /\ s \in Visited /\ s \in Nat /\ s < e
        /\ \A x \in Visited : (s <= x /\ x < e) => hdr[x].state = "free"
    BY <2>1, RunIsFree
  <2>3. e \in Visited /\ e \in Nat
    BY <2>1, FreeStep
  <2>4. Take(s, e - s, n) /\ Hand(c, s)
    BY <1>7
  <2> HIDE DEF s, e
  <2>5. n <= e - s
    BY <2>1, <2>2, <2>3, <1>4
  <2> QED
    BY <2>2, <2>3, <2>4, <2>5, TakeGives
<1> QED
  BY <1>1, <1>5, <1>6, <1>7

-----------------------------------------------------------------------------
(* What callers have in hand, and what is counted. *)

LEMMA SumUnitsThen == SumUnits(Held)' = SumUnits(Held')
BY DEF SumUnits, MapThenSumSet, MapThenFoldSet

LEMMA CountThen ==
    ASSUME IsFiniteSet(given'), used_memory' = SumUnits(Held')
    PROVE  CountInv'
BY SumUnitsThen DEF CountInv

LEMMA HeldIs ==
    /\ \A b : b \in Held <=> (b \in given /\ \A c \in Clients : b \notin pending[c])
    /\ \A b : b \in Held' <=> (b \in given' /\ \A c \in Clients : b \notin pending'[c])
BY DEF Held

LEMMA HeldAreBlocks ==
    ASSUME ChainInv, IsFiniteSet(given)
    PROVE  Blocks(Held) /\ SumUnits(Held) \in Nat
<1>1. IsFiniteSet(Held)
  BY FS_Subset, HeldIs
<1>2. \A b \in Held : b.units \in Nat
  BY HeldIs, HeldBlocks
<1>3. Blocks(Held)
  BY <1>1, <1>2 DEF Blocks
<1>4. PICK f : AddsUp(f, Held)
  BY <1>3, AddsUpExists
<1> QED
  BY <1>3, <1>4, SumIs

\* A block is taken, and its caller was interrupted before it counted it.
LEMMA TakenPending ==
    ASSUME PendingInv, NEW c \in Clients, pending[c] = {}, NEW b, b \notin given,
           given' = given \union {b}, pending' = [pending EXCEPT ![c] = {b}]
    PROVE  PendingInv' /\ Held' = Held
<1>1. /\ pending' \in [Clients -> SUBSET given'] /\ pending'[c] = {b}
      /\ \A d \in Clients \ {c} : pending'[d] = pending[d]
      /\ \A d \in Clients : pending[d] \subseteq given
  BY DEF PendingInv
<1>2. \A d \in Clients : \A p, q \in pending'[d] : p = q
  BY <1>1 DEF PendingInv
<1>3. \A d, e \in Clients : d # e => pending'[d] \intersect pending'[e] = {}
  <2> SUFFICES ASSUME NEW d \in Clients, NEW e \in Clients, d # e, NEW x,
                      x \in pending'[d], x \in pending'[e]
               PROVE  FALSE
    OBVIOUS
  <2>1. CASE d = c
    BY <2>1, <1>1
  <2>2. CASE e = c
    BY <2>2, <1>1
  <2>3. CASE d # c /\ e # c
    BY <2>3, <1>1 DEF PendingInv
  <2> QED
    BY <2>1, <2>2, <2>3
<1>4. PendingInv'
  BY <1>1, <1>2, <1>3 DEF PendingInv
<1>5. ASSUME NEW x PROVE x \in Held' <=> x \in Held
  <2>1. CASE x = b
    BY <2>1, <1>1, HeldIs
  <2>2. CASE x # b
    <3>1. \A d \in Clients : x \in pending'[d] <=> x \in pending[d]
      BY <2>2, <1>1
    <3> QED
      BY <2>2, <3>1, HeldIs
  <2> QED
    BY <2>1, <2>2
<1> QED
  BY <1>4, <1>5

LEMMA GivenPending ==
    ASSUME PendingInv, NEW b, b \notin given,
           given' = given \union {b}, UNCHANGED pending
    PROVE  PendingInv' /\ Held' = Held \union {b} /\ b \notin Held
<1>1. PendingInv'
  BY DEF PendingInv
<1>2. \A d \in Clients : pending[d] \subseteq given
  BY DEF PendingInv
<1>3. ASSUME NEW x PROVE x \in Held' <=> x \in Held \union {b}
  BY <1>2, HeldIs
<1> QED
  BY <1>1, <1>3, HeldIs

LEMMA CountedPending ==
    ASSUME PendingInv, NEW c \in Clients, NEW b \in pending[c],
           UNCHANGED given, pending' = [pending EXCEPT ![c] = {}]
    PROVE  PendingInv' /\ Held' = Held \union {b} /\ b \notin Held /\ b \in given
<1>0. given' = given /\ b \in given
  <2>1. pending[c] \in SUBSET given
    BY DEF PendingInv
  <2> QED
    BY <2>1
<1>1. /\ pending' \in [Clients -> SUBSET given'] /\ pending'[c] = {}
      /\ \A d \in Clients \ {c} : pending'[d] = pending[d]
      /\ \A d \in Clients : pending[d] \subseteq given
  BY DEF PendingInv
<1>2. \A x \in pending[c] : x = b
  BY DEF PendingInv
<1>3. \A d \in Clients \ {c} : b \notin pending[d]
  BY DEF PendingInv
<1>4. \A d \in Clients : pending'[d] \subseteq pending[d]
  BY <1>1
<1>5. PendingInv'
  <2>1. \A d \in Clients : \A p, q \in pending'[d] : p = q
    BY <1>4 DEF PendingInv
  <2>2. ASSUME NEW d \in Clients, NEW e \in Clients, d # e
        PROVE  pending'[d] \intersect pending'[e] = {}
    <3>1. pending[d] \intersect pending[e] = {}
      BY <2>2 DEF PendingInv
    <3> QED
      BY <3>1, <1>4
  <2> QED
    BY <1>1, <2>1, <2>2 DEF PendingInv
<1>6. ASSUME NEW x PROVE x \in Held' <=> x \in Held \union {b}
  <2>1. CASE x = b
    <3>1. \A d \in Clients : b \notin pending'[d]
      BY <1>1, <1>3
    <3>2. b \in given'
      BY <1>0
    <3>3. b \in Held'
      BY <3>1, <3>2, HeldIs
    <3> QED
      BY <2>1, <3>3
  <2>2. CASE x # b
    <3>1. \A d \in Clients : x \in pending'[d] <=> x \in pending[d]
      BY <2>2, <1>1, <1>2
    <3> QED
      BY <2>2, <3>1, HeldIs
  <2> QED
    BY <2>1, <2>2
<1> QED
  BY <1>1, <1>5, <1>6, HeldIs

LEMMA ReleasedPending ==
    ASSUME PendingInv, NEW b \in Held, given' = given \ {b}, UNCHANGED pending
    PROVE  PendingInv' /\ Held' = Held \ {b}
<1>1. \A d \in Clients : pending[d] \subseteq given /\ b \notin pending[d]
  BY HeldIs DEF PendingInv
<1>2. pending' \in [Clients -> SUBSET given']
  <2>1. \A d \in Clients : pending[d] \in SUBSET given'
    BY <1>1
  <2>2. pending = [d \in Clients |-> pending[d]]
    BY DEF PendingInv
  <2> QED
    BY <2>1, <2>2
<1>3. PendingInv'
  BY <1>2 DEF PendingInv
<1>4. ASSUME NEW x PROVE x \in Held' <=> x \in Held \ {b}
  BY <1>1, HeldIs
<1> QED
  BY <1>3, <1>4

-----------------------------------------------------------------------------
(* Each action keeps the invariant. *)

LEMMA MallocKeepsInv ==
    ASSUME HeapInv, NEW c \in Clients, NEW n \in Requests, Malloc(c, n)
    PROVE  HeapInv'
<1>0. ChainInv /\ PendingInv /\ CountInv /\ pending[c] = {}
  BY DEF HeapInv, Malloc
<1>1. CASE error' = "MEMORY_CORRUPTION" /\ UNCHANGED <<hdr, given, used_memory, pending>>
  <2>1. ChainInv'
    BY <1>0, <1>1, ChainInvSame
  <2>2. PendingInv' /\ Held' = Held
    BY <1>0, <1>1 DEF PendingInv, Held
  <2>3. CountInv'
    BY <1>0, <1>1, <2>2, CountThen DEF CountInv
  <2> QED
    BY <1>1, <2>1, <2>2, <2>3 DEF HeapInv
<1>2. ASSUME NEW s, Gives(s, n), Counts(c, [at |-> s, units |-> n]) PROVE HeapInv'
  <2> DEFINE b == [at |-> s, units |-> n]
  <2>1. /\ b \notin given /\ given' = given \union {b} /\ ChainInv' /\ UNCHANGED error
        /\ b.units = n /\ n \in Nat
    BY <1>2, RequestsAre DEF Gives
  <2>2. \/ pending' = [pending EXCEPT ![c] = {b}] /\ UNCHANGED used_memory
        \/ used_memory' = used_memory + n /\ UNCHANGED pending
    BY <1>2 DEF Counts
  <2> HIDE DEF b
  <2>3. IsFiniteSet(given')
    BY <1>0, <2>1, FS_AddElement DEF CountInv
  <2>4. CASE pending' = [pending EXCEPT ![c] = {b}] /\ UNCHANGED used_memory
    <3>1. PendingInv' /\ Held' = Held
      BY <1>0, <2>1, <2>4, TakenPending
    <3>2. CountInv'
      BY <1>0, <2>3, <2>4, <3>1, CountThen DEF CountInv
    <3> QED
      BY <2>1, <3>1, <3>2 DEF HeapInv
  <2>5. CASE used_memory' = used_memory + n /\ UNCHANGED pending
    <3>1. PendingInv' /\ Held' = Held \union {b} /\ b \notin Held
      BY <1>0, <2>1, <2>5, GivenPending
    <3>2. Blocks(Held)
      BY <1>0, HeldAreBlocks DEF CountInv
    <3>3. SumUnits(Held \union {b}) = SumUnits(Held) + b.units
      BY <2>1, <3>1, <3>2, SumAdd
    <3>4. used_memory' = SumUnits(Held')
      BY <1>0, <2>1, <2>5, <3>1, <3>3 DEF CountInv
    <3>5. CountInv'
      BY <2>3, <3>4, CountThen
    <3> QED
      BY <2>1, <3>1, <3>5 DEF HeapInv
  <2> QED
    BY <2>2, <2>4, <2>5
<1> QED
  BY <1>0, <1>1, <1>2, MallocGives

LEMMA CountUsedKeepsInv ==
    ASSUME HeapInv, NEW c \in Clients, CountUsed(c)
    PROVE  HeapInv'
<1>0. ChainInv /\ PendingInv /\ CountInv
  BY DEF HeapInv
<1>1. PICK b \in pending[c] : used_memory' = used_memory + hdr[b.at].size
  BY DEF CountUsed
<1>2. UNCHANGED <<hdr, given, error>> /\ pending' = [pending EXCEPT ![c] = {}]
  BY DEF CountUsed
<1>3. PendingInv' /\ Held' = Held \union {b} /\ b \notin Held /\ b \in given
  BY <1>0, <1>2, CountedPending
<1>4. hdr[b.at].size = b.units /\ b.units \in Nat
  BY <1>0, <1>3, HeldBlocks
<1>5. Blocks(Held)
  BY <1>0, HeldAreBlocks DEF CountInv
<1>6. SumUnits(Held \union {b}) = SumUnits(Held) + b.units
  BY <1>3, <1>4, <1>5, SumAdd
<1>7. used_memory' = SumUnits(Held')
  BY <1>0, <1>1, <1>3, <1>4, <1>6 DEF CountInv
<1>8. CountInv'
  BY <1>0, <1>2, <1>7, CountThen DEF CountInv
<1>9. ChainInv'
  BY <1>0, <1>2, ChainInvSame
<1> QED
  BY <1>2, <1>3, <1>8, <1>9 DEF HeapInv

\* What free does to the chain.
LEMMA ReleaseChain ==
    ASSUME ChainInv, NEW b \in given, Release(b)
    PROVE  ChainInv' /\ Keeps(given, hdr, hdr')
<1>1. hdr \in [Slots -> Headers] /\ Chain(Visited, hdr) /\ given = UsedIn(Visited, hdr)
  BY DEF ChainInv
<1>2. b.at \in UsedPlaces(Visited, hdr) /\ b = [at |-> b.at, units |-> hdr[b.at].size]
  BY HeldBlocks
<1>3. hdr' = Freed(hdr, b.at) /\ given' = given \ {b}
  BY DEF Release, Freed
<1> DEFINE D == FreedChain(Visited, hdr, b.at)
<1>4. hdr' \in [Slots -> Headers] /\ Chain(D, hdr') /\ UsedIn(D, hdr') = given \ {b}
  BY <1>1, <1>2, <1>3, FreeChain
<1> HIDE DEF D
<1>5. \A d \in given' : d.units \in 2..HeapUnits
  BY <1>3 DEF ChainInv
<1>6. ChainInv'
  BY <1>3, <1>4, <1>5, ChainInvThen
<1>7. Keeps(given, hdr, hdr')
  BY <1>1, <1>2, <1>3, FreeKeeps
<1> QED
  BY <1>6, <1>7

LEMMA ReleaseKeepsInv ==
    ASSUME HeapInv, NEW b \in Held, Release(b)
    PROVE  HeapInv'
<1>0. ChainInv /\ PendingInv /\ CountInv /\ b \in given
  BY HeldIs DEF HeapInv
<1>1. /\ given' = given \ {b} /\ UNCHANGED <<pending, error>>
      /\ used_memory' = used_memory - hdr[b.at].size
  BY DEF Release
<1>2. ChainInv'
  BY <1>0, ReleaseChain
<1>3. PendingInv' /\ Held' = Held \ {b}
  BY <1>0, <1>1, ReleasedPending
<1>4. hdr[b.at].size = b.units
  BY <1>0, HeldBlocks
<1>5. Blocks(Held)
  BY <1>0, HeldAreBlocks DEF CountInv
<1>6. SumUnits(Held \ {b}) = SumUnits(Held) - b.units
  BY <1>5, SumRemove
<1>7. used_memory' = SumUnits(Held')
  BY <1>0, <1>1, <1>3, <1>4, <1>6 DEF CountInv
<1>8. IsFiniteSet(given')
  BY <1>0, <1>1, FS_RemoveElement DEF CountInv
<1>9. CountInv'
  BY <1>7, <1>8, CountThen
<1> QED
  BY <1>1, <1>2, <1>3, <1>9 DEF HeapInv

\* What a caller's own writing does to the chain.
LEMMA WritesChain ==
    ASSUME ChainInv, NEW b \in given, NEW g \in Garbage, Write(b, g)
    PROVE  ChainInv' /\ Keeps(given \ {b}, hdr, hdr')
<1>1. hdr \in [Slots -> Headers] /\ Chain(Visited, hdr) /\ given = UsedIn(Visited, hdr)
      /\ g \in Headers
  BY GarbageHeaders DEF ChainInv
<1>2. hdr' = Written(hdr, b, g) /\ given' = given
  BY DEF Write, Written
<1>3. hdr' \in [Slots -> Headers] /\ Chain(Visited, hdr') /\ UsedIn(Visited, hdr') = given
  BY <1>1, <1>2, WriteChain
<1>4. \A d \in given' : d.units \in 2..HeapUnits
  BY <1>2 DEF ChainInv
<1>5. ChainInv'
  BY <1>2, <1>3, <1>4, ChainInvThen
<1>6. Keeps(given \ {b}, hdr, hdr')
  BY <1>1, <1>2, WriteKeeps
<1> QED
  BY <1>5, <1>6

LEMMA WriteKeepsInv ==
    ASSUME HeapInv, NEW b \in Held, NEW g \in Garbage, Write(b, g)
    PROVE  HeapInv'
<1>0. ChainInv /\ PendingInv /\ CountInv /\ b \in given
  BY HeldIs DEF HeapInv
<1>1. UNCHANGED <<given, used_memory, pending, error>>
  BY DEF Write
<1>2. ChainInv'
  BY <1>0, WritesChain
<1>3. PendingInv' /\ Held' = Held
  BY <1>0, <1>1 DEF PendingInv, Held
<1>4. CountInv'
  BY <1>0, <1>1, <1>3, CountThen DEF CountInv
<1> QED
  BY <1>1, <1>2, <1>3, <1>4 DEF HeapInv

LEMMA StutterKeepsInv ==
    ASSUME HeapInv, UNCHANGED vars
    PROVE  HeapInv'
<1>0. ChainInv /\ PendingInv /\ CountInv /\ UNCHANGED <<hdr, given, used_memory, pending, error>>
  BY DEF HeapInv, vars
<1>1. ChainInv'
  BY <1>0, ChainInvSame
<1>2. PendingInv' /\ Held' = Held
  BY <1>0 DEF PendingInv, Held
<1>3. CountInv'
  BY <1>0, <1>2, CountThen DEF CountInv
<1> QED
  BY <1>0, <1>1, <1>2, <1>3 DEF HeapInv

LEMMA InitHeapInv == Init => HeapInv
<1> SUFFICES ASSUME Init PROVE HeapInv
  OBVIOUS
<1> DEFINE C == {0, 2}
           b == [at |-> 0, units |-> 2]
<1>1. PICK g \in Garbage :
        hdr = [a \in Slots |-> CASE a = 0 -> Used(2) [] a \in {2, 3} -> None [] OTHER -> g]
  BY DEF Init
<1>2. 0 \in Slots /\ 2 \in Slots /\ 3 \in Slots
  BY HeapUnitsNat DEF Slots
<1>3. Used(2) \in Headers /\ None \in Headers /\ g \in Headers
  BY GarbageHeaders DEF Used, None, Headers, HeaderStates
<1>4. hdr[0] = Used(2) /\ hdr[2] = None
  BY <1>1, <1>2
<1>5. hdr \in [Slots -> Headers]
  BY <1>1, <1>3
<1>6. Chain(C, hdr)
  <2>1. IsLink(C, hdr, 0)
    BY <1>4, HeapUnitsNat DEF IsLink, IsBlock, Used
  <2>2. IsEnd(C, hdr, 2)
    BY <1>4 DEF IsEnd, None
  <2>3. C \subseteq 0..(2 * HeapUnits)
    BY HeapUnitsNat
  <2> QED
    BY <2>1, <2>2, <2>3 DEF Chain
<1>7. UsedIn(C, hdr) = {b}
  <2>1. UsedPlaces(C, hdr) = {0}
    BY <1>4, HeapUnitsNat DEF UsedPlaces, Used, None
  <2>2. hdr[0].size = 2
    BY <1>4 DEF Used
  <2> QED
    BY <2>1, <2>2 DEF UsedIn
<1>8. Visited = C
  BY <1>5, <1>6, VisitedIs
<1>9. given = {b} /\ pending = [c \in Clients |-> {}] /\ used_memory = 2 /\ error = "none"
  BY DEF Init
<1>10. b.units = 2
  OBVIOUS
<1> HIDE DEF b, C
<1>11. ChainInv
  BY <1>5, <1>6, <1>7, <1>8, <1>9, <1>10, HeapUnitsNat DEF ChainInv
<1>12. PendingInv /\ Held = {b}
  BY <1>9 DEF PendingInv, Held
<1>13. SumUnits({b}) = 2 /\ IsFiniteSet({b})
  <2>1. Blocks({}) /\ SumUnits({}) = 0
    BY SumEmpty, FS_EmptySet DEF Blocks
  <2>2. SumUnits({} \union {b}) = SumUnits({}) + b.units
    BY <2>1, <1>10, SumAdd
  <2>3. {} \union {b} = {b}
    OBVIOUS
  <2>4. SumUnits({b}) = 0 + 2
    BY <2>1, <2>2, <2>3, <1>10
  <2> QED
    BY <2>4, FS_Singleton
<1> QED
  BY <1>9, <1>11, <1>12, <1>13 DEF HeapInv, CountInv

LEMMA NextKeepsInv == HeapInv /\ [Next]_vars => HeapInv'
<1> SUFFICES ASSUME HeapInv, [Next]_vars PROVE HeapInv'
  OBVIOUS
<1>1. CASE \E c \in Clients, n \in Requests : Malloc(c, n)
  BY <1>1, MallocKeepsInv
<1>2. CASE \E c \in Clients : CountUsed(c)
  BY <1>2, CountUsedKeepsInv
<1>3. CASE \E b \in Held : b.at # 0 /\ Release(b)
  BY <1>3, ReleaseKeepsInv
<1>4. CASE \E b \in Held, g \in Garbage : Write(b, g)
  BY <1>4, WriteKeepsInv
<1>5. CASE UNCHANGED vars
  BY <1>5, StutterKeepsInv
<1> QED
  BY <1>1, <1>2, <1>3, <1>4, <1>5 DEF Next

LEMMA SpecHeapInv == Spec => []HeapInv
<1> QED
  BY InitHeapInv, NextKeepsInv, PTL DEF Spec

-----------------------------------------------------------------------------
(* The theorems. *)

(* Every place a header may be holds a header, blocks begin within the heap and are
   as long as a request, and used_memory, which free takes from, never falls below
   zero (memory/memory.c). *)
THEOREM TypeCorrect == Spec => []TypeOK
<1>1. HeapInv => TypeOK
  <2> SUFFICES ASSUME HeapInv PROVE TypeOK
    OBVIOUS
  <2>1. ChainInv /\ PendingInv /\ CountInv /\ error \in {"none", "MEMORY_CORRUPTION"}
    BY DEF HeapInv
  <2>2. \A b \in given : b.at \in 0..HeapUnits /\ b.units \in 2..HeapUnits
    BY <2>1, HeldBlocks
  <2>3. used_memory \in Nat
    BY <2>1, HeldAreBlocks DEF CountInv
  <2> QED
    BY <2>1, <2>2, <2>3 DEF TypeOK, ChainInv, PendingInv
<1> QED
  BY <1>1, SpecHeapInv, PTL

(* In a heap of any size, whatever is requested, split, merged, freed and written, and
   whatever the last boot left in memory, malloc's walk finds exactly the blocks that
   callers hold, and ends in a zero header (malloc, free, split, destroy). *)
THEOREM ChainStaysHeld == Spec => []ChainIsHeld
<1>1. HeapInv => ChainIsHeld
  <2> SUFFICES ASSUME ChainInv PROVE ChainIsHeld
    BY DEF HeapInv
  <2>1. hdr \in [Slots -> Headers] /\ Chain(Visited, hdr) /\ given = UsedIn(Visited, hdr)
    BY DEF ChainInv
  <2>2. IsEnd(Visited, hdr, Walk[HeapUnits + 1])
    BY <2>1, WalkEnds, WalkIsWalkIn
  <2> QED
    BY <2>1, <2>2 DEF ChainIsHeld, UsedIn, UsedPlaces, IsEnd
<1> QED
  BY <1>1, SpecHeapInv, PTL

(* used_memory is the sum of the blocks in hand, for any number of callers interrupted
   between interrupts_restore and the addition (malloc, free). *)
THEOREM UsedMemoryStaysExact == Spec => []UsedMemoryExact
<1>1. HeapInv => UsedMemoryExact
  BY DEF HeapInv, CountInv, UsedMemoryExact, SumUnits
<1> QED
  BY <1>1, SpecHeapInv, PTL

(* What a caller keeps in its block is its own: no malloc, free or write of another
   caller changes it (malloc's clearing, split, destroy). *)
THEOREM DataStays == Spec => DataKept
<1> DEFINE Kept ==
      \A b \in given \intersect given' :
         \/ \A x \in (b.at + 1)..(b.at + b.units - 1) : hdr'[x] = hdr[x]
         \/ \E g \in Garbage : Write(b, g)
<1>1. HeapInv /\ [Next]_vars => [Kept]_vars
  <2> SUFFICES ASSUME HeapInv, Next PROVE Kept
    OBVIOUS
  <2>0. ChainInv
    BY DEF HeapInv
  <2>1. Keeps(given, hdr, hdr') => Kept
    BY DEF Keeps, Inside
  <2>2. CASE \E c \in Clients, n \in Requests : Malloc(c, n)
    <3>1. PICK c \in Clients, n \in Requests : Malloc(c, n)
      BY <2>2
    <3>2. CASE UNCHANGED hdr
      BY <3>2
    <3>3. CASE \E s : Gives(s, n)
      BY <3>3, <2>1 DEF Gives
    <3> QED
      BY <2>0, <3>1, <3>2, <3>3, MallocGives
  <2>3. CASE \E c \in Clients : CountUsed(c)
    BY <2>3 DEF CountUsed
  <2>4. CASE \E b \in Held : b.at # 0 /\ Release(b)
    BY <2>0, <2>1, <2>4, HeldIs, ReleaseChain
  <2>5. CASE \E b \in Held, g \in Garbage : Write(b, g)
    <3>1. PICK b \in Held, g \in Garbage : Write(b, g)
      BY <2>5
    <3>2. Keeps(given \ {b}, hdr, hdr')
      BY <2>0, <3>1, HeldIs, WritesChain
    <3>3. ASSUME NEW d \in given \intersect given', d # b
          PROVE  \A x \in (d.at + 1)..(d.at + d.units - 1) : hdr'[x] = hdr[x]
      BY <3>2, <3>3 DEF Keeps, Inside
    <3> QED
      BY <3>1, <3>3
  <2> QED
    BY <2>2, <2>3, <2>4, <2>5 DEF Next
<1> QED
  BY <1>1, SpecHeapInv, PTL DEF Spec, DataKept

(* malloc and free keep an allocator's promise: a block given shares no unit with one
   that is held, and a block is held until it is given back. *)
THEOREM HeapImplementsAllocator == Spec => HeapIsAllocator
<1>1. HeapInv => Promise!AllocatorInit
  <2> SUFFICES ASSUME ChainInv PROVE Promise!Apart(given)
    BY DEF HeapInv, Promise!AllocatorInit
  <2> QED
    BY UsedApart DEF ChainInv, Promise!Apart
<1>2. HeapInv /\ HeapInv' /\ [Next]_vars => [Promise!Grant \/ Promise!Release]_given
  <2> SUFFICES ASSUME HeapInv, HeapInv', Next
               PROVE  Promise!Grant \/ Promise!Release \/ UNCHANGED given
    BY DEF vars
  <2>0. ChainInv /\ ChainInv'
    BY DEF HeapInv
  <2>1. CASE \E c \in Clients, n \in Requests : Malloc(c, n)
    <3>1. PICK c \in Clients, n \in Requests : Malloc(c, n)
      BY <2>1
    <3>2. ASSUME NEW s, Gives(s, n) PROVE Promise!Grant
      <4> DEFINE b == [at |-> s, units |-> n]
      <4>1. b \in given' \ given /\ given' = given \union {b} /\ b.units >= 2
        BY <3>2, RequestsAre DEF Gives
      <4>2. Chain(Visited', hdr') /\ hdr' \in [Slots -> Headers] /\ given' = UsedIn(Visited', hdr')
        <5>1. Chain(Visited, hdr)' = Chain(Visited', hdr')
          BY DEF Chain, IsEnd, IsLink, IsBlock
        <5>2. UsedIn(Visited, hdr)' = UsedIn(Visited', hdr')
          BY DEF UsedIn, UsedPlaces
        <5> QED
          BY <2>0, <5>1, <5>2 DEF ChainInv
      <4> HIDE DEF b
      <4>3. ASSUME NEW d \in given PROVE Promise!Units(b) \intersect Promise!Units(d) = {}
        <5>1. d \in given' /\ b \in given' /\ b # d
          BY <4>1
        <5> QED
          BY <5>1, <4>2, UsedApart
      <4> QED
        BY <4>1, <4>3 DEF Promise!Grant
    <3> QED
      BY <2>0, <3>1, <3>2, MallocGives
  <2>2. CASE \E c \in Clients : CountUsed(c)
    BY <2>2 DEF CountUsed
  <2>3. CASE \E b \in Held : b.at # 0 /\ Release(b)
    BY <2>3, HeldIs DEF Release, Promise!Release
  <2>4. CASE \E b \in Held, g \in Garbage : Write(b, g)
    BY <2>4 DEF Write
  <2> QED
    BY <2>1, <2>2, <2>3, <2>4 DEF Next
<1> QED
  BY <1>1, <1>2, SpecHeapInv, PTL DEF Spec, HeapIsAllocator, Promise!AllocatorSpec
=============================================================================
