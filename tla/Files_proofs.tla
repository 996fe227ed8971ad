---------------------------- MODULE Files_proofs ----------------------------
(***************************************************************************)
(* Theorems about module Files, for disks of any size, any number of FAT   *)
(* drives, any paths and any sequence of starts and calls: what the FAT    *)
(* driver's loops leave of a disk, and what a walk leaves of the nodes it  *)
(* shares with other walks and with descriptors.                           *)
(***************************************************************************)
EXTENDS Files, TLAPS, WellFoundedInduction, FiniteSetTheorems

-----------------------------------------------------------------------------
(* Induction over a set of naturals, without an operator parameter. *)

LEMMA LeastOfNaturals ==
    ASSUME NEW S \in SUBSET Nat, S # {}
    PROVE  \E m \in S : \A x \in S : m <= x
<1> DEFINE R == OpToRel(<, Nat)
<1>1. \A x, y \in Nat : <<y, x>> \in R <=> y < x
  BY DEF OpToRel
<1>2. IsWellFoundedOn(R, Nat)
  BY NatLessThanWellFounded
<1> HIDE DEF R
<1>3. PICK n \in S : \A y \in S : ~(<<y, n>> \in R)
  BY <1>2, WFMin
<1>4. ASSUME NEW x \in S PROVE n <= x
  <2>1. x \in Nat /\ n \in Nat
    OBVIOUS
  <2>2. ~(x < n)
    BY <1>1, <1>3, <2>1
  <2> QED
    BY <2>1, <2>2
<1> QED
  BY <1>4

\* A set that holds 0 and, with a number below N, the next one, holds 0..N.
LEMMA StepByStep ==
    ASSUME NEW N \in Nat, NEW T, 0 \in T, \A i \in 1 .. N : i - 1 \in T => i \in T
    PROVE  \A i \in 0 .. N : i \in T
<1> DEFINE D == {i \in 0 .. N : i \notin T}
<1> SUFFICES ASSUME D # {} PROVE FALSE
  OBVIOUS
<1>1. D \in SUBSET Nat
  OBVIOUS
<1>2. PICK m \in D : \A x \in D : m <= x
  BY <1>1, LeastOfNaturals
<1>3. m \in 1 .. N /\ m \notin T
  BY <1>2
<1>4. m - 1 \in T
  BY <1>2, <1>3
<1> QED
  BY <1>3, <1>4

-----------------------------------------------------------------------------
(* The loops. What turn i of the loop k makes of x: *)

Turn(k, x, i) ==
    CASE k.loop = "seek"   -> SeekTurn(x)
      [] k.loop = "free"   -> FreeTurn(x)
      [] k.loop = "fill"   -> FillTurn(x)
      [] k.loop = "tokens" -> AddToken(x, k.path[i])
      [] k.loop = "walk"   -> Step(x, k.tokens[i], k.freeing)
      [] k.loop = "mount"  -> MountNext(x, i - 1)
      [] k.loop = "tree"   -> Deeper(k.d, x)
      [] k.loop = "copy"   -> CopyTurn(k.d, x)

Goes(f, k, N, x) == f = [i \in 0 .. N |-> IF i = 0 THEN x ELSE Turn(k, f[i - 1], i)]

\* Its course, turn for turn, is a function.
LEMMA LoopExists ==
    ASSUME NEW k, NEW N \in Nat, NEW x
    PROVE  \E f : Goes(f, k, N, x)
<1> DEFINE T == {n \in Nat : \E f : Goes(f, k, n, x)}
<1>1. 0 \in T
  <2> DEFINE f == [i \in 0 .. 0 |-> x]
  <2>1. f = [i \in 0 .. 0 |-> IF i = 0 THEN x ELSE Turn(k, f[i - 1], i)]
    OBVIOUS
  <2> HIDE DEF f
  <2> QED
    BY <2>1 DEF Goes
<1>2. ASSUME NEW n \in 1 .. N, n - 1 \in T PROVE n \in T
  <2>1. PICK f : Goes(f, k, n - 1, x)
    BY <1>2
  <2>2. \A i \in 0 .. n - 1 : f[i] = IF i = 0 THEN x ELSE Turn(k, f[i - 1], i)
    BY <2>1 DEF Goes
  <2> DEFINE g == [i \in 0 .. n |-> IF i = n THEN Turn(k, f[n - 1], n) ELSE f[i]]
  <2>3. ASSUME NEW i \in 0 .. n PROVE g[i] = IF i = 0 THEN x ELSE Turn(k, g[i - 1], i)
    <3>1. CASE i = 0
      BY <3>1, <2>2
    <3>2. CASE i \in 1 .. n - 1
      <4>1. g[i] = f[i] /\ g[i - 1] = f[i - 1]
        BY <3>2
      <4> QED
        BY <4>1, <3>2, <2>2
    <3>3. CASE i = n
      <4>1. g[i] = Turn(k, f[n - 1], n) /\ g[i - 1] = f[n - 1] /\ i # 0
        BY <3>3
      <4> QED
        BY <4>1, <3>3
    <3> QED
      BY <3>1, <3>2, <3>3
  <2>4. g = [i \in 0 .. n |-> g[i]]
    OBVIOUS
  <2> HIDE DEF g
  <2>5. Goes(g, k, n, x)
    BY <2>3, <2>4 DEF Goes
  <2> QED
    BY <2>5
<1> HIDE DEF T
<1>3. N \in T
  BY <1>1, <1>2, StepByStep
<1> QED
  BY <1>3 DEF T

\* So the loop's value is the last of values that begin with x and go on by Turn.
LEMMA LoopRuns ==
    ASSUME NEW k, NEW N \in Nat, NEW x, NEW f, Goes(f, k, N, x)
    PROVE  f[0] = x /\ \A i \in 1 .. N : f[i] = Turn(k, f[i - 1], i)
<1>1. \A i \in 0 .. N : f[i] = IF i = 0 THEN x ELSE Turn(k, f[i - 1], i)
  BY DEF Goes
<1>2. f[0] = x
  BY <1>1
<1>3. ASSUME NEW i \in 1 .. N PROVE f[i] = Turn(k, f[i - 1], i)
  BY <1>1
<1> QED
  BY <1>2, <1>3

LEMMA SeekRuns ==
    ASSUME NEW h, NEW c, NEW off
    PROVE  \E f : /\ f[0] = [h |-> h, c |-> c, off |-> off]
                  /\ \A i \in 1 .. LastCluster : f[i] = SeekTurn(f[i - 1])
                  /\ Seek(h, c, off) = f[LastCluster]
<1> DEFINE k == [loop |-> "seek"]
           x == [h |-> h, c |-> c, off |-> off]
           N == LastCluster
           f == CHOOSE f : f = [i \in 0 .. N |-> IF i = 0 THEN x ELSE SeekTurn(f[i - 1])]
<1>1. \A y, i : Turn(k, y, i) = SeekTurn(y)
  BY DEF Turn
<1>2. Seek(h, c, off) = f[N]
  BY DEF Seek, After
<1>3. N \in Nat
  BY GeometryAssumption
<1> HIDE DEF x, k, N
<1>4. f = CHOOSE g : Goes(g, k, N, x)
  BY <1>1 DEF Goes
<1> HIDE DEF f
<1>5. Goes(f, k, N, x)
  BY <1>3, <1>4, LoopExists
<1>6. f[0] = x /\ \A i \in 1 .. N : f[i] = Turn(k, f[i - 1], i)
  BY <1>3, <1>5, LoopRuns
<1> QED
  BY <1>1, <1>2, <1>6 DEF x, N

LEMMA FreeRuns ==
    ASSUME NEW h, NEW c
    PROVE  \E f : /\ f[0] = [h |-> h, c |-> c]
                  /\ \A i \in 1 .. LastCluster : f[i] = FreeTurn(f[i - 1])
                  /\ FreeRest(h, c) = f[LastCluster].h
<1> DEFINE k == [loop |-> "free"]
           x == [h |-> h, c |-> c]
           N == LastCluster
           f == CHOOSE f : f = [i \in 0 .. N |-> IF i = 0 THEN x ELSE FreeTurn(f[i - 1])]
<1>1. \A y, i : Turn(k, y, i) = FreeTurn(y)
  BY DEF Turn
<1>2. FreeRest(h, c) = f[N].h
  BY DEF FreeRest, After
<1>3. N \in Nat
  BY GeometryAssumption
<1> HIDE DEF x, k, N
<1>4. f = CHOOSE g : Goes(g, k, N, x)
  BY <1>1 DEF Goes
<1> HIDE DEF f
<1>5. Goes(f, k, N, x)
  BY <1>3, <1>4, LoopExists
<1>6. f[0] = x /\ \A i \in 1 .. N : f[i] = Turn(k, f[i - 1], i)
  BY <1>3, <1>5, LoopRuns
<1> QED
  BY <1>1, <1>2, <1>6 DEF x, N

LEMMA FillRuns ==
    ASSUME NEW s, NEW input \in Inputs
    PROVE  \E f : /\ f[0] = [h |-> s.h, c |-> s.c, off |-> s.off, left |-> input, done |-> FALSE]
                  /\ \A i \in 1 .. Len(input) + 2 : f[i] = FillTurn(f[i - 1])
                  /\ Fill(s, input) = f[Len(input) + 2].h
<1> DEFINE k == [loop |-> "fill"]
           x == [h |-> s.h, c |-> s.c, off |-> s.off, left |-> input, done |-> FALSE]
           N == Len(input) + 2
           f == CHOOSE f : f = [i \in 0 .. N |-> IF i = 0 THEN x ELSE FillTurn(f[i - 1])]
<1>1. \A y, i : Turn(k, y, i) = FillTurn(y)
  BY DEF Turn
<1>2. Fill(s, input) = f[N].h
  BY DEF Fill, After
<1>3. N \in Nat
  <2>1. input \in Seq(ToSet(input))
    BY FilesAssumption
  <2> QED
    BY <2>1
<1> HIDE DEF x, k, N
<1>4. f = CHOOSE g : Goes(g, k, N, x)
  BY <1>1 DEF Goes
<1> HIDE DEF f
<1>5. Goes(f, k, N, x)
  BY <1>3, <1>4, LoopExists
<1>6. f[0] = x /\ \A i \in 1 .. N : f[i] = Turn(k, f[i - 1], i)
  BY <1>3, <1>5, LoopRuns
<1> QED
  BY <1>1, <1>2, <1>6 DEF x, N

LEMMA CopyRuns ==
    ASSUME NEW d, NEW c, NEW len, NEW size
    PROVE  \E f : /\ f[0] = [c |-> c, len |-> len, size |-> size, got |-> << >>]
                  /\ \A i \in 1 .. LastCluster : f[i] = CopyTurn(d, f[i - 1])
                  /\ Copy(d, c, len, size) = f[LastCluster].got
<1> DEFINE k == [loop |-> "copy", d |-> d]
           x == [c |-> c, len |-> len, size |-> size, got |-> << >>]
           N == LastCluster
           f == CHOOSE f : f = [i \in 0 .. N |-> IF i = 0 THEN x ELSE CopyTurn(d, f[i - 1])]
<1>1. \A y, i : Turn(k, y, i) = CopyTurn(d, y)
  BY DEF Turn
<1>2. Copy(d, c, len, size) = f[N].got
  BY DEF Copy, After
<1>3. N \in Nat
  BY GeometryAssumption
<1> HIDE DEF x, k, N
<1>4. f = CHOOSE g : Goes(g, k, N, x)
  BY <1>1 DEF Goes
<1> HIDE DEF f
<1>5. Goes(f, k, N, x)
  BY <1>3, <1>4, LoopExists
<1>6. f[0] = x /\ \A i \in 1 .. N : f[i] = Turn(k, f[i - 1], i)
  BY <1>3, <1>5, LoopRuns
<1> QED
  BY <1>1, <1>2, <1>6 DEF x, N

LEMMA WalkRuns ==
    ASSUME NEW h, NEW tokens, NEW N \in Nat, NEW freeing
    PROVE  \E f : /\ f[0] = Fresh(h, Start)
                  /\ \A i \in 1 .. N : f[i] = Step(f[i - 1], tokens[i], freeing)
                  /\ Walk(h, tokens, N, freeing) = f[N]
<1> DEFINE k == [loop |-> "walk", tokens |-> tokens, freeing |-> freeing]
           x == Fresh(h, Start)
           f == CHOOSE f : f = [i \in 0 .. N |-> IF i = 0 THEN x ELSE Step(f[i - 1], tokens[i], freeing)]
<1>1. \A y, i : Turn(k, y, i) = Step(y, tokens[i], freeing)
  BY DEF Turn
<1>3. Walk(h, tokens, N, freeing) = f[N]
  BY DEF Walk
<1> HIDE DEF x, k
<1>2. f = CHOOSE g : Goes(g, k, N, x)
  BY <1>1 DEF Goes
<1> HIDE DEF f
<1>4. Goes(f, k, N, x)
  BY <1>2, LoopExists
<1>5. f[0] = x /\ \A i \in 1 .. N : f[i] = Turn(k, f[i - 1], i)
  BY <1>4, LoopRuns
<1> QED
  BY <1>1, <1>3, <1>5 DEF x

LEMMA MountRuns ==
    ASSUME NEW x, NEW N \in Nat
    PROVE  \E f : /\ f[0] = x /\ \A i \in 1 .. N : f[i] = MountNext(f[i - 1], i - 1)
                  /\ MountFrom(x, N) = f[N]
<1> DEFINE k == [loop |-> "mount"]
           f == CHOOSE f : f = [i \in 0 .. N |-> IF i = 0 THEN x ELSE MountNext(f[i - 1], i - 1)]
<1>1. \A y, i : Turn(k, y, i) = MountNext(y, i - 1)
  BY DEF Turn
<1>2. f = CHOOSE g : Goes(g, k, N, x)
  BY <1>1 DEF Goes
<1>3. MountFrom(x, N) = f[N]
  BY DEF MountFrom
<1> HIDE DEF f, k
<1>4. Goes(f, k, N, x)
  BY <1>2, LoopExists
<1>5. f[0] = x /\ \A i \in 1 .. N : f[i] = Turn(k, f[i - 1], i)
  BY <1>4, LoopRuns
<1> QED
  BY <1>1, <1>3, <1>5

LEMMA TreeRuns ==
    ASSUME NEW d, NEW root
    PROVE  \E f : /\ f[0] = [all |-> {}, new |-> InDirectory(d, root)]
                  /\ \A i \in 1 .. LastCluster : f[i] = Deeper(d, f[i - 1])
                  /\ Tree(d, root) = f[LastCluster].all
<1> DEFINE k == [loop |-> "tree", d |-> d]
           x == [all |-> {}, new |-> InDirectory(d, root)]
           N == LastCluster
           f == CHOOSE f : f = [i \in 0 .. N |-> IF i = 0 THEN x ELSE Deeper(d, f[i - 1])]
<1>1. \A y, i : Turn(k, y, i) = Deeper(d, y)
  BY DEF Turn
<1>2. Tree(d, root) = f[N].all
  BY DEF Tree
<1>3. N \in Nat
  BY GeometryAssumption
<1> HIDE DEF x, k, N
<1>4. f = CHOOSE g : Goes(g, k, N, x)
  BY <1>1 DEF Goes
<1> HIDE DEF f
<1>5. Goes(f, k, N, x)
  BY <1>3, <1>4, LoopExists
<1>6. f[0] = x /\ \A i \in 1 .. N : f[i] = Turn(k, f[i - 1], i)
  BY <1>3, <1>5, LoopRuns
<1> QED
  BY <1>1, <1>2, <1>6 DEF x, N

LEMMA TokensRuns ==
    ASSUME NEW path, NEW N \in Nat, Len(path) = N
    PROVE  \E f : /\ f[0] = << >> /\ \A i \in 1 .. N : f[i] = AddToken(f[i - 1], path[i])
                  /\ Tokens(path) = f[N]
<1> DEFINE k == [loop |-> "tokens", path |-> path]
           f == CHOOSE f : f = [i \in 0 .. N |-> IF i = 0 THEN << >> ELSE AddToken(f[i - 1], path[i])]
<1>1. \A y, i : Turn(k, y, i) = AddToken(y, path[i])
  BY DEF Turn
<1>2. f = CHOOSE g : Goes(g, k, N, << >>)
  BY <1>1 DEF Goes
<1>3. Tokens(path) = f[N]
  BY DEF Tokens
<1> HIDE DEF f, k
<1>4. Goes(f, k, N, << >>)
  BY <1>2, LoopExists
<1>5. f[0] = << >> /\ \A i \in 1 .. N : f[i] = Turn(k, f[i - 1], i)
  BY <1>4, LoopRuns
<1> QED
  BY <1>1, <1>3, <1>5

-----------------------------------------------------------------------------
(* Lists, whatever they hold. *)

IsList(s) == Len(s) \in Nat /\ s = [i \in 1 .. Len(s) |-> s[i]]

LEMMA EmptyList == IsList(<< >>) /\ Len(<< >>) = 0
BY DEF IsList

LEMMA SeqIsList == ASSUME NEW S, NEW s \in Seq(S) PROVE IsList(s)
BY DEF IsList

LEMMA AppendList ==
    ASSUME NEW s, IsList(s), NEW x
    PROVE  /\ IsList(Append(s, x)) /\ Len(Append(s, x)) = Len(s) + 1
           /\ Append(s, x)[Len(s) + 1] = x
           /\ \A i \in 1 .. Len(s) : Append(s, x)[i] = s[i]
<1> DEFINE S == {s[i] : i \in 1 .. Len(s)} \union {x}
<1>1. s \in Seq(S) /\ x \in S
  BY DEF IsList
<1> HIDE DEF S
<1>2. Append(s, x) \in Seq(S) /\ Len(Append(s, x)) = Len(s) + 1
  BY <1>1
<1>3. Append(s, x)[Len(s) + 1] = x /\ \A i \in 1 .. Len(s) : Append(s, x)[i] = s[i]
  BY <1>1
<1> QED
  BY <1>2, <1>3, SeqIsList

LEMMA JoinLists ==
    ASSUME NEW s, IsList(s), NEW t, IsList(t)
    PROVE  /\ IsList(s \o t) /\ Len(s \o t) = Len(s) + Len(t)
           /\ \A i \in 1 .. Len(s) : (s \o t)[i] = s[i]
           /\ \A i \in 1 .. Len(t) : (s \o t)[Len(s) + i] = t[i]
<1> DEFINE S == {s[i] : i \in 1 .. Len(s)} \union {t[i] : i \in 1 .. Len(t)}
<1>1. s \in Seq(S) /\ t \in Seq(S)
  BY DEF IsList
<1> HIDE DEF S
<1>2. s \o t \in Seq(S) /\ Len(s \o t) = Len(s) + Len(t)
  BY <1>1
<1>3. /\ \A i \in 1 .. Len(s) : (s \o t)[i] = s[i]
      /\ \A i \in 1 .. Len(t) : (s \o t)[Len(s) + i] = t[i]
  BY <1>1
<1> QED
  BY <1>2, <1>3, SeqIsList

LEMMA FunctionIsList ==
    ASSUME NEW n \in Nat, NEW s, s = [i \in 1 .. n |-> s[i]]
    PROVE  IsList(s) /\ Len(s) = n
<1>1. s \in Seq({s[i] : i \in 1 .. n})
  OBVIOUS
<1>2. Len(s) = n
  BY <1>1
<1> QED
  BY <1>2 DEF IsList

LEMMA SetInList ==
    ASSUME NEW s, IsList(s), NEW i, NEW x
    PROVE  IsList([s EXCEPT ![i] = x]) /\ Len([s EXCEPT ![i] = x]) = Len(s)
<1> DEFINE t == [s EXCEPT ![i] = x]
<1>1. t = [j \in 1 .. Len(s) |-> t[j]]
  BY DEF IsList
<1> HIDE DEF t
<1>2. IsList(t) /\ Len(t) = Len(s)
  BY <1>1, FunctionIsList DEF IsList
<1> QED
  BY <1>2 DEF t

LEMMA PathsAreLists == \A path \in Paths : Len(path) \in Nat
BY FilesAssumption

LEMMA TokensAreList ==
    ASSUME NEW path, Len(path) \in Nat
    PROVE  IsList(Tokens(path)) /\ Len(Tokens(path)) \in Nat
<1>2. PICK N \in Nat : Len(path) = N
  OBVIOUS
<1>3. PICK f : /\ f[0] = << >> /\ \A i \in 1 .. N : f[i] = AddToken(f[i - 1], path[i])
               /\ Tokens(path) = f[N]
  BY <1>2, TokensRuns
<1> DEFINE T == {i \in 0 .. N : IsList(f[i])}
<1>4. 0 \in T
  BY <1>3, EmptyList
<1>5. ASSUME NEW i \in 1 .. N, i - 1 \in T PROVE i \in T
  <2>1. IsList(f[i - 1]) /\ f[i] = AddToken(f[i - 1], path[i])
    BY <1>3, <1>5
  <2>2. IsList(AddToken(f[i - 1], path[i]))
    BY <2>1, AppendList DEF AddToken
  <2> QED
    BY <2>1, <2>2
<1> HIDE DEF T
<1>6. N \in T
  BY <1>4, <1>5, StepByStep
<1> QED
  BY <1>3, <1>6 DEF T, IsList

-----------------------------------------------------------------------------
(* The disk and the sessions that write to it. *)

Fields == {"d", "log", "bad", "sector", "cache", "nodes", "devs", "node", "id", "via"}

\* A session, of a call on files (Begin).
IsSession(h) ==
    /\ h = [x \in Fields |-> h[x]]
    /\ IsDisk(h.d)
    /\ IsList(h.log) /\ \A i \in 1 .. Len(h.log) : IsDisk(h.log[i])
    /\ h.bad \in Damages

SameNodes(g, h) == h.nodes = g.nodes /\ h.devs = g.devs /\ h.node = g.node /\ h.id = g.id /\ h.via = g.via

\* g and then h, to which the FAT driver came from g.
Leads(g, h) == IsSession(h) /\ SameNodes(g, h)

LEMMA LeadsOn ==
    ASSUME NEW f, NEW g, NEW h, Leads(f, g), Leads(g, h)
    PROVE  Leads(f, h)
BY DEF Leads, SameNodes

LEMMA StaysPut == ASSUME NEW h, IsSession(h) PROVE Leads(h, h)
BY DEF Leads, SameNodes

LEMMA PutLeads ==
    ASSUME NEW h, IsSession(h), NEW d, IsDisk(d)
    PROVE  Leads(h, Put(h, d)) /\ Put(h, d).d = d /\ Put(h, d).bad = h.bad
<1> DEFINE l == Append(h.log, d)
           g == [h EXCEPT !.d = d, !.log = l]
<1>1. IsList(l) /\ \A i \in 1 .. Len(l) : IsDisk(l[i])
  <2>1. IsList(h.log) /\ Len(h.log) \in Nat /\ \A i \in 1 .. Len(h.log) : IsDisk(h.log[i])
    BY DEF IsSession, IsList
  <2>2. /\ IsList(l) /\ Len(l) = Len(h.log) + 1 /\ l[Len(h.log) + 1] = d
        /\ \A i \in 1 .. Len(h.log) : l[i] = h.log[i]
    BY <2>1, AppendList
  <2> HIDE DEF l
  <2> QED
    BY <2>1, <2>2
<1>2. Put(h, d) = g
  BY DEF Put, IsSession, Fields
<1> HIDE DEF l
<1>3. g = [x \in Fields |-> g[x]] /\ g.d = d /\ g.log = l /\ g.bad = h.bad /\ SameNodes(h, g)
  BY DEF IsSession, SameNodes, Fields
<1> HIDE DEF g
<1>4. IsSession(g)
  BY <1>1, <1>3 DEF IsSession
<1> QED
  BY <1>2, <1>3, <1>4 DEF Leads

LEMMA BadLeads ==
    ASSUME NEW h, IsSession(h), NEW why \in Damages
    PROVE  Leads(h, Bad(h, why)) /\ Bad(h, why).bad = why
BY DEF Bad, IsSession, Fields, Leads, SameNodes

LEMMA LoadLeads ==
    ASSUME NEW h, IsSession(h), NEW c
    PROVE  Leads(h, Load(h, c)) /\ Load(h, c).d = h.d
BY DEF Load, IsSession, Fields, Leads, SameNodes

LEMMA ReadTableLeads ==
    ASSUME NEW h, IsSession(h)
    PROVE  Leads(h, ReadTable(h))
BY DEF ReadTable, IsSession, Fields, Leads, SameNodes

LEMMA PutFatLeads ==
    ASSUME NEW h, IsSession(h), NEW c, NEW v \in {EOC} \union 0 .. LastCluster
    PROVE  Leads(h, PutFat(h, c, v))
<1> DEFINE d == [h.d EXCEPT !.fat[c] = v]
<1>1. IsDisk(d)
  BY DEF IsSession, IsDisk
<1> HIDE DEF d
<1> QED
  BY <1>1, PutLeads DEF PutFat, d

LEMMA PutDataLeads ==
    ASSUME NEW h, IsSession(h), NEW c, NEW off, NEW units
    PROVE  Leads(h, PutData(h, c, off, units))
<1> DEFINE d == [h.d EXCEPT !.data[c] = [i \in 1 .. Units |->
                    IF i \in off + 1 .. off + Len(units) THEN units[i - off] ELSE @[i]]]
<1>1. IsDisk(d)
  BY DEF IsSession, IsDisk
<1> HIDE DEF d
<1> QED
  BY <1>1, PutLeads DEF PutData, d

LEMMA PutSlotLeads ==
    ASSUME NEW h, IsSession(h), NEW q, NEW e
    PROVE  Leads(h, PutSlot(h, q, e))
<1> DEFINE t == [h.d.slots[q[1]] EXCEPT ![q[2]] = e]
           d == [h.d EXCEPT !.slots[q[1]][q[2]] = e]
<1>1. q[1] \in Clusters => t = [i \in 1 .. Slots |-> t[i]]
  BY DEF IsSession, IsDisk
<1>2. /\ d.fat = h.d.fat /\ d.data = h.d.data /\ DOMAIN d = DOMAIN h.d /\ DOMAIN d.slots = Clusters
      /\ \A c \in Clusters : d.slots[c] = IF c = q[1] THEN t ELSE h.d.slots[c]
  BY DEF IsSession, IsDisk
<1>3. q[1] \in Clusters => DOMAIN t = 1 .. Slots
  BY DEF IsSession, IsDisk
<1> HIDE DEF t, d
<1>4. ASSUME NEW c \in Clusters
      PROVE  d.slots[c] = [i \in 1 .. Slots |-> d.slots[c][i]] /\ DOMAIN d.slots[c] = 1 .. Slots
  <2>1. CASE c = q[1]
    BY <1>1, <1>2, <1>3, <2>1
  <2>2. CASE c # q[1]
    BY <1>2, <2>2 DEF IsSession, IsDisk
  <2> QED
    BY <2>1, <2>2
<1>5. IsDisk(d)
  BY <1>2, <1>4 DEF IsSession, IsDisk
<1> QED
  BY <1>5, PutLeads DEF PutSlot, d

\* The slots of a whole cluster.
LEMMA PutSlotsLeads ==
    ASSUME NEW h, IsSession(h), NEW c, NEW s, s = [i \in 1 .. Slots |-> s[i]]
    PROVE  Leads(h, Put(h, [h.d EXCEPT !.slots[c] = s]))
<1> DEFINE d == [h.d EXCEPT !.slots[c] = s]
<1>1. IsDisk(d)
  BY DEF IsSession, IsDisk
<1> HIDE DEF d
<1> QED
  BY <1>1, PutLeads DEF d

LEMMA AllocatedRange == \A d : Allocated(d) \in {0} \union Clusters
<1> SUFFICES ASSUME NEW d, FreeClusters(d) # {} PROVE Allocated(d) \in Clusters
  BY DEF Allocated
<1>1. FreeClusters(d) \subseteq Clusters /\ FreeClusters(d) \in SUBSET Nat
  BY GeometryAssumption DEF FreeClusters, Clusters
<1>2. \E c \in FreeClusters(d) : \A e \in FreeClusters(d) : c <= e
  BY <1>1, LeastOfNaturals
<1> QED
  BY <1>1, <1>2 DEF Allocated

LEMMA AllocatedFits == \A d : Allocated(d) \in {EOC} \union 0 .. LastCluster
BY AllocatedRange, GeometryAssumption DEF Clusters

-----------------------------------------------------------------------------
(* The operations of the FAT driver keep the disk in shape and the nodes as they are. *)

LEMMA ExtendLeads ==
    ASSUME NEW h, IsSession(h), NEW c, NEW n \in {0} \union Clusters
    PROVE  Leads(h, Extend(h, c, n).h)
<1>1. {n, 0, EOC} \subseteq {EOC} \union 0 .. LastCluster
  BY GeometryAssumption DEF Clusters
<1>2. CASE n = 0
  <2>1. Leads(h, PutFat(h, c, 0))
    BY <1>1, PutFatLeads
  <2>2. Leads(PutFat(h, c, 0), Bad(PutFat(h, c, 0), "full"))
    BY <2>1, BadLeads DEF Leads, Damages
  <2>3. Extend(h, c, n).h = Bad(PutFat(h, c, 0), "full")
    BY <1>2 DEF Extend
  <2> QED
    BY <2>1, <2>2, <2>3, LeadsOn
<1>3. CASE n # 0
  <2>1. Leads(h, PutFat(h, n, EOC))
    BY <1>1, PutFatLeads
  <2>2. Leads(PutFat(h, n, EOC), PutFat(PutFat(h, n, EOC), c, n))
    BY <1>1, <2>1, PutFatLeads DEF Leads
  <2>3. Extend(h, c, n).h = PutFat(PutFat(h, n, EOC), c, n)
    BY <1>3 DEF Extend
  <2> QED
    BY <2>1, <2>2, <2>3, LeadsOn
<1> QED
  BY <1>2, <1>3

LEMMA NextClusterLeads ==
    ASSUME NEW h, IsSession(h), NEW c
    PROVE  Leads(h, NextCluster(h, c).h)
<1> DEFINE l == Load(h, c)
<1>1. Leads(h, l) /\ IsSession(l)
  BY LoadLeads DEF Leads
<1>2. Leads(l, Bad(l, "stale"))
  BY <1>1, BadLeads DEF Damages
<1>3. Leads(l, Extend(l, c, Allocated(l.d)).h)
  BY <1>1, AllocatedRange, ExtendLeads
<1>4. Leads(h, Bad(l, "stale")) /\ Leads(h, Extend(l, c, Allocated(l.d)).h)
  BY <1>1, <1>2, <1>3, LeadsOn
<1>5. NextCluster(h, c).h \in {Bad(l, "stale"), l, Extend(l, c, Allocated(l.d)).h}
  BY DEF NextCluster
<1> QED
  BY <1>1, <1>4, <1>5

LEMMA SeekLeads ==
    ASSUME NEW h, IsSession(h), NEW c, NEW off
    PROVE  Leads(h, Seek(h, c, off).h)
<1>1. LastCluster \in Nat
  BY GeometryAssumption
<1>2. PICK f : /\ f[0] = [h |-> h, c |-> c, off |-> off]
               /\ \A i \in 1 .. LastCluster : f[i] = SeekTurn(f[i - 1])
               /\ Seek(h, c, off) = f[LastCluster]
  BY SeekRuns
<1> DEFINE T == {i \in 0 .. LastCluster : Leads(h, f[i].h)}
<1>3. 0 \in T
  BY <1>1, <1>2, StaysPut
<1>4. ASSUME NEW i \in 1 .. LastCluster, i - 1 \in T PROVE i \in T
  <2> DEFINE s == f[i - 1]
             l == Load(s.h, s.c)
  <2>1. Leads(h, s.h) /\ f[i] = SeekTurn(s)
    BY <1>2, <1>4
  <2> HIDE DEF s
  <2>2. Leads(s.h, l)
    BY <2>1, LoadLeads DEF Leads
  <2>3. Leads(l, Bad(l, "lost"))
    BY <2>2, BadLeads DEF Leads, Damages
  <2>4. Leads(h, l) /\ Leads(h, Bad(l, "lost"))
    BY <2>1, <2>2, <2>3, LeadsOn
  <2>5. SeekTurn(s).h \in {s.h, l, Bad(l, "lost")}
    BY DEF SeekTurn
  <2>6. Leads(h, SeekTurn(s).h)
    BY <2>1, <2>4, <2>5
  <2> QED
    BY <1>1, <2>1, <2>6
<1> HIDE DEF T
<1>5. LastCluster \in T
  BY <1>1, <1>3, <1>4, StepByStep
<1> QED
  BY <1>2, <1>5 DEF T

LEMMA FreeRestLeads ==
    ASSUME NEW h, IsSession(h), NEW c
    PROVE  Leads(h, FreeRest(h, c))
<1>1. LastCluster \in Nat
  BY GeometryAssumption
<1>2. PICK f : /\ f[0] = [h |-> h, c |-> c]
               /\ \A i \in 1 .. LastCluster : f[i] = FreeTurn(f[i - 1])
               /\ FreeRest(h, c) = f[LastCluster].h
  BY FreeRuns
<1> DEFINE T == {i \in 0 .. LastCluster : Leads(h, f[i].h)}
<1>3. 0 \in T
  BY <1>1, <1>2, StaysPut
<1>4. ASSUME NEW i \in 1 .. LastCluster, i - 1 \in T PROVE i \in T
  <2> DEFINE s == f[i - 1]
             l == Load(s.h, s.c)
  <2>1. Leads(h, s.h) /\ f[i] = FreeTurn(s)
    BY <1>2, <1>4
  <2> HIDE DEF s
  <2>2. Leads(s.h, l)
    BY <2>1, LoadLeads DEF Leads
  <2>3. Leads(l, PutFat(l, s.c, 0))
    BY <2>2, PutFatLeads, GeometryAssumption DEF Leads
  <2>4. Leads(h, PutFat(l, s.c, 0))
    BY <2>1, <2>2, <2>3, LeadsOn
  <2>5. FreeTurn(s).h \in {s.h, PutFat(l, s.c, 0)}
    BY DEF FreeTurn
  <2>6. Leads(h, FreeTurn(s).h)
    BY <2>1, <2>4, <2>5
  <2> QED
    BY <1>1, <2>1, <2>6
<1> HIDE DEF T
<1>5. LastCluster \in T
  BY <1>1, <1>3, <1>4, StepByStep
<1> QED
  BY <1>2, <1>5 DEF T

LEMMA TrimLeads ==
    ASSUME NEW h, IsSession(h), NEW c
    PROVE  Leads(h, Trim(h, c))
<1> DEFINE l == Load(h, c)
           r == FreeRest(l, l.cache[c])
<1>1. Leads(h, l)
  BY LoadLeads
<1>2. Leads(l, Bad(l, "stale")) /\ Leads(l, r)
  BY <1>1, BadLeads, FreeRestLeads DEF Leads, Damages
<1>3. Leads(r, Bad(r, "cut"))
  BY <1>2, BadLeads DEF Leads, Damages
<1>4. Leads(h, Bad(l, "stale")) /\ Leads(h, Bad(r, "cut"))
  BY <1>1, <1>2, <1>3, LeadsOn
<1>5. Trim(h, c) \in {l, Bad(l, "stale"), Bad(r, "cut")}
  BY DEF Trim
<1> QED
  BY <1>1, <1>4, <1>5

LEMMA FillLeads ==
    ASSUME NEW s, IsSession(s.h), NEW input \in Inputs
    PROVE  Leads(s.h, Fill(s, input))
<1>0. input \in Seq(ToSet(input))
  BY FilesAssumption
<1> DEFINE N == Len(input) + 2
           x == [h |-> s.h, c |-> s.c, off |-> s.off, left |-> input, done |-> FALSE]
<1>1. N \in Nat
  BY <1>0
<1>2. PICK f : /\ f[0] = x
               /\ \A i \in 1 .. N : f[i] = FillTurn(f[i - 1])
               /\ Fill(s, input) = f[N].h
  BY FillRuns
<1>3. x = [y \in {"h", "c", "off", "left", "done"} |-> x[y]] /\ x.h = s.h
  OBVIOUS
<1> HIDE DEF N, x
<1> DEFINE IsTurn(t) == t = [y \in {"h", "c", "off", "left", "done"} |-> t[y]] /\ Leads(s.h, t.h)
           T == {i \in 0 .. N : IsTurn(f[i])}
<1>4. 0 \in T
  BY <1>1, <1>2, <1>3, StaysPut
<1>5. ASSUME NEW i \in 1 .. N, i - 1 \in T PROVE i \in T
  <2> DEFINE t == f[i - 1]
             put == PutData(t.h, t.c, 0, t.left)
             fit == Lesser(Len(t.left), Units - t.off)
             fill == PutData(t.h, t.c, t.off, SubSeq(t.left, 1, fit))
             next == NextCluster(fill, t.c)
             goOn == [h |-> next.h, c |-> next.c, off |-> next.off, done |-> FALSE,
                      left |-> SubSeq(t.left, fit + 1, Len(t.left))]
  <2>1. IsTurn(t) /\ f[i] = FillTurn(t)
    BY <1>2, <1>5
  <2> HIDE DEF t
  <2>2. Leads(t.h, put) /\ Leads(t.h, fill)
    BY <2>1, PutDataLeads DEF Leads
  <2>3. Leads(put, Trim(put, t.c)) /\ Leads(fill, next.h)
    BY <2>2, TrimLeads, NextClusterLeads DEF Leads
  <2>4. Leads(s.h, Trim(put, t.c)) /\ Leads(s.h, next.h)
    BY <2>1, <2>2, <2>3, LeadsOn
  <2>5. FillTurn(t) \in {t, goOn, [t EXCEPT !.h = Trim(put, t.c), !.done = TRUE]}
    BY DEF FillTurn
  <2> HIDE DEF put, next, fit, fill
  <2>6. IsTurn([t EXCEPT !.h = Trim(put, t.c), !.done = TRUE])
    BY <2>1, <2>4
  <2>7. IsTurn(goOn)
    BY <2>4
  <2> HIDE DEF goOn, IsTurn
  <2>8. IsTurn(FillTurn(t))
    BY <2>1, <2>5, <2>6, <2>7
  <2> QED
    BY <1>1, <2>1, <2>8
<1> HIDE DEF T
<1>6. N \in T
  BY <1>1, <1>4, <1>5, StepByStep
<1> QED
  BY <1>2, <1>6 DEF T

LEMMA PutEntryLeads ==
    ASSUME NEW h, IsSession(h), NEW p, NEW e
    PROVE  Leads(h, PutEntry(h, p, e))
BY PutSlotLeads DEF PutEntry

LEMMA FirstClusterLeads ==
    ASSUME NEW h, IsSession(h), NEW p
    PROVE  Leads(h, FirstCluster(h, p))
<1> DEFINE n == Allocated(h.d)
           g == PutFat(h, n, EOC)
           e == [Entry(h.d, p) EXCEPT !.first = n]
<1>1. Leads(h, g)
  BY PutFatLeads
<1>2. Leads(g, PutEntry(g, p, e))
  BY <1>1, PutEntryLeads DEF Leads
<1>3. Leads(h, h) /\ Leads(h, Bad(h, "full")) /\ Leads(h, PutEntry(g, p, e))
  BY <1>1, <1>2, LeadsOn, StaysPut, BadLeads DEF Damages
<1>4. FirstCluster(h, p) \in {h, Bad(h, "full"), PutEntry(g, p, e)}
  BY DEF FirstCluster
<1> QED
  BY <1>3, <1>4

LEMMA PutInputLeads ==
    ASSUME NEW h, IsSession(h), NEW p, NEW off, NEW input \in Inputs
    PROVE  Leads(h, PutInput(h, p, off, input))
<1> DEFINE r == ReadTable(h)
           s == Seek(r, Entry(h.d, p).first, off)
           f == Fill(s, input)
           e == [Entry(f.d, p) EXCEPT !.size = Len(input)]
<1>1. Leads(h, r)
  BY ReadTableLeads
<1>2. Leads(r, s.h)
  BY <1>1, SeekLeads DEF Leads
<1>3. Leads(s.h, f)
  BY <1>2, FillLeads DEF Leads
<1>4. Leads(f, PutEntry(f, p, e))
  BY <1>3, PutEntryLeads DEF Leads
<1>5. PutInput(h, p, off, input) \in {h, f, PutEntry(f, p, e)}
  BY DEF PutInput, PutSize
<1> HIDE DEF f, s, r
<1>6. Leads(h, s.h)
  BY <1>1, <1>2, LeadsOn
<1>7. Leads(h, f)
  BY <1>3, <1>6, LeadsOn
<1>8. Leads(h, PutEntry(f, p, e))
  BY <1>4, <1>7, LeadsOn
<1> QED
  BY <1>5, <1>7, <1>8, StaysPut

LEMMA WriteFileLeads ==
    ASSUME NEW h, IsSession(h), NEW node, NEW input \in Inputs
    PROVE  Leads(h, WriteFile(h, node, input))
<1> DEFINE f == FirstCluster(h, node.at)
<1>1. Leads(h, f)
  BY FirstClusterLeads
<1>2. Leads(f, PutInput(f, node.at, node.off, input))
  BY <1>1, PutInputLeads DEF Leads
<1>3. Leads(h, PutInput(f, node.at, node.off, input))
  BY <1>1, <1>2, LeadsOn
<1>4. WriteFile(h, node, input) \in {h, PutInput(f, node.at, node.off, input)}
  BY DEF WriteFile
<1> QED
  BY <1>3, <1>4, StaysPut

LEMMA PutDirentLeads ==
    ASSUME NEW h, IsSession(h), NEW p, NEW slots
    PROVE  Leads(h, PutDirent(h, p, slots))
<1> DEFINE c == p[1]
           n == h.d.fat[c]
           new == [i \in 1 .. 2 * Slots |->
                     IF i - p[2] + 1 \in DOMAIN slots THEN slots[i - p[2] + 1] ELSE Window(h.d, c)[i]]
           first == [i \in 1 .. Slots |-> new[i]]
           second == [i \in 1 .. Slots |-> new[Slots + i]]
           g == Put(h, [h.d EXCEPT !.slots[c] = first])
           f == Put(g, [g.d EXCEPT !.slots[n] = second])
<1>1. first = [i \in 1 .. Slots |-> first[i]] /\ second = [i \in 1 .. Slots |-> second[i]]
  OBVIOUS
<1>2. PutDirent(h, p, slots) \in {f, g, Bad(g, "torn")}
  BY DEF PutDirent
<1> HIDE DEF first, second, new
<1>3. Leads(h, g)
  BY <1>1, PutSlotsLeads
<1> HIDE DEF g
<1>4. Leads(g, f) /\ Leads(g, Bad(g, "torn"))
  BY <1>1, <1>3, PutSlotsLeads, BadLeads DEF Leads, Damages
<1> HIDE DEF f
<1>5. Leads(h, f) /\ Leads(h, Bad(g, "torn"))
  BY <1>3, <1>4, LeadsOn
<1> QED
  BY <1>2, <1>3, <1>5

LEMMA DotFilesFill ==
    ASSUME NEW c, NEW parent
    PROVE  DotFiles(c, parent) = [i \in 1 .. Slots |-> DotFiles(c, parent)[i]]
<1> DEFINE two == <<Short(".", c, 0, {"dir"}), Short("..", parent, 0, {"dir"})>>
           rest == [i \in 1 .. Slots - 2 |-> Zero]
<1>1. IsList(two) /\ Len(two) = 2
  BY DEF IsList
<1>2. IsList(rest) /\ Len(rest) = Slots - 2
  BY GeometryAssumption, FunctionIsList
<1>3. DotFiles(c, parent) = two \o rest
  BY DEF DotFiles
<1> HIDE DEF two, rest
<1>4. IsList(two \o rest) /\ Len(two \o rest) = Len(two) + Len(rest)
  BY <1>1, <1>2, JoinLists
<1>5. Len(two) + Len(rest) = Slots
  BY <1>1, <1>2, GeometryAssumption
<1> QED
  BY <1>3, <1>4, <1>5 DEF IsList

LEMMA PutDotFilesLeads ==
    ASSUME NEW h, IsSession(h), NEW n, NEW parent
    PROVE  Leads(h, PutDotFiles(h, n, parent))
<1> DEFINE g == PutFat(h, n, EOC)
           f == Put(g, [g.d EXCEPT !.slots[n] = DotFiles(n, parent)])
<1>1. Leads(h, g)
  BY PutFatLeads
<1>2. PutDotFiles(h, n, parent) = f
  BY DEF PutDotFiles
<1> HIDE DEF g
<1>3. Leads(g, f)
  BY <1>1, DotFilesFill, PutSlotsLeads DEF Leads
<1> QED
  BY <1>1, <1>2, <1>3, LeadsOn

LEMMA CreateLeads ==
    ASSUME NEW h, IsSession(h), NEW dir, NEW name, NEW stored, NEW attr
    PROVE  Leads(h, Create(h, dir, name, stored, attr).h)
<1> DEFINE start == DirStart(h.d, dir)
           p == FreeSlot(h.d, start, Slots * LastCluster)
           n == Allocated(h.d)
           parent == IF start[1] = Root THEN 0 ELSE start[1]
           g == PutDotFiles(h, n, parent)
           Entries(first) == Dirent(name, stored, Short("DOSFILE", first, 0, attr))
<1>1. Create(h, dir, name, stored, attr) = CreateFrom(h, start, p, n, name, stored, attr)
  BY DEF Create
<1> HIDE DEF start, p, n
<1>2. CreateFrom(h, start, p, n, name, stored, attr).h \in
        {h, Bad(h, "lost"), Bad(h, "full"), PutDirent(h, p, Entries(0)), PutDirent(g, p, Entries(n))}
  BY DEF CreateFrom, CreateAt
<1> HIDE DEF parent, Entries
<1>3. Leads(h, g)
  BY PutDotFilesLeads
<1> HIDE DEF g
<1>4. Leads(g, PutDirent(g, p, Entries(n)))
  BY <1>3, PutDirentLeads DEF Leads
<1>5. Leads(h, PutDirent(g, p, Entries(n)))
  BY <1>3, <1>4, LeadsOn
<1>6. /\ Leads(h, h) /\ Leads(h, Bad(h, "lost")) /\ Leads(h, Bad(h, "full"))
      /\ Leads(h, PutDirent(h, p, Entries(0)))
  BY StaysPut, BadLeads, PutDirentLeads DEF Damages
<1> QED
  BY <1>1, <1>2, <1>5, <1>6

-----------------------------------------------------------------------------
(* Consistent disks. *)

\* A cluster where a chain begins that nothing leads to yet.
Loose(d, n) == IsHead(d, n) /\ d.fat[n] = EOC /\ n # Root /\ \A q \in Owners(d) : First(d, q) # n

LEMMA AllocatedFree ==
    ASSUME NEW d, Allocated(d) # 0
    PROVE  Allocated(d) \in Clusters /\ d.fat[Allocated(d)] = 0
<1>1. FreeClusters(d) # {}
  BY DEF Allocated
<1>2. FreeClusters(d) \in SUBSET Nat
  BY GeometryAssumption DEF FreeClusters, Clusters
<1>3. \E c \in FreeClusters(d) : \A e \in FreeClusters(d) : c <= e
  BY <1>1, <1>2, LeastOfNaturals
<1>4. Allocated(d) \in FreeClusters(d)
  BY <1>1, <1>3 DEF Allocated
<1> QED
  BY <1>4 DEF FreeClusters

LEMMA TakenConsistent ==
    ASSUME NEW d, IsDisk(d), Consistent(d), NEW n \in Clusters, d.fat[n] = 0
    PROVE  Consistent([d EXCEPT !.fat[n] = EOC]) /\ Loose([d EXCEPT !.fat[n] = EOC], n)
<1> DEFINE e == [d EXCEPT !.fat[n] = EOC]
<1>1. /\ e.slots = d.slots /\ DOMAIN d.fat = 0 .. LastCluster /\ n \in 0 .. LastCluster
      /\ \A c \in 0 .. LastCluster : e.fat[c] = IF c = n THEN EOC ELSE d.fat[c]
  BY GeometryAssumption DEF IsDisk, Clusters
<1> HIDE DEF e
<1>2. Owners(e) = Owners(d) /\ \A q : First(e, q) = First(d, q)
  BY <1>1 DEF Owners, First
<1>3. EOC \notin Clusters /\ EOC # 0 /\ EOC # 1
  BY DEF EOC, Clusters
<1>4. ASSUME NEW c \in 0 .. LastCluster PROVE d.fat[c] # n
  BY <1>4 DEF Consistent
<1>5. \A c : IsHead(d, c) => IsHead(e, c) /\ c # n
  BY <1>1, <1>3, GeometryAssumption DEF IsHead, Clusters
<1>6. IsHead(e, n)
  BY <1>1, <1>3, <1>4 DEF IsHead
<1>7. ASSUME NEW c \in 0 .. LastCluster
      PROVE  e.fat[c] # 1 /\ (e.fat[c] \in Clusters => e.fat[e.fat[c]] # 0)
  <2>1. CASE c = n
    BY <1>1, <1>3, <2>1
  <2>2. CASE c # n
    <3>1. e.fat[c] = d.fat[c] /\ d.fat[c] # 1 /\ (d.fat[c] \in Clusters => d.fat[d.fat[c]] # 0)
      BY <1>1, <2>2 DEF Consistent
    <3>2. d.fat[c] \in Clusters => d.fat[c] \in 0 .. LastCluster
      BY DEF Clusters
    <3> QED
      BY <1>1, <1>3, <3>1, <3>2
  <2> QED
    BY <2>1, <2>2
<1>8. ASSUME NEW a \in 0 .. LastCluster, NEW b \in 0 .. LastCluster, e.fat[a] = e.fat[b], e.fat[a] \in Clusters
      PROVE  a = b
  BY <1>1, <1>3, <1>8 DEF Consistent
<1>9. Consistent(e)
  BY <1>1, <1>2, <1>5, <1>7, <1>8 DEF Consistent
<1>10. Loose(e, n)
  BY <1>1, <1>2, <1>5, <1>6 DEF Loose, Consistent
<1> QED
  BY <1>9, <1>10 DEF e

LEMMA LinkedConsistent ==
    ASSUME NEW d, IsDisk(d), Consistent(d), NEW n, Loose(d, n), NEW c, c # n
    PROVE  Consistent([d EXCEPT !.fat[c] = n])
<1> DEFINE e == [d EXCEPT !.fat[c] = n]
<1>1. /\ e.slots = d.slots /\ DOMAIN d.fat = 0 .. LastCluster
      /\ \A a \in 0 .. LastCluster : e.fat[a] = IF a = c THEN n ELSE d.fat[a]
  BY DEF IsDisk
<1> HIDE DEF e
<1>2. Owners(e) = Owners(d) /\ \A q : First(e, q) = First(d, q)
  BY <1>1 DEF Owners, First
<1>3. n \in Clusters /\ n # 0 /\ n # 1 /\ n \in 0 .. LastCluster /\ d.fat[n] = EOC /\ EOC # 0
  BY DEF Loose, IsHead, EOC, Clusters
<1>4. \A a \in 0 .. LastCluster : d.fat[a] # n
  BY DEF Loose, IsHead
<1>5. \A a : IsHead(d, a) /\ a # n => IsHead(e, a)
  BY <1>1, <1>3 DEF IsHead, Clusters
<1>6. ASSUME NEW a \in 0 .. LastCluster
      PROVE  e.fat[a] # 1 /\ (e.fat[a] \in Clusters => e.fat[e.fat[a]] # 0)
  <2>1. CASE a = c
    BY <1>1, <1>3, <2>1
  <2>2. CASE a # c
    <3>1. e.fat[a] = d.fat[a] /\ d.fat[a] # 1 /\ (d.fat[a] \in Clusters => d.fat[d.fat[a]] # 0)
      BY <1>1, <2>2 DEF Consistent
    <3>2. d.fat[a] \in Clusters => d.fat[a] \in 0 .. LastCluster
      BY DEF Clusters
    <3> QED
      BY <1>1, <1>3, <3>1, <3>2
  <2> QED
    BY <2>1, <2>2
<1>7. ASSUME NEW a \in 0 .. LastCluster, NEW b \in 0 .. LastCluster, e.fat[a] = e.fat[b], e.fat[a] \in Clusters
      PROVE  a = b
  BY <1>1, <1>4, <1>7 DEF Consistent
<1>8. Consistent(e)
  BY <1>1, <1>2, <1>5, <1>6, <1>7 DEF Consistent, Loose
<1> QED
  BY <1>8 DEF e

\* The table as before, and no slot leads to a cluster but those that led there and perhaps
\* the one at p.
LEMMA SlotsConsistent ==
    ASSUME NEW d, Consistent(d), NEW e, e.fat = d.fat, NEW p, NEW n,
           \A q \in Places : IsSlot(e.slots[q[1]][q[2]]),
           \A q \in Owners(e) : \/ q \in Owners(d) /\ First(e, q) = First(d, q)
                                \/ q = p /\ First(e, q) = n /\ Loose(d, n)
    PROVE  Consistent(e)
<1>1. \A c : IsHead(e, c) <=> IsHead(d, c)
  BY DEF IsHead
<1>2. ASSUME NEW q \in Owners(e) PROVE IsHead(e, First(e, q)) /\ First(e, q) # Root
  BY <1>1 DEF Consistent, Loose
<1>3. ASSUME NEW q \in Owners(e), NEW r \in Owners(e), First(e, q) = First(e, r) PROVE q = r
  BY <1>3 DEF Consistent, Loose
<1> QED
  BY <1>1, <1>2, <1>3 DEF Consistent

LEMMA DataConsistent ==
    ASSUME NEW d, Consistent(d), NEW e, e.fat = d.fat, e.slots = d.slots
    PROVE  Consistent(e)
BY DEF Consistent, IsHead, Owners, First

\* A session that met nothing bad has written consistent disks only.
Sound(h) == h.bad = "none" => Consistent(h.d) /\ \A i \in 1 .. Len(h.log) : Consistent(h.log[i])

LEMMA PutSound ==
    ASSUME NEW h, IsSession(h), Sound(h), NEW d, h.bad = "none" => Consistent(d)
    PROVE  Sound(Put(h, d))
<1> DEFINE l == Append(h.log, d)
           g == [h EXCEPT !.d = d, !.log = l]
<1>1. /\ Len(l) = Len(h.log) + 1 /\ l[Len(h.log) + 1] = d /\ Len(h.log) \in Nat
      /\ \A i \in 1 .. Len(h.log) : l[i] = h.log[i]
  <2>1. IsList(h.log) /\ Len(h.log) \in Nat
    BY DEF IsSession, IsList
  <2> QED
    BY <2>1, AppendList
<1>2. Put(h, d) = g
  BY DEF Put, IsSession, Fields
<1> HIDE DEF l
<1>3. g.d = d /\ g.log = l /\ g.bad = h.bad
  BY DEF IsSession, Fields
<1> HIDE DEF g
<1>4. ASSUME h.bad = "none", NEW i \in 1 .. Len(l) PROVE Consistent(l[i])
  BY <1>1, <1>4 DEF Sound
<1> QED
  BY <1>2, <1>3, <1>4 DEF Sound

LEMMA BadSound == ASSUME NEW h, IsSession(h), NEW why, why # "none" PROVE Sound(Bad(h, why))
BY DEF Bad, IsSession, Fields, Sound

LEMMA LoadSound == ASSUME NEW h, IsSession(h), Sound(h), NEW c PROVE Sound(Load(h, c)) /\ Load(h, c).bad = h.bad
BY DEF Load, IsSession, Fields, Sound

LEMMA ReadTableSound == ASSUME NEW h, IsSession(h), Sound(h) PROVE Sound(ReadTable(h))
BY DEF ReadTable, IsSession, Fields, Sound

LEMMA PutDataSound ==
    ASSUME NEW h, IsSession(h), Sound(h), NEW c, NEW off, NEW units
    PROVE  Sound(PutData(h, c, off, units))
<1> DEFINE d == [h.d EXCEPT !.data[c] = [i \in 1 .. Units |->
                    IF i \in off + 1 .. off + Len(units) THEN units[i - off] ELSE @[i]]]
<1>1. d.fat = h.d.fat /\ d.slots = h.d.slots
  BY DEF IsSession, IsDisk
<1> HIDE DEF d
<1>2. h.bad = "none" => Consistent(d)
  BY <1>1, DataConsistent DEF Sound
<1> QED
  BY <1>2, PutSound DEF PutData, d

\* A free cluster is taken.
LEMMA TakeSound ==
    ASSUME NEW h, IsSession(h), Sound(h), NEW n \in Clusters, h.d.fat[n] = 0
    PROVE  Sound(PutFat(h, n, EOC)) /\ (h.bad = "none" => Loose(PutFat(h, n, EOC).d, n))
<1> DEFINE d == [h.d EXCEPT !.fat[n] = EOC]
<1>1. IsDisk(h.d) /\ IsDisk(d)
  BY GeometryAssumption DEF IsSession, IsDisk, Clusters
<1>2. h.bad = "none" => Consistent(d) /\ Loose(d, n)
  BY <1>1, TakenConsistent DEF Sound
<1> HIDE DEF d
<1>3. Put(h, d).d = d /\ Sound(Put(h, d))
  BY <1>1, <1>2, PutSound, PutLeads
<1> QED
  BY <1>2, <1>3 DEF PutFat, d

LEMMA ExtendSound ==
    ASSUME NEW h, IsSession(h), Sound(h), NEW c, h.d.fat[c] = EOC
    PROVE  Sound(Extend(h, c, Allocated(h.d)).h)
<1> DEFINE n == Allocated(h.d)
<1>1. CASE n = 0
  <2>1. IsSession(PutFat(h, c, 0))
    BY PutFatLeads, GeometryAssumption DEF Leads
  <2> QED
    BY <1>1, <2>1, BadSound DEF Extend
<1>2. CASE n # 0
  <2>1. n # 0 /\ n \in Clusters /\ h.d.fat[n] = 0 /\ c # n
    BY <1>2, AllocatedFree DEF EOC
  <2> HIDE DEF n
  <2> DEFINE g == PutFat(h, n, EOC)
             d == [g.d EXCEPT !.fat[c] = n]
  <2>2. Sound(g) /\ (h.bad = "none" => Loose(g.d, n))
    BY <2>1, TakeSound
  <2>3. IsSession(g) /\ g.bad = h.bad
    <3>1. Leads(h, g)
      BY PutFatLeads
    <3>2. IsDisk([h.d EXCEPT !.fat[n] = EOC])
      BY <2>1, GeometryAssumption DEF IsSession, IsDisk, Clusters
    <3>3. g.bad = h.bad
      BY <3>2, PutLeads DEF PutFat
    <3> HIDE DEF g
    <3> QED
      BY <3>1, <3>2, <3>3 DEF Leads
  <2>4. Extend(h, c, n).h = PutFat(g, c, n)
    BY <2>1 DEF Extend
  <2> HIDE DEF g
  <2>5. h.bad = "none" => Consistent(d)
    BY <2>1, <2>2, <2>3, LinkedConsistent DEF IsSession, Sound
  <2> HIDE DEF d
  <2>6. Sound(Put(g, d))
    BY <2>2, <2>3, <2>5, PutSound
  <2> QED
    BY <2>4, <2>6 DEF PutFat, n, d
<1> QED
  BY <1>1, <1>2

LEMMA NextClusterSound ==
    ASSUME NEW h, IsSession(h), Sound(h), NEW c
    PROVE  Sound(NextCluster(h, c).h)
<1> DEFINE l == Load(h, c)
<1>1. Leads(h, l) /\ IsSession(l) /\ Sound(l)
  BY LoadLeads, LoadSound DEF Leads
<1>2. Sound(Bad(l, "stale"))
  BY <1>1, BadSound
<1>3. ASSUME ~Stale(l, c), l.cache[c] = EOC PROVE Sound(Extend(l, c, Allocated(l.d)).h)
  BY <1>1, <1>3, ExtendSound DEF Stale
<1>4. \/ NextCluster(h, c).h \in {Bad(l, "stale"), l}
      \/ ~Stale(l, c) /\ l.cache[c] = EOC /\ NextCluster(h, c).h = Extend(l, c, Allocated(l.d)).h
  BY DEF NextCluster
<1> HIDE DEF l
<1> QED
  BY <1>1, <1>2, <1>3, <1>4

LEMMA SeekSound ==
    ASSUME NEW h, IsSession(h), Sound(h), NEW c, NEW off
    PROVE  Sound(Seek(h, c, off).h)
<1>1. LastCluster \in Nat
  BY GeometryAssumption
<1>2. PICK f : /\ f[0] = [h |-> h, c |-> c, off |-> off]
               /\ \A i \in 1 .. LastCluster : f[i] = SeekTurn(f[i - 1])
               /\ Seek(h, c, off) = f[LastCluster]
  BY SeekRuns
<1> DEFINE T == {i \in 0 .. LastCluster : IsSession(f[i].h) /\ Sound(f[i].h)}
<1>3. 0 \in T
  BY <1>1, <1>2
<1>4. ASSUME NEW i \in 1 .. LastCluster, i - 1 \in T PROVE i \in T
  <2> DEFINE s == f[i - 1]
             l == Load(s.h, s.c)
  <2>1. IsSession(s.h) /\ Sound(s.h) /\ f[i] = SeekTurn(s)
    BY <1>2, <1>4
  <2> HIDE DEF s
  <2>2. IsSession(l) /\ Sound(l)
    BY <2>1, LoadLeads, LoadSound DEF Leads
  <2>3. IsSession(Bad(l, "lost")) /\ Sound(Bad(l, "lost"))
    BY <2>2, BadLeads, BadSound DEF Leads, Damages
  <2>4. SeekTurn(s).h \in {s.h, l, Bad(l, "lost")}
    BY DEF SeekTurn
  <2> HIDE DEF l
  <2>5. IsSession(SeekTurn(s).h) /\ Sound(SeekTurn(s).h)
    BY <2>1, <2>2, <2>3, <2>4
  <2> QED
    BY <1>1, <2>1, <2>5
<1> HIDE DEF T
<1>5. LastCluster \in T
  BY <1>1, <1>3, <1>4, StepByStep
<1> QED
  BY <1>2, <1>5 DEF T

LEMMA TrimSound ==
    ASSUME NEW h, IsSession(h), Sound(h), NEW c
    PROVE  Sound(Trim(h, c))
<1> DEFINE l == Load(h, c)
           r == FreeRest(l, l.cache[c])
<1>1. IsSession(l) /\ Sound(l)
  BY LoadLeads, LoadSound DEF Leads
<1>2. IsSession(r)
  BY <1>1, FreeRestLeads DEF Leads
<1>3. Sound(Bad(l, "stale")) /\ Sound(Bad(r, "cut"))
  BY <1>1, <1>2, BadSound
<1>4. Trim(h, c) \in {l, Bad(l, "stale"), Bad(r, "cut")}
  BY DEF Trim
<1> QED
  BY <1>1, <1>3, <1>4

LEMMA FillSound ==
    ASSUME NEW s, IsSession(s.h), Sound(s.h), NEW input \in Inputs
    PROVE  Sound(Fill(s, input))
<1>0. input \in Seq(ToSet(input))
  BY FilesAssumption
<1> DEFINE N == Len(input) + 2
           x == [h |-> s.h, c |-> s.c, off |-> s.off, left |-> input, done |-> FALSE]
<1>1. N \in Nat
  BY <1>0
<1>2. PICK f : /\ f[0] = x
               /\ \A i \in 1 .. N : f[i] = FillTurn(f[i - 1])
               /\ Fill(s, input) = f[N].h
  BY FillRuns
<1>3. x = [y \in {"h", "c", "off", "left", "done"} |-> x[y]] /\ x.h = s.h
  OBVIOUS
<1> HIDE DEF N, x
<1> DEFINE IsTurn(t) == /\ t = [y \in {"h", "c", "off", "left", "done"} |-> t[y]]
                        /\ IsSession(t.h) /\ Sound(t.h)
           T == {i \in 0 .. N : IsTurn(f[i])}
<1>4. 0 \in T
  BY <1>1, <1>2, <1>3
<1>5. ASSUME NEW i \in 1 .. N, i - 1 \in T PROVE i \in T
  <2> DEFINE t == f[i - 1]
             put == PutData(t.h, t.c, 0, t.left)
             fit == Lesser(Len(t.left), Units - t.off)
             fill == PutData(t.h, t.c, t.off, SubSeq(t.left, 1, fit))
             next == NextCluster(fill, t.c)
             goOn == [h |-> next.h, c |-> next.c, off |-> next.off, done |-> FALSE,
                      left |-> SubSeq(t.left, fit + 1, Len(t.left))]
  <2>1. IsTurn(t) /\ f[i] = FillTurn(t)
    BY <1>2, <1>5
  <2> HIDE DEF t
  <2>2. IsSession(put) /\ Sound(put) /\ IsSession(fill) /\ Sound(fill)
    BY <2>1, PutDataLeads, PutDataSound DEF Leads
  <2>3. IsSession(Trim(put, t.c)) /\ Sound(Trim(put, t.c)) /\ IsSession(next.h) /\ Sound(next.h)
    BY <2>2, TrimLeads, NextClusterLeads, TrimSound, NextClusterSound DEF Leads
  <2>5. FillTurn(t) \in {t, goOn, [t EXCEPT !.h = Trim(put, t.c), !.done = TRUE]}
    BY DEF FillTurn
  <2> HIDE DEF put, next, fit, fill
  <2>6. IsTurn([t EXCEPT !.h = Trim(put, t.c), !.done = TRUE])
    BY <2>1, <2>3
  <2>7. IsTurn(goOn)
    BY <2>3
  <2> HIDE DEF goOn, IsTurn
  <2>8. IsTurn(FillTurn(t))
    BY <2>1, <2>5, <2>6, <2>7
  <2> QED
    BY <1>1, <2>1, <2>8
<1> HIDE DEF T
<1>6. N \in T
  BY <1>1, <1>4, <1>5, StepByStep
<1> QED
  BY <1>2, <1>6 DEF T

-----------------------------------------------------------------------------
(* Entries. *)

\* The name of an entry is passed to a slot of the window, or to the place behind it.
LEMMA NamesPassed ==
    ASSUME NEW w, NEW N \in Nat, Len(w) = N, NEW i \in 1 .. N
    PROVE  /\ SkipName(w, i) \in i .. N + 1
           /\ SkipName(w, i) <= N => w[SkipName(w, i)].k # "long"
           /\ \A m \in i .. SkipName(w, i) - 1 : w[m].k = "long"
<1>1. CASE \A j \in i .. N : w[j].k = "long"
  <2>1. SkipName(w, i) = N + 1
    BY <1>1 DEF SkipName
  <2> QED
    BY <1>1, <2>1
<1>2. CASE \E j \in i .. N : w[j].k # "long"
  <2> DEFINE S == {j \in i .. N : w[j].k # "long"}
             P(j) == w[j].k # "long" /\ \A m \in i .. j - 1 : w[m].k = "long"
  <2>1. S \in SUBSET Nat /\ S # {}
    BY <1>2
  <2>2. PICK l \in S : \A j \in S : l <= j
    BY <2>1, LeastOfNaturals
  <2>3. \A m \in i .. l - 1 : w[m].k = "long"
    BY <2>2
  <2>4. SkipName(w, i) = CHOOSE j \in i .. N : P(j)
    BY <1>2 DEF SkipName
  <2>5. \E j \in i .. N : P(j)
    BY <2>2, <2>3
  <2>6. SkipName(w, i) \in i .. N /\ P(SkipName(w, i))
    BY <2>4, <2>5
  <2> QED
    BY <2>6
<1> QED
  BY <1>1, <1>2

LEMMA WindowSlots ==
    ASSUME NEW d, IsDisk(d), NEW c \in Clusters
    PROVE  /\ Len(Window(d, c)) = 2 * Slots
           /\ \A i \in 1 .. Slots : Window(d, c)[i] = d.slots[c][i]
           /\ \A i \in Slots + 1 .. 2 * Slots :
                 Window(d, c)[i] = IF d.fat[c] \in Clusters THEN d.slots[d.fat[c]][i - Slots] ELSE Junk
<1> DEFINE s == d.slots[c]
           t == IF d.fat[c] \in Clusters THEN d.slots[d.fat[c]] ELSE [i \in 1 .. Slots |-> Junk]
<1>1. Slots \in Nat
  BY GeometryAssumption
<1>2. s = [i \in 1 .. Slots |-> s[i]]
  BY DEF IsDisk
<1>3. t = [i \in 1 .. Slots |-> t[i]]
  BY DEF IsDisk
<1>4. Window(d, c) = s \o t
  BY DEF Window
<1>5. \A i \in 1 .. Slots : t[i] = IF d.fat[c] \in Clusters THEN d.slots[d.fat[c]][i] ELSE Junk
  OBVIOUS
<1> HIDE DEF s, t
<1>6. IsList(s) /\ Len(s) = Slots /\ IsList(t) /\ Len(t) = Slots
  BY <1>1, <1>2, <1>3, FunctionIsList
<1>7. /\ Len(s \o t) = Len(s) + Len(t)
      /\ \A i \in 1 .. Len(s) : (s \o t)[i] = s[i]
      /\ \A i \in 1 .. Len(t) : (s \o t)[Len(s) + i] = t[i]
  <2>1. IsList(s) /\ IsList(t)
    BY <1>6
  <2> QED
    BY <2>1, JoinLists
<1>8. ASSUME NEW i \in Slots + 1 .. 2 * Slots
      PROVE  Window(d, c)[i] = IF d.fat[c] \in Clusters THEN d.slots[d.fat[c]][i - Slots] ELSE Junk
  <2>1. i - Slots \in 1 .. Slots /\ Slots + (i - Slots) = i
    BY <1>1
  <2>2. (s \o t)[i] = t[i - Slots]
    BY <1>6, <1>7, <2>1
  <2>3. t[i - Slots] = IF d.fat[c] \in Clusters THEN d.slots[d.fat[c]][i - Slots] ELSE Junk
    BY <1>5, <2>1
  <2> QED
    BY <1>4, <2>2, <2>3
<1>9. ASSUME NEW i \in 1 .. Slots PROVE Window(d, c)[i] = d.slots[c][i]
  BY <1>4, <1>6, <1>7 DEF s
<1>10. Len(Window(d, c)) = 2 * Slots
  BY <1>1, <1>4, <1>6, <1>7
<1> QED
  BY <1>8, <1>9, <1>10

LEMMA PlacesAre == \A p \in Places : p = <<p[1], p[2]>> /\ p[1] \in Clusters /\ p[2] \in 1 .. Slots
BY DEF Places

\* Where an entry's short slot lies, what it holds, and what lies between.
LEMMA EntryIsThere ==
    ASSUME NEW d, IsDisk(d), NEW p \in Places
    PROVE  \E n \in p[2] .. 2 * Slots + 1 :
              /\ n = SkipName(Window(d, p[1]), p[2])
              /\ ShortAt(d, p) = SlotAt(d, p[1], n)
              /\ \A m \in p[2] .. n - 1 : Window(d, p[1])[m].k = "long"
              /\ IF n <= 2 * Slots THEN Entry(d, p) = Window(d, p[1])[n] /\ Entry(d, p).k # "long"
                                   ELSE Entry(d, p) = Junk
<1> DEFINE w == Window(d, p[1])
           n == SkipName(w, p[2])
<1>1. Slots \in Nat /\ p[1] \in Clusters /\ p[2] \in 1 .. Slots
  BY PlacesAre, GeometryAssumption
<1>2. Len(w) = 2 * Slots /\ 2 * Slots \in Nat /\ p[2] \in 1 .. 2 * Slots
  BY <1>1, WindowSlots
<1>3. /\ n \in p[2] .. 2 * Slots + 1 /\ (n <= 2 * Slots => w[n].k # "long")
      /\ \A m \in p[2] .. n - 1 : w[m].k = "long"
  BY <1>2, NamesPassed
<1>4. Entry(d, p) = IF n > 2 * Slots THEN Junk ELSE w[n]
  BY <1>2 DEF Entry, EntryAt
<1>5. ShortAt(d, p) = SlotAt(d, p[1], n)
  BY DEF ShortAt
<1> HIDE DEF w
<1>6. n <= 2 * Slots => ~(n > 2 * Slots)
  BY <1>1, <1>3
<1>7. ~(n <= 2 * Slots) => n > 2 * Slots
  BY <1>1, <1>3
<1> HIDE DEF n
<1> QED
  BY <1>3, <1>4, <1>5, <1>6, <1>7 DEF w, n

LEMMA NextIsSpot ==
    ASSUME NEW d, IsDisk(d), NEW p \in Places
    PROVE  NextEntry(d, p) \in Spots
<1> DEFINE w == Window(d, p[1])
           n == SkipName(w, p[2])
           b == Behind(d, p)
<1>1. Slots \in Nat /\ p[1] \in Clusters
  BY PlacesAre, GeometryAssumption
<1>2. n \in 1 .. 2 * Slots + 1
  BY EntryIsThere, PlacesAre, <1>1
<1>3. b = n + 1 /\ Len(w) = 2 * Slots
  BY <1>1, WindowSlots DEF Behind
<1>4. NextEntry(d, p) \in {End, Lost}
      \/ (~(b > 2 * Slots) /\ w[b].k # "junk" /\ NextEntry(d, p) = SlotAt(d, p[1], b))
  BY <1>3 DEF NextEntry
<1> HIDE DEF n, b
<1>5. ASSUME ~(b > 2 * Slots), w[b].k # "junk" PROVE SlotAt(d, p[1], b) \in Places
  <2>1. CASE b <= Slots
    <3>1. b \in 1 .. Slots
      BY <1>1, <1>2, <1>3, <2>1
    <3> QED
      BY <1>1, <2>1, <3>1 DEF SlotAt, Places
  <2>2. CASE ~(b <= Slots)
    <3>1. b \in Slots + 1 .. 2 * Slots /\ b - Slots \in 1 .. Slots
      BY <1>1, <1>2, <1>3, <1>5, <2>2
    <3>2. d.fat[p[1]] \in Clusters
      <4>1. w[b] = IF d.fat[p[1]] \in Clusters THEN d.slots[d.fat[p[1]]][b - Slots] ELSE Junk
        BY <1>1, <3>1, WindowSlots
      <4>2. Junk.k = "junk"
        BY DEF Junk, Zero
      <4> QED
        BY <1>5, <4>1, <4>2
    <3> QED
      BY <2>2, <3>1, <3>2 DEF SlotAt, Places
  <2> QED
    BY <2>1, <2>2
<1> QED
  BY <1>4, <1>5 DEF Spots

\* The short slot of an entry holds it.
LEMMA ShortSlot ==
    ASSUME NEW d, IsDisk(d), NEW p \in Places, ShortAt(d, p) \in Places
    PROVE  d.slots[ShortAt(d, p)[1]][ShortAt(d, p)[2]] = Entry(d, p) /\ Entry(d, p).k # "long"
<1>1. PICK n \in p[2] .. 2 * Slots + 1 :
              /\ ShortAt(d, p) = SlotAt(d, p[1], n)
              /\ IF n <= 2 * Slots THEN Entry(d, p) = Window(d, p[1])[n] /\ Entry(d, p).k # "long"
                                   ELSE Entry(d, p) = Junk
  BY EntryIsThere
<1>2. Slots \in Nat /\ p[1] \in Clusters /\ p[2] \in 1 .. Slots
  BY PlacesAre, GeometryAssumption
<1>3. CASE n <= Slots
  <2>1. ShortAt(d, p) = <<p[1], n>> /\ n \in 1 .. Slots /\ n <= 2 * Slots
    BY <1>1, <1>2, <1>3 DEF SlotAt
  <2>2. Window(d, p[1])[n] = d.slots[p[1]][n]
    BY <1>2, <2>1, WindowSlots
  <2> QED
    BY <1>1, <2>1, <2>2
<1>4. CASE ~(n <= Slots)
  <2>1. ShortAt(d, p) = <<d.fat[p[1]], n - Slots>>
    BY <1>1, <1>4 DEF SlotAt
  <2>2. d.fat[p[1]] \in Clusters /\ n - Slots \in 1 .. Slots
    BY <2>1, PlacesAre
  <2>3. n \in Slots + 1 .. 2 * Slots /\ n <= 2 * Slots
    BY <1>2, <1>4, <2>2
  <2>4. Window(d, p[1])[n] = d.slots[d.fat[p[1]]][n - Slots]
    BY <1>2, <2>2, <2>3, WindowSlots
  <2> QED
    BY <1>1, <2>1, <2>3, <2>4
<1> QED
  BY <1>3, <1>4

LEMMA JunkIsSlot == IsSlot(Junk)
BY DEF IsSlot, Junk, Zero

LEMMA SlotsAreSlots ==
    ASSUME NEW d, Consistent(d), NEW c \in Clusters, NEW i \in 1 .. Slots
    PROVE  IsSlot(d.slots[c][i])
<1>1. <<c, i>> \in Places
  BY DEF Places
<1> QED
  BY <1>1 DEF Consistent

LEMMA EntryIsSlot ==
    ASSUME NEW d, IsDisk(d), Consistent(d), NEW p \in Places
    PROVE  IsSlot(Entry(d, p))
<1>1. PICK n \in p[2] .. 2 * Slots + 1 :
              IF n <= 2 * Slots THEN Entry(d, p) = Window(d, p[1])[n] ELSE Entry(d, p) = Junk
  BY EntryIsThere
<1>2. Slots \in Nat /\ p[1] \in Clusters /\ p[2] \in 1 .. Slots
  BY PlacesAre, GeometryAssumption
<1>3. IsSlot(Junk)
  BY JunkIsSlot
<1>4. \A c \in Clusters, i \in 1 .. Slots : IsSlot(d.slots[c][i])
  BY SlotsAreSlots
<1>5. CASE n <= Slots
  <2>1. n \in 1 .. Slots /\ n <= 2 * Slots
    BY <1>2, <1>5
  <2> QED
    BY <1>1, <1>2, <1>4, <2>1, WindowSlots
<1>6. CASE ~(n <= Slots) /\ n <= 2 * Slots
  <2>1. n \in Slots + 1 .. 2 * Slots /\ n - Slots \in 1 .. Slots
    BY <1>2, <1>6
  <2>2. Entry(d, p) = IF d.fat[p[1]] \in Clusters THEN d.slots[d.fat[p[1]]][n - Slots] ELSE Junk
    BY <1>1, <1>2, <1>6, <2>1, WindowSlots
  <2> QED
    BY <1>3, <1>4, <2>1, <2>2
<1>7. CASE ~(n <= 2 * Slots)
  BY <1>1, <1>3, <1>7
<1> QED
  BY <1>5, <1>6, <1>7

\* What an entry is does not depend on the table but for the window's second cluster.
LEMMA SameWindow ==
    ASSUME NEW d, NEW e, e.slots = d.slots, NEW p,
           e.fat[p[1]] = d.fat[p[1]] \/ (e.fat[p[1]] \notin Clusters /\ d.fat[p[1]] \notin Clusters)
    PROVE  Window(e, p[1]) = Window(d, p[1]) /\ Entry(e, p) = Entry(d, p)
<1>1. Window(e, p[1]) = Window(d, p[1])
  BY DEF Window
<1> QED
  BY <1>1 DEF Entry

\* An entry is written back: the same but for the size, or it gets a cluster nothing leads to.
LEMMA PutEntrySound ==
    ASSUME NEW h, IsSession(h), Sound(h), NEW p \in Places, NEW e,
           h.bad = "none" => /\ IsSlot(e) /\ e.k = Entry(h.d, p).k /\ e.name = Entry(h.d, p).name
                             /\ e.first = Entry(h.d, p).first \/ Loose(h.d, e.first)
    PROVE  Sound(PutEntry(h, p, e))
<1> DEFINE q == ShortAt(h.d, p)
           d == [h.d EXCEPT !.slots[q[1]][q[2]] = e]
<1>1. ASSUME h.bad = "none" PROVE Consistent(d)
  <2>0. IsDisk(h.d) /\ Consistent(h.d)
    BY <1>1 DEF IsSession, Sound
  <2>1. /\ d.fat = h.d.fat
        /\ \A x \in Places : d.slots[x[1]][x[2]] = IF x[1] = q[1] /\ x[2] = q[2] THEN e
                                                   ELSE h.d.slots[x[1]][x[2]]
    <3>1. d.fat = h.d.fat /\ d.slots = [h.d.slots EXCEPT ![q[1]][q[2]] = e] /\ DOMAIN h.d.slots = Clusters
      BY <2>0 DEF IsDisk
    <3> HIDE DEF d
    <3> HIDE DEF q
    <3> DEFINE t == [h.d.slots[q[1]] EXCEPT ![q[2]] = e]
    <3>2. \A c \in Clusters : d.slots[c] = IF c = q[1] THEN t ELSE h.d.slots[c]
      BY <3>1
    <3>3. ASSUME NEW x \in Places
          PROVE  d.slots[x[1]][x[2]] = IF x[1] = q[1] /\ x[2] = q[2] THEN e ELSE h.d.slots[x[1]][x[2]]
      <4>1. x[1] \in Clusters /\ x[2] \in 1 .. Slots /\ DOMAIN h.d.slots[x[1]] = 1 .. Slots
        BY <2>0, PlacesAre DEF IsDisk
      <4>2. x[1] = q[1] => t[x[2]] = IF x[2] = q[2] THEN e ELSE h.d.slots[x[1]][x[2]]
        BY <4>1
      <4> HIDE DEF t
      <4> QED
        BY <3>2, <4>1, <4>2
    <3> QED
      BY <3>1, <3>3
  <2>2. q \in Places => h.d.slots[q[1]][q[2]] = Entry(h.d, p)
    BY <2>0, ShortSlot
  <2> HIDE DEF q, d
  <2>3. \A x \in Places : IsSlot(d.slots[x[1]][x[2]])
    BY <1>1, <2>0, <2>1 DEF Consistent
  <2>4. ASSUME NEW x \in Owners(d)
        PROVE  \/ x \in Owners(h.d) /\ First(d, x) = First(h.d, x)
               \/ x = <<q[1], q[2]>> /\ First(d, x) = e.first /\ Loose(h.d, e.first)
    <3>1. x \in Places /\ x = <<x[1], x[2]>>
      BY PlacesAre DEF Owners
    <3>2. CASE x[1] = q[1] /\ x[2] = q[2]
      <4>1. d.slots[x[1]][x[2]] = e /\ First(d, x) = e.first
        BY <2>1, <3>1, <3>2 DEF First
      <4>2. CASE Loose(h.d, e.first)
        BY <3>1, <3>2, <4>1, <4>2
      <4>3. CASE e.first = Entry(h.d, p).first
        <5>1. h.d.slots[x[1]][x[2]] = Entry(h.d, p)
          <6>1. q = <<q[1], q[2]>>
            BY DEF q, ShortAt, SlotAt
          <6>2. q \in Places
            BY <3>1, <3>2, <6>1
          <6> QED
            BY <2>2, <3>2, <6>2
        <5>2. e.k # "long" /\ ~Hidden(e) /\ e.first # 0
          BY <4>1 DEF Owners
        <5>3. x \in Owners(h.d)
          BY <1>1, <3>1, <4>3, <5>1, <5>2 DEF Owners, Hidden
        <5> QED
          BY <4>1, <4>3, <5>1, <5>3 DEF First
      <4> QED
        BY <1>1, <4>2, <4>3
    <3>3. CASE ~(x[1] = q[1] /\ x[2] = q[2])
      BY <2>1, <3>1, <3>3 DEF Owners, First
    <3> QED
      BY <3>2, <3>3
  <2> QED
    BY <2>0, <2>1, <2>3, <2>4, SlotsConsistent
<1> HIDE DEF d
<1>2. Sound(Put(h, d))
  BY <1>1, PutSound
<1> QED
  BY <1>2 DEF PutEntry, PutSlot, d, q

LEMMA FirstClusterSound ==
    ASSUME NEW h, IsSession(h), Sound(h), NEW p \in Places
    PROVE  Sound(FirstCluster(h, p))
<1> DEFINE n == Allocated(h.d)
           g == PutFat(h, n, EOC)
           e == [Entry(h.d, p) EXCEPT !.first = n]
<1>1. FirstCluster(h, p) \in {h, Bad(h, "full")} \/ (n # 0 /\ FirstCluster(h, p) = PutEntry(g, p, e))
  BY DEF FirstCluster
<1>2. ASSUME n # 0 PROVE Sound(PutEntry(g, p, e))
  <2>1. n \in Clusters /\ h.d.fat[n] = 0
    BY <1>2, AllocatedFree
  <2> HIDE DEF n
  <2>2. Sound(g) /\ (h.bad = "none" => Loose(g.d, n))
    BY <2>1, TakeSound
  <2>3. IsDisk([h.d EXCEPT !.fat[n] = EOC])
    BY <2>1, GeometryAssumption DEF IsSession, IsDisk, Clusters
  <2>4. IsSession(g) /\ g.bad = h.bad /\ g.d = [h.d EXCEPT !.fat[n] = EOC]
    BY <2>3, PutLeads DEF PutFat, Leads
  <2> HIDE DEF g
  <2>5. g.d.slots = h.d.slots /\ \A c \in Clusters : g.d.fat[c] = IF c = n THEN EOC ELSE h.d.fat[c]
    <3> DEFINE d == [h.d EXCEPT !.fat[n] = EOC]
    <3>1. IsDisk(h.d) /\ n \in 0 .. LastCluster /\ Clusters \subseteq 0 .. LastCluster
      BY <2>1, GeometryAssumption DEF IsSession, Clusters
    <3>2. d.slots = h.d.slots /\ \A c \in 0 .. LastCluster : d.fat[c] = IF c = n THEN EOC ELSE h.d.fat[c]
      BY <3>1 DEF IsDisk
    <3>3. g.d = d
      BY <2>4
    <3> HIDE DEF d
    <3> QED
      BY <3>1, <3>2, <3>3
  <2>6. Entry(g.d, p) = Entry(h.d, p)
    <3>1. p[1] \in Clusters
      BY PlacesAre
    <3>2. g.d.fat[p[1]] = h.d.fat[p[1]] \/ (g.d.fat[p[1]] \notin Clusters /\ h.d.fat[p[1]] \notin Clusters)
      BY <2>1, <2>5, <3>1 DEF EOC, Clusters
    <3> QED
      BY <2>5, <3>2, SameWindow
  <2>7. h.bad = "none" => IsSlot(Entry(h.d, p))
    BY EntryIsSlot DEF IsSession, Sound
  <2>8. h.bad = "none" => IsSlot(e) /\ e.k = Entry(h.d, p).k /\ e.name = Entry(h.d, p).name /\ e.first = n
    BY <2>7 DEF IsSlot
  <2> HIDE DEF e
  <2> QED
    BY <2>2, <2>4, <2>6, <2>8, PutEntrySound
<1> HIDE DEF n, g, e
<1> QED
  BY <1>1, <1>2, BadSound

LEMMA PutInputSound ==
    ASSUME NEW h, IsSession(h), Sound(h), NEW p \in Places, NEW off, NEW input \in Inputs
    PROVE  Sound(PutInput(h, p, off, input))
<1> DEFINE r == ReadTable(h)
           s == Seek(r, Entry(h.d, p).first, off)
           f == Fill(s, input)
           e == [Entry(f.d, p) EXCEPT !.size = Len(input)]
<1>1. IsSession(r) /\ Sound(r)
  BY ReadTableLeads, ReadTableSound DEF Leads
<1>2. IsSession(s.h) /\ Sound(s.h)
  BY <1>1, SeekLeads, SeekSound DEF Leads
<1>3. IsSession(f) /\ Sound(f)
  BY <1>2, FillLeads, FillSound DEF Leads
<1>5. PutInput(h, p, off, input) \in {h, f, PutEntry(f, p, e)}
  BY DEF PutInput, PutSize
<1> HIDE DEF f, s, r
<1>6. f.bad = "none" => IsSlot(Entry(f.d, p))
  BY <1>3, EntryIsSlot DEF IsSession, Sound
<1>9. Len(input) \in Nat
  <2>1. input \in Seq(ToSet(input))
    BY FilesAssumption
  <2> QED
    BY <2>1
<1>7. f.bad = "none" => /\ IsSlot(e) /\ e.k = Entry(f.d, p).k /\ e.name = Entry(f.d, p).name
                        /\ e.first = Entry(f.d, p).first
  BY <1>6, <1>9 DEF IsSlot
<1> HIDE DEF e
<1>8. Sound(PutEntry(f, p, e))
  BY <1>3, <1>7, PutEntrySound
<1> QED
  BY <1>3, <1>5, <1>8

LEMMA WriteFileSound ==
    ASSUME NEW h, IsSession(h), Sound(h), NEW node, node.at \in Places, NEW input \in Inputs
    PROVE  Sound(WriteFile(h, node, input))
<1> DEFINE f == FirstCluster(h, node.at)
<1>1. IsSession(f) /\ Sound(f)
  BY FirstClusterLeads, FirstClusterSound DEF Leads
<1>2. Sound(PutInput(f, node.at, node.off, input))
  BY <1>1, PutInputSound
<1>4. WriteFile(h, node, input) \in {h, PutInput(f, node.at, node.off, input)}
  BY DEF WriteFile
<1> QED
  BY <1>2, <1>4

\* Slots of which only the m-th may lead to a cluster, then to n.
Leads1(slots, m, n) ==
    \A j \in DOMAIN slots : /\ IsSlot(slots[j])
                            /\ \/ slots[j].k = "long" \/ Hidden(slots[j]) \/ slots[j].first = 0
                               \/ j = m /\ slots[j].first = n

LEMMA PutDirentSound ==
    ASSUME NEW h, IsSession(h), Sound(h), NEW p \in Places, NEW slots, NEW m, NEW n,
           Leads1(slots, m, n), n # 0 /\ h.bad = "none" => Loose(h.d, n)
    PROVE  Sound(PutDirent(h, p, slots))
<1> DEFINE c == p[1]
           b == h.d.fat[c]
           w == Window(h.d, c)
           new == [i \in 1 .. 2 * Slots |-> IF i - p[2] + 1 \in DOMAIN slots THEN slots[i - p[2] + 1] ELSE w[i]]
           first == [i \in 1 .. Slots |-> new[i]]
           second == [i \in 1 .. Slots |-> new[Slots + i]]
           dg == [h.d EXCEPT !.slots[c] = first]
           g == Put(h, dg)
           df == [dg EXCEPT !.slots[b] = second]
           f == Put(g, df)
<1>1. /\ Slots \in Nat /\ c \in Clusters /\ p[2] \in 1 .. Slots /\ IsDisk(h.d)
  BY PlacesAre, GeometryAssumption DEF IsSession
<1>2. dg.fat = h.d.fat /\ DOMAIN dg = DOMAIN h.d
      /\ \A x \in Clusters : dg.slots[x] = IF x = c THEN first ELSE h.d.slots[x]
  BY <1>1 DEF IsDisk
<1>3. IsDisk(dg)
  <2>1. first = [i \in 1 .. Slots |-> first[i]]
    OBVIOUS
  <2> HIDE DEF first
  <2> QED
    BY <1>1, <2>1 DEF IsDisk
<1>4. df.fat = h.d.fat /\ \A x \in Clusters : df.slots[x] = IF x = b THEN second ELSE dg.slots[x]
  <2> HIDE DEF dg, second
  <2> QED
    BY <1>2, <1>3 DEF IsDisk
<1>5. \A i \in 1 .. Slots : first[i] = new[i] /\ second[i] = new[Slots + i]
  OBVIOUS
<1>6. PutDirent(h, p, slots) \in {g, Bad(g, "torn")} \/ (b \in Clusters /\ PutDirent(h, p, slots) = f)
  <2>1. IsDisk(dg) /\ g.d = dg
    BY <1>3, PutLeads
  <2>2. PutDirent(h, p, slots) =
          IF b \in Clusters THEN Put(g, [g.d EXCEPT !.slots[b] = second])
          ELSE IF p[2] + Len(slots) - 1 > Slots THEN Bad(g, "torn") ELSE g
    BY DEF PutDirent
  <2> HIDE DEF g, dg, second
  <2> QED
    BY <2>1, <2>2
<1> HIDE DEF first, second, dg, df
\* The slot i of the window comes from the new ones or is as it was.
<1> DEFINE New(i) == IsSlot(new[i]) /\ (\/ new[i] = w[i]
                                        \/ new[i].k = "long" \/ Hidden(new[i]) \/ new[i].first = 0
                                        \/ i - p[2] + 1 = m /\ new[i].first = n)
<1>7. ASSUME h.bad = "none", NEW i \in 1 .. 2 * Slots, i <= Slots \/ b \in Clusters
      PROVE  New(i)
  <2>1. CASE i - p[2] + 1 \in DOMAIN slots
    BY <2>1 DEF Leads1
  <2>2. CASE i - p[2] + 1 \notin DOMAIN slots
    <3>1. new[i] = w[i]
      BY <2>2
    <3>2. IsSlot(w[i])
      <4>2. \A x \in Clusters, y \in 1 .. Slots : IsSlot(h.d.slots[x][y])
        BY <1>7, SlotsAreSlots DEF Sound
      <4>3. CASE i <= Slots
        <5>1. i \in 1 .. Slots
          BY <1>1, <4>3
        <5> QED
          BY <1>1, <4>2, <5>1, WindowSlots
      <4>4. CASE ~(i <= Slots)
        <5>1. i \in Slots + 1 .. 2 * Slots /\ i - Slots \in 1 .. Slots /\ b \in Clusters
          BY <1>1, <1>7, <4>4
        <5>2. w[i] = h.d.slots[b][i - Slots]
          BY <1>1, <5>1, WindowSlots
        <5> QED
          BY <4>2, <5>1, <5>2
      <4> QED
        BY <4>3, <4>4
    <3> HIDE DEF new, w
    <3> QED
      BY <3>1, <3>2
  <2> QED
    BY <2>1, <2>2
<1>8. \A i \in 1 .. Slots : w[i] = h.d.slots[c][i] /\ (b \in Clusters => w[Slots + i] = h.d.slots[b][i])
  <2> SUFFICES ASSUME NEW i \in 1 .. Slots
               PROVE  w[i] = h.d.slots[c][i] /\ (b \in Clusters => w[Slots + i] = h.d.slots[b][i])
    OBVIOUS
  <2>1. Slots + i \in Slots + 1 .. 2 * Slots /\ (Slots + i) - Slots = i
    BY <1>1
  <2> QED
    BY <1>1, <2>1, WindowSlots
<1>9. \A i \in 1 .. Slots : i \in 1 .. 2 * Slots /\ Slots + i \in 1 .. 2 * Slots /\ ~(Slots + i <= Slots)
  BY <1>1
<1> DEFINE k == m + p[2] - 1
           q == IF k <= Slots THEN <<c, k>> ELSE <<b, k - Slots>>
<1>10. ASSUME NEW i \in 1 .. 2 * Slots, i - p[2] + 1 = m PROVE k = i
  BY <1>1, <1>10
<1> HIDE DEF new, w, c, b, k, New
<1>11. ASSUME h.bad = "none" PROVE Consistent(dg)
  <2>1. ASSUME NEW x \in Places
        PROVE  \/ x[1] # c /\ dg.slots[x[1]][x[2]] = h.d.slots[x[1]][x[2]]
               \/ /\ x[1] = c /\ dg.slots[x[1]][x[2]] = new[x[2]] /\ h.d.slots[x[1]][x[2]] = w[x[2]]
                  /\ New(x[2]) /\ x[2] \in 1 .. Slots /\ x[2] \in 1 .. 2 * Slots
    <3>1. x[1] \in Clusters /\ x[2] \in 1 .. Slots
      BY PlacesAre
    <3>2. x[2] \in 1 .. 2 * Slots /\ x[2] <= Slots
      BY <1>9, <3>1
    <3>3. New(x[2])
      BY <1>7, <1>11, <3>2
    <3> QED
      BY <1>2, <1>5, <1>8, <3>1, <3>2, <3>3
  <2>2. \A x \in Places : IsSlot(dg.slots[x[1]][x[2]])
    BY <1>11, <2>1 DEF New, Sound, Consistent
  <2>3. ASSUME NEW x \in Owners(dg)
        PROVE  \/ x \in Owners(h.d) /\ First(dg, x) = First(h.d, x)
               \/ x = q /\ First(dg, x) = n /\ Loose(h.d, n)
    <3>1. x \in Places /\ x = <<x[1], x[2]>>
      BY PlacesAre DEF Owners
    <3>2. CASE dg.slots[x[1]][x[2]] = h.d.slots[x[1]][x[2]]
      BY <3>1, <3>2 DEF Owners, First
    <3>3. CASE /\ x[1] = c /\ dg.slots[x[1]][x[2]] = new[x[2]] /\ x[2] \in 1 .. Slots
               /\ x[2] - p[2] + 1 = m /\ new[x[2]].first = n
      <4>1. k = x[2] /\ k <= Slots
        BY <1>1, <1>9, <1>10, <3>3
      <4>2. x = q
        BY <3>1, <3>3, <4>1
      <4>3. n # 0 /\ First(dg, x) = n
        BY <3>3 DEF Owners, First
      <4> QED
        BY <1>11, <4>2, <4>3
    <3> QED
      BY <2>1, <3>1, <3>2, <3>3 DEF New, Owners
  <2> QED
    BY <1>2, <1>11, <2>2, <2>3, SlotsConsistent DEF Sound
<1>12. ASSUME h.bad = "none", b \in Clusters PROVE Consistent(df)
  <2>1. ASSUME NEW x \in Places
        PROVE  \/ df.slots[x[1]][x[2]] = h.d.slots[x[1]][x[2]]
               \/ /\ x[1] = c /\ df.slots[x[1]][x[2]] = new[x[2]] /\ h.d.slots[x[1]][x[2]] = w[x[2]]
                  /\ New(x[2]) /\ x[2] \in 1 .. Slots /\ x[2] \in 1 .. 2 * Slots /\ x[2] <= Slots
               \/ /\ x[1] = b /\ df.slots[x[1]][x[2]] = new[Slots + x[2]]
                  /\ h.d.slots[x[1]][x[2]] = w[Slots + x[2]]
                  /\ New(Slots + x[2]) /\ x[2] \in 1 .. Slots /\ Slots + x[2] \in 1 .. 2 * Slots
                  /\ ~(Slots + x[2] <= Slots)
    <3>1. x[1] \in Clusters /\ x[2] \in 1 .. Slots
      BY PlacesAre
    <3>2. /\ x[2] \in 1 .. 2 * Slots /\ x[2] <= Slots
          /\ Slots + x[2] \in 1 .. 2 * Slots /\ ~(Slots + x[2] <= Slots)
      BY <1>1, <1>9, <3>1
    <3>3. New(x[2]) /\ New(Slots + x[2])
      BY <1>7, <1>12, <3>2
    <3> QED
      BY <1>2, <1>4, <1>5, <1>8, <1>12, <3>1, <3>2, <3>3
  <2>2. \A x \in Places : IsSlot(df.slots[x[1]][x[2]])
    BY <1>12, <2>1 DEF New, Sound, Consistent
  <2>3. ASSUME NEW x \in Owners(df)
        PROVE  \/ x \in Owners(h.d) /\ First(df, x) = First(h.d, x)
               \/ x = q /\ First(df, x) = n /\ Loose(h.d, n)
    <3>1. x \in Places /\ x = <<x[1], x[2]>>
      BY PlacesAre DEF Owners
    <3>2. CASE df.slots[x[1]][x[2]] = h.d.slots[x[1]][x[2]]
      BY <3>1, <3>2 DEF Owners, First
    <3>3. ASSUME NEW i \in 1 .. 2 * Slots, df.slots[x[1]][x[2]] = new[i], i - p[2] + 1 = m, new[i].first = n,
                 (x[1] = c /\ i = x[2] /\ i <= Slots) \/ (x[1] = b /\ i = Slots + x[2] /\ ~(i <= Slots))
          PROVE  x = q /\ First(df, x) = n /\ Loose(h.d, n)
      <4>1. k = i
        BY <1>10, <3>3
      <4>2. x = q
        <5>1. CASE x[1] = c /\ i = x[2] /\ i <= Slots
          BY <3>1, <4>1, <5>1
        <5>2. CASE x[1] = b /\ i = Slots + x[2] /\ ~(i <= Slots)
          <6>1. x[2] = k - Slots
            BY <1>1, <3>1, <4>1, <5>2, PlacesAre
          <6> QED
            BY <3>1, <4>1, <5>2, <6>1
        <5> QED
          BY <3>3, <5>1, <5>2
      <4>3. n # 0 /\ First(df, x) = n
        BY <3>3 DEF Owners, First
      <4> QED
        BY <1>12, <4>2, <4>3
    <3>4. CASE /\ x[1] = c /\ df.slots[x[1]][x[2]] = new[x[2]] /\ x[2] \in 1 .. 2 * Slots /\ x[2] <= Slots
               /\ x[2] - p[2] + 1 = m /\ new[x[2]].first = n
      BY <3>3, <3>4
    <3>5. CASE /\ x[1] = b /\ df.slots[x[1]][x[2]] = new[Slots + x[2]] /\ Slots + x[2] \in 1 .. 2 * Slots
               /\ ~(Slots + x[2] <= Slots) /\ (Slots + x[2]) - p[2] + 1 = m /\ new[Slots + x[2]].first = n
      BY <3>3, <3>5
    <3> QED
      BY <2>1, <3>1, <3>2, <3>4, <3>5 DEF New, Owners
  <2>4. Consistent(h.d) /\ df.fat = h.d.fat
    BY <1>4, <1>12 DEF Sound
  <2> HIDE DEF df
  <2> QED
    BY <2>2, <2>3, <2>4, SlotsConsistent
<1> HIDE DEF q
<1>13. Sound(g) /\ IsSession(g) /\ g.bad = h.bad
  BY <1>3, <1>11, PutSound, PutLeads DEF Leads
<1> HIDE DEF g
<1>14. b \in Clusters => Sound(f)
  BY <1>12, <1>13, PutSound
<1>15. Sound(Bad(g, "torn"))
  BY <1>13, BadSound
<1> QED
  BY <1>6, <1>13, <1>14, <1>15

LEMMA DotFilesHidden ==
    ASSUME NEW c, NEW parent, NEW i \in 1 .. Slots
    PROVE  LET e == DotFiles(c, parent)[i] IN IsSlot(e) /\ (Hidden(e) \/ e.first = 0)
<1> DEFINE two == <<Short(".", c, 0, {"dir"}), Short("..", parent, 0, {"dir"})>>
           rest == [j \in 1 .. Slots - 2 |-> Zero]
<1>1. IsList(two) /\ Len(two) = 2
  BY DEF IsList
<1>2. IsList(rest) /\ Len(rest) = Slots - 2 /\ Slots \in Nat
  BY GeometryAssumption, FunctionIsList
<1>3. DotFiles(c, parent) = two \o rest
  BY DEF DotFiles
<1>4. \A j \in 1 .. 2 : IsSlot(two[j]) /\ Hidden(two[j])
  BY DEF Short, IsSlot, Hidden
<1>5. \A j \in 1 .. Slots - 2 : rest[j] = Zero
  OBVIOUS
<1>6. IsSlot(Zero) /\ Zero.first = 0
  BY DEF Zero, IsSlot
<1> HIDE DEF two, rest
<1>7. /\ \A j \in 1 .. Len(two) : (two \o rest)[j] = two[j]
      /\ \A j \in 1 .. Len(rest) : (two \o rest)[Len(two) + j] = rest[j]
  <2>1. IsList(two) /\ IsList(rest)
    BY <1>1, <1>2
  <2> QED
    BY <2>1, JoinLists
<1>8. CASE i \in 1 .. 2
  BY <1>1, <1>3, <1>4, <1>7, <1>8
<1>9. CASE i \notin 1 .. 2
  <2>1. i - 2 \in 1 .. Slots - 2 /\ 2 + (i - 2) = i
    BY <1>2, <1>9
  <2>2. (two \o rest)[i] = Zero
    <3>1. (two \o rest)[2 + (i - 2)] = rest[i - 2]
      BY <1>1, <1>2, <1>7, <2>1
    <3> QED
      BY <1>5, <2>1, <3>1
  <2> QED
    BY <1>3, <1>6, <2>2
<1> QED
  BY <1>8, <1>9

LEMMA PutDotFilesSound ==
    ASSUME NEW h, IsSession(h), Sound(h), NEW n \in Clusters, h.d.fat[n] = 0, NEW parent
    PROVE  /\ Sound(PutDotFiles(h, n, parent))
           /\ PutDotFiles(h, n, parent).bad = "none" => Loose(PutDotFiles(h, n, parent).d, n)
<1> DEFINE g == PutFat(h, n, EOC)
           s == DotFiles(n, parent)
           d == [g.d EXCEPT !.slots[n] = s]
           f == Put(g, d)
<1>1. Sound(g) /\ (h.bad = "none" => Loose(g.d, n))
  BY TakeSound
<1>2. IsSession(g) /\ g.bad = h.bad
  <2>1. IsDisk([h.d EXCEPT !.fat[n] = EOC])
    BY GeometryAssumption DEF IsSession, IsDisk, Clusters
  <2> QED
    BY <2>1, PutLeads DEF PutFat, Leads
<1>3. PutDotFiles(h, n, parent) = f
  BY DEF PutDotFiles
<1> HIDE DEF g
<1>4. s = [i \in 1 .. Slots |-> s[i]] /\ \A i \in 1 .. Slots : IsSlot(s[i]) /\ (Hidden(s[i]) \/ s[i].first = 0)
  BY DotFilesFill, DotFilesHidden
<1> HIDE DEF s
<1>5. d.fat = g.d.fat /\ \A x \in Clusters : d.slots[x] = IF x = n THEN s ELSE g.d.slots[x]
  BY <1>2 DEF IsSession, IsDisk
<1>6. IsDisk(d)
  BY <1>2, <1>4 DEF IsSession, IsDisk
<1> HIDE DEF d
<1>7. ASSUME NEW x \in Owners(d) PROVE x \in Owners(g.d) /\ First(d, x) = First(g.d, x)
  <2>1. x \in Places /\ x[1] \in Clusters /\ x[2] \in 1 .. Slots
    BY PlacesAre DEF Owners
  <2>2. x[1] # n
    BY <1>4, <1>5, <2>1 DEF Owners
  <2> QED
    BY <1>5, <2>1, <2>2 DEF Owners, First
<1>8. ASSUME h.bad = "none" PROVE Consistent(d) /\ Loose(d, n)
  <2>1. Consistent(g.d) /\ Loose(g.d, n)
    BY <1>1, <1>2, <1>8 DEF Sound
  <2>2. \A x \in Places : IsSlot(d.slots[x[1]][x[2]])
    BY <1>4, <1>5, <2>1, PlacesAre DEF Consistent
  <2>3. Consistent(d)
    BY <1>5, <1>7, <2>1, <2>2, SlotsConsistent
  <2>4. Loose(d, n)
    BY <1>5, <1>7, <2>1 DEF Loose, IsHead
  <2> QED
    BY <2>3, <2>4
<1>9. f.d = d /\ f.bad = h.bad /\ Sound(f)
  BY <1>1, <1>2, <1>6, <1>8, PutLeads, PutSound
<1> QED
  BY <1>3, <1>8, <1>9

LEMMA DirentLeads ==
    ASSUME NEW name, NEW stored, NEW n, NEW attr
    PROVE  LET s == Dirent(name, stored, Short("DOSFILE", n, 0, attr))
           IN  \E m : Leads1(s, m, n)
<1> DEFINE e == Short("DOSFILE", n, 0, attr)
           m == (NameLen[name] + 13) \div 13 + 1
           s == Dirent(name, stored, e)
<1>1. s = [i \in 1 .. m |-> IF i = m THEN e ELSE Long(stored)]
  BY DEF Dirent
<1>2. IsSlot(e) /\ e.first = n
  BY DEF Short, IsSlot
<1>3. IsSlot(Long(stored)) /\ Long(stored).k = "long"
  BY DEF Long, Zero, IsSlot
<1> HIDE DEF e, m, s
<1>4. Leads1(s, m, n)
  BY <1>1, <1>2, <1>3 DEF Leads1
<1> QED
  BY <1>4 DEF s, e

LEMMA CreateSound ==
    ASSUME NEW h, IsSession(h), Sound(h), NEW dir, NEW name, NEW stored, NEW attr
    PROVE  Sound(Create(h, dir, name, stored, attr).h)
<1> DEFINE start == DirStart(h.d, dir)
           p == FreeSlot(h.d, start, Slots * LastCluster)
           n == Allocated(h.d)
           parent == IF start[1] = Root THEN 0 ELSE start[1]
           g == PutDotFiles(h, n, parent)
           Entries(first) == Dirent(name, stored, Short("DOSFILE", first, 0, attr))
           r == CreateFrom(h, start, p, n, name, stored, attr).h
<1>1. Create(h, dir, name, stored, attr).h = r
  BY DEF Create
<1> HIDE DEF start, p
<1>2. \/ r \in {h, Bad(h, "lost"), Bad(h, "full")}
      \/ p \in Places /\ r = PutDirent(h, p, Entries(0))
      \/ p \in Places /\ n # 0 /\ r = PutDirent(g, p, Entries(n))
  BY DEF CreateFrom, CreateAt
<1> HIDE DEF parent, r
<1>3. Sound(Bad(h, "lost")) /\ Sound(Bad(h, "full"))
  BY BadSound
<1>4. ASSUME p \in Places PROVE Sound(PutDirent(h, p, Entries(0)))
  <2>1. PICK m : Leads1(Entries(0), m, 0)
    BY DirentLeads
  <2> HIDE DEF Entries
  <2> QED
    BY <1>4, <2>1, PutDirentSound
<1>5. ASSUME p \in Places, n # 0 PROVE Sound(PutDirent(g, p, Entries(n)))
  <2>1. n \in Clusters /\ h.d.fat[n] = 0
    BY <1>5, AllocatedFree
  <2> HIDE DEF n
  <2>2. PICK m : Leads1(Entries(n), m, n)
    BY DirentLeads
  <2>3. IsSession(g) /\ Sound(g) /\ (g.bad = "none" => Loose(g.d, n))
    BY <2>1, PutDotFilesLeads, PutDotFilesSound DEF Leads
  <2> HIDE DEF Entries, g
  <2> QED
    BY <1>5, <2>2, <2>3, PutDirentSound
<1> HIDE DEF n, g, Entries
<1> QED
  BY <1>1, <1>2, <1>3, <1>4, <1>5

-----------------------------------------------------------------------------
(* Walks from place to place and from cluster to cluster.  What the walk k makes of x with the
   rest of the way in f: *)

\* The place or cluster behind a place or cluster.
Onto(k, p) == CASE k.walk = "listing" -> NextEntry(k.d, p)
                [] k.walk = "iterate" -> Iterate(k.d, p)
                [] k.walk = "chain"   -> k.d.fat[p]

Way(k, f, x) ==
    IF k.walk = "chain" THEN IF x[1] \notin Clusters \/ x[2] = 0 THEN << >>
                             ELSE <<x[1]>> \o f[<<Onto(k, x[1]), x[2] - 1>>]
    ELSE IF x[1] \in {End, Lost} \/ x[2] = 0 THEN <<x[1]>>
         ELSE <<x[1]>> \o f[<<Onto(k, x[1]), x[2] - 1>>]

\* Where it goes on from x.
Onward(k, x) == <<Onto(k, x[1]), x[2] - 1>>
Stops(k, x) == x[2] = 0 \/ IF k.walk = "chain" THEN x[1] \notin Clusters ELSE x[1] \in {End, Lost}

StaysIn(k, S) == \A x \in S \X Nat : Stops(k, x) \/ \E s \in S : Onward(k, x) = <<s, x[2] - 1>>

Descends(f, k, S, N) == f = [x \in S \X (0 .. N) |-> Way(k, f, x)]

LEMMA WaysAgree ==
    ASSUME NEW k, NEW f, NEW g, NEW x, Stops(k, x) \/ f[Onward(k, x)] = g[Onward(k, x)]
    PROVE  Way(k, f, x) = Way(k, g, x)
<1>1. CASE k.walk = "chain"
  BY <1>1 DEF Way, Onward, Stops
<1>2. CASE k.walk # "chain"
  BY <1>2 DEF Way, Onward, Stops
<1> QED
  BY <1>1, <1>2

\* Such a walk is a function of where it begins and how far it may go.
LEMMA DescentExists ==
    ASSUME NEW k, NEW S, StaysIn(k, S), NEW N \in Nat
    PROVE  \E f : Descends(f, k, S, N)
<1> DEFINE T == {n \in Nat : \E f : Descends(f, k, S, n)}
<1>1. 0 \in T
  <2> DEFINE f == [x \in S \X (0 .. 0) |-> Way(k, k, x)]
  <2>1. ASSUME NEW x \in S \X (0 .. 0) PROVE f[x] = Way(k, f, x)
    <3>1. Stops(k, x)
      BY DEF Stops
    <3>2. f[x] = Way(k, k, x)
      OBVIOUS
    <3> HIDE DEF f
    <3> QED
      BY <3>1, <3>2, WaysAgree
  <2>2. f = [x \in S \X (0 .. 0) |-> f[x]]
    OBVIOUS
  <2> HIDE DEF f
  <2>3. Descends(f, k, S, 0)
    BY <2>1, <2>2 DEF Descends
  <2> QED
    BY <2>3
<1>2. ASSUME NEW n \in 1 .. N, n - 1 \in T PROVE n \in T
  <2>1. PICK f : Descends(f, k, S, n - 1)
    BY <1>2
  <2>2. \A x \in S \X (0 .. n - 1) : f[x] = Way(k, f, x)
    BY <2>1 DEF Descends
  <2> DEFINE g == [x \in S \X (0 .. n) |-> IF x[2] = n THEN Way(k, f, x) ELSE f[x]]
  <2>3. ASSUME NEW s \in S, NEW m \in 0 .. n - 1 PROVE g[<<s, m>>] = f[<<s, m>>]
    OBVIOUS
  <2>4. ASSUME NEW x \in S \X (0 .. n) PROVE g[x] = Way(k, f, x)
    <3>1. CASE x[2] = n
      BY <3>1
    <3>2. CASE x[2] # n
      <4>1. x \in S \X (0 .. n - 1)
        BY <3>2
      <4> QED
        BY <2>2, <3>2, <4>1
    <3> QED
      BY <3>1, <3>2
  <2>5. g = [x \in S \X (0 .. n) |-> g[x]]
    OBVIOUS
  <2> HIDE DEF g
  <2>6. ASSUME NEW x \in S \X (0 .. n) PROVE g[x] = Way(k, g, x)
    <3>1. CASE Stops(k, x)
      BY <2>4, <3>1, WaysAgree
    <3>2. CASE ~Stops(k, x)
      <4>1. x \in S \X Nat
        OBVIOUS
      <4>2. PICK s \in S : Onward(k, x) = <<s, x[2] - 1>>
        BY <3>2, <4>1 DEF StaysIn
      <4>3. x[2] - 1 \in 0 .. n - 1
        BY <3>2 DEF Stops
      <4>4. f[Onward(k, x)] = g[Onward(k, x)]
        BY <2>3, <4>2, <4>3
      <4> QED
        BY <2>4, <4>4, WaysAgree
    <3> QED
      BY <3>1, <3>2
  <2>7. Descends(g, k, S, n)
    BY <2>5, <2>6 DEF Descends
  <2> QED
    BY <2>7
<1> HIDE DEF T
<1>3. N \in T
  BY <1>1, <1>2, StepByStep
<1> QED
  BY <1>3 DEF T

LEMMA SpotsAre ==
    /\ End \in Spots /\ Lost \in Spots
    /\ \A p \in Spots : p \in {End, Lost} \/ p \in Places
    /\ \A p \in Places : p \in Spots /\ p \notin {End, Lost}
<1>1. \A p \in Places : p[1] # 0
  BY PlacesAre DEF Clusters
<1>2. End[1] = 0 /\ Lost[1] = 0
  BY DEF End, Lost
<1> QED
  BY <1>1, <1>2 DEF Spots

LEMMA OneList == \A a : IsList(<<a>>) /\ Len(<<a>>) = 1 /\ <<a>>[1] = a
BY DEF IsList

\* What stands before a list.
LEMMA InFront ==
    ASSUME NEW a, NEW l, IsList(l)
    PROVE  /\ IsList(<<a>> \o l) /\ Len(<<a>> \o l) = Len(l) + 1 /\ (<<a>> \o l)[1] = a
           /\ \A i \in 2 .. Len(l) + 1 : (<<a>> \o l)[i] = l[i - 1]
<1> DEFINE s == <<a>>
<1>1. IsList(s) /\ IsList(l)
  BY OneList
<1>2. Len(s) = 1 /\ s[1] = a
  OBVIOUS
<1> HIDE DEF s
<1>3. /\ IsList(s \o l) /\ Len(s \o l) = Len(s) + Len(l)
      /\ \A i \in 1 .. Len(s) : (s \o l)[i] = s[i]
      /\ \A i \in 1 .. Len(l) : (s \o l)[Len(s) + i] = l[i]
  BY <1>1, JoinLists
<1>4. Len(l) \in Nat
  BY DEF IsList
<1>5. ASSUME NEW i \in 2 .. Len(l) + 1 PROVE (s \o l)[i] = l[i - 1]
  <2>1. i - 1 \in 1 .. Len(l) /\ 1 + (i - 1) = i
    BY <1>4
  <2> QED
    BY <1>2, <1>3, <2>1
<1>6. (s \o l)[1] = a /\ Len(s \o l) = Len(l) + 1
  BY <1>2, <1>3, <1>4
<1> QED
  BY <1>3, <1>5, <1>6 DEF s

\* A list of the places a walk meets from p on, of n + 1 at most; it ends with End or Lost if
\* there are no more.
Follows(k, l, p, n) ==
    /\ IsList(l) /\ Len(l) \in 1 .. n + 1 /\ l[1] = p
    /\ \A i \in 1 .. Len(l) : l[i] \in Spots
    /\ \A i \in 2 .. Len(l) : l[i - 1] \in Places /\ l[i] = Onto(k, l[i - 1])
    /\ l[Len(l)] \in {End, Lost} \/ Len(l) = n + 1

LEMMA FollowsOn ==
    ASSUME NEW k, NEW p \in Places, NEW n \in Nat, n # 0, NEW l, Follows(k, l, Onto(k, p), n - 1)
    PROVE  Follows(k, <<p>> \o l, p, n)
<1> DEFINE m == <<p>> \o l
<1>1. Len(l) \in Nat /\ Len(l) >= 1 /\ Len(l) <= n
  BY DEF Follows, IsList
<1>2. IsList(m) /\ Len(m) = Len(l) + 1 /\ m[1] = p /\ \A i \in 2 .. Len(l) + 1 : m[i] = l[i - 1]
  BY InFront DEF Follows
<1> HIDE DEF m
<1>3. \A i \in 1 .. Len(m) : i = 1 \/ (i \in 2 .. Len(l) + 1 /\ i - 1 \in 1 .. Len(l))
  BY <1>1, <1>2
<1>4. \A i \in 1 .. Len(m) : m[i] \in Spots
  BY <1>2, <1>3, SpotsAre DEF Follows
<1>5. ASSUME NEW i \in 2 .. Len(m) PROVE m[i - 1] \in Places /\ m[i] = Onto(k, m[i - 1])
  <2>1. i \in 2 .. Len(l) + 1 /\ m[i] = l[i - 1]
    BY <1>2
  <2>2. CASE i = 2
    BY <1>2, <2>1, <2>2 DEF Follows
  <2>3. CASE i # 2
    <3>1. i - 1 \in 2 .. Len(l) + 1 /\ i - 1 \in 2 .. Len(l) /\ (i - 1) - 1 = i - 2
      BY <1>1, <2>1, <2>3
    <3>2. m[i - 1] = l[i - 2]
      BY <1>2, <3>1
    <3>3. l[(i - 1) - 1] \in Places /\ l[i - 1] = Onto(k, l[(i - 1) - 1])
      BY <3>1 DEF Follows
    <3> QED
      BY <2>1, <3>1, <3>2, <3>3
  <2> QED
    BY <2>2, <2>3
<1>6. m[Len(m)] \in {End, Lost} \/ Len(m) = n + 1
  <2>1. m[Len(m)] = l[Len(l)]
    <3>1. Len(m) \in 2 .. Len(l) + 1 /\ Len(m) - 1 = Len(l)
      BY <1>1, <1>2
    <3> QED
      BY <1>2, <3>1
  <2>2. l[Len(l)] \in {End, Lost} \/ Len(l) = (n - 1) + 1
    BY DEF Follows
  <2>3. Len(l) = (n - 1) + 1 => Len(m) = n + 1
    BY <1>1, <1>2
  <2> QED
    BY <2>1, <2>2, <2>3
<1>7. Len(m) \in 1 .. n + 1
  BY <1>1, <1>2
<1> QED
  BY <1>2, <1>4, <1>5, <1>6, <1>7 DEF Follows, m

LEMMA WalkFollows ==
    ASSUME NEW k, k.walk # "chain", \A q \in Places : Onto(k, q) \in Spots,
           NEW N \in Nat, NEW f, f = CHOOSE g : Descends(g, k, Spots, N), NEW p \in Spots
    PROVE  Follows(k, f[<<p, N>>], p, N)
<1>1. StaysIn(k, Spots)
  <2> SUFFICES ASSUME NEW x \in Spots \X Nat, ~Stops(k, x) PROVE \E s \in Spots : Onward(k, x) = <<s, x[2] - 1>>
    BY DEF StaysIn
  <2>1. x[1] \in Places
    BY SpotsAre DEF Stops
  <2> QED
    BY <2>1 DEF Onward
<1>2. Descends(f, k, Spots, N)
  <2>1. \E g : Descends(g, k, Spots, N)
    BY <1>1, DescentExists
  <2> QED
    BY <2>1
<1>3. ASSUME NEW q \in Spots, NEW n \in 0 .. N
      PROVE  /\ q \in {End, Lost} \/ n = 0 => f[<<q, n>>] = <<q>>
             /\ ~(q \in {End, Lost} \/ n = 0) => f[<<q, n>>] = <<q>> \o f[<<Onto(k, q), n - 1>>]
  <2>1. f[<<q, n>>] = Way(k, f, <<q, n>>)
    BY <1>2 DEF Descends
  <2>2. Way(k, f, <<q, n>>) = IF q \in {End, Lost} \/ n = 0 THEN <<q>> ELSE <<q>> \o f[<<Onto(k, q), n - 1>>]
    BY DEF Way
  <2> QED
    BY <2>1, <2>2
<1> DEFINE T == {n \in 0 .. N : \A q \in Spots : Follows(k, f[<<q, n>>], q, n)}
<1>4. ASSUME NEW q \in Spots, NEW n \in 0 .. N, q \in {End, Lost} \/ n = 0 PROVE Follows(k, f[<<q, n>>], q, n)
  <2>1. f[<<q, n>>] = <<q>>
    BY <1>3, <1>4
  <2>2. IsList(<<q>>) /\ Len(<<q>>) = 1 /\ <<q>>[1] = q
    BY OneList
  <2> DEFINE l == <<q>>
  <2> HIDE DEF l
  <2>3. IsList(l) /\ Len(l) = 1 /\ l[1] = q /\ f[<<q, n>>] = l
    BY <2>1, <2>2 DEF l
  <2>4. Len(l) \in 1 .. n + 1 /\ l[Len(l)] = q /\ (n = 0 => Len(l) = n + 1) /\ ~\E i \in 2 .. Len(l) : TRUE
    BY <2>3
  <2>5. \A i \in 1 .. Len(l) : l[i] \in Spots
    BY <2>3
  <2>6. Follows(k, l, q, n)
    BY <1>4, <2>3, <2>4, <2>5 DEF Follows
  <2> QED
    BY <2>3, <2>6
<1>5. 0 \in T
  BY <1>4
<1>6. ASSUME NEW n \in 1 .. N, n - 1 \in T PROVE n \in T
  <2>1. n \in 0 .. N /\ n \in Nat /\ n # 0
    OBVIOUS
  <2>2. ASSUME NEW q \in Spots PROVE Follows(k, f[<<q, n>>], q, n)
    <3>1. CASE q \in {End, Lost}
      BY <1>4, <2>1, <3>1
    <3>2. CASE q \in Places
      <4>1. Follows(k, f[<<Onto(k, q), n - 1>>], Onto(k, q), n - 1)
        BY <1>6, <3>2
      <4>2. f[<<q, n>>] = <<q>> \o f[<<Onto(k, q), n - 1>>]
        BY <1>3, <2>1, <3>2, SpotsAre
      <4> QED
        BY <2>1, <3>2, <4>1, <4>2, FollowsOn
    <3> QED
      BY <3>1, <3>2, SpotsAre
  <2> QED
    BY <2>1, <2>2
<1> HIDE DEF T
<1>7. N \in T
  BY <1>5, <1>6, StepByStep
<1> QED
  BY <1>7 DEF T

\* The walk Listing makes.
Along(d) == [walk |-> "listing", d |-> d]

LEMMA ListingFollows ==
    ASSUME NEW d, IsDisk(d), NEW p \in Spots
    PROVE  Follows(Along(d), Listing(d, p), p, Slots * LastCluster)
<1> DEFINE k == Along(d)
           N == Slots * LastCluster
           Row(g, x) == IF x[1] \in {End, Lost} \/ x[2] = 0 THEN <<x[1]>>
                        ELSE <<x[1]>> \o g[<<NextEntry(d, x[1]), x[2] - 1>>]
           f == CHOOSE f : f = [x \in Spots \X (0 .. N) |-> Row(f, x)]
<1>1. k.walk # "chain" /\ \A q : Onto(k, q) = NextEntry(d, q)
  BY DEF Along, Onto
<1>2. \A g, x : Way(k, g, x) = Row(g, x)
  BY <1>1 DEF Way
<1>3. Listing(d, p) = f[<<p, N>>]
  BY DEF Listing
<1>4. N \in Nat
  BY GeometryAssumption
<1>5. \A q \in Places : Onto(k, q) \in Spots
  BY <1>1, NextIsSpot
<1> HIDE DEF k, N, Row
<1>6. f = CHOOSE g : Descends(g, k, Spots, N)
  BY <1>2 DEF Descends
<1> HIDE DEF f
<1>7. Follows(k, f[<<p, N>>], p, N)
  BY <1>1, <1>4, <1>5, <1>6, WalkFollows
<1> QED
  BY <1>3, <1>7 DEF k, N

\* A list of the entries from p on, the last perhaps End or Lost.
Lists(d, l, p) ==
    /\ IsList(l) /\ Len(l) >= 1 /\ l[1] = p
    /\ \A i \in 1 .. Len(l) : l[i] \in Spots
    /\ \A i \in 2 .. Len(l) : l[i - 1] \in Places /\ l[i] = NextEntry(d, l[i - 1])

LEMMA ListingLists ==
    ASSUME NEW d, IsDisk(d), NEW p \in Spots
    PROVE  Lists(d, Listing(d, p), p)
<1> DEFINE l == Listing(d, p)
           N == Slots * LastCluster
<1>1. Follows(Along(d), l, p, N)
  BY ListingFollows
<1>2. \A q : Onto(Along(d), q) = NextEntry(d, q)
  BY DEF Along, Onto
<1> HIDE DEF l, N
<1>3. Len(l) >= 1
  BY <1>1 DEF Follows
<1> QED
  BY <1>1, <1>2, <1>3 DEF Follows, Lists, l

\* The first member of a list that is in S is there, the last one at least.
LEMMA FirstOfList ==
    ASSUME NEW N \in Nat, N >= 1, NEW S
    PROVE  \E i \in 1 .. N : (i = N \/ i \in S) /\ \A j \in 1 .. i - 1 : j \notin S
<1> DEFINE M == {i \in 1 .. N : i = N \/ i \in S}
<1>1. M \in SUBSET Nat /\ N \in M
  OBVIOUS
<1>2. PICK m \in M : \A x \in M : m <= x
  <2> HIDE DEF M
  <2> QED
    BY <1>1, LeastOfNaturals
<1>3. ASSUME NEW j \in 1 .. m - 1 PROVE j \notin S
  <2>1. j \in 1 .. N /\ ~(m <= j) /\ m \in 1 .. N
    BY <1>2
  <2>2. j \notin M
    BY <1>2, <2>1
  <2> QED
    BY <2>1, <2>2
<1> QED
  BY <1>2, <1>3

LEMMA FirstPlaceIsSpot == \A c : FirstPlace(c) \in Spots
<1>1. ASSUME NEW c \in Clusters PROVE <<c, 1>> \in Places
  BY GeometryAssumption DEF Places
<1> QED
  BY <1>1, SpotsAre DEF FirstPlace

LEMMA DirStartIsSpot ==
    ASSUME NEW d, NEW node, node.at \in Places
    PROVE  DirStart(d, node) \in Spots
BY FirstPlaceIsSpot, SpotsAre DEF DirStart, Inside

LEMMA SearchIsSpot ==
    ASSUME NEW d, IsDisk(d), NEW node, node.at \in Places, NEW token
    PROVE  Search(d, node, token) \in Spots
<1> DEFINE l == Listing(d, DirStart(d, node))
           Test(p) == ~Hidden(Entry(d, p)) /\ NameAt(d, p) = token
           Found(i) == (i = Len(l) \/ Test(l[i])) /\ \A j \in 1 .. i - 1 : ~Test(l[j])
           n == CHOOSE i \in 1 .. Len(l) : Found(i)
           S == {i \in 1 .. Len(l) : Test(l[i])}
<1>1. Search(d, node, token) = l[n]
  BY DEF Search, FirstWhere
<1>2. Len(l) \in Nat /\ Len(l) >= 1 /\ \A i \in 1 .. Len(l) : l[i] \in Spots
  <2>1. Lists(d, l, DirStart(d, node))
    BY DirStartIsSpot, ListingLists
  <2> QED
    BY <2>1 DEF Lists, IsList
<1> HIDE DEF l, Test
<1>3. PICK i \in 1 .. Len(l) : (i = Len(l) \/ i \in S) /\ \A j \in 1 .. i - 1 : j \notin S
  <2> HIDE DEF S
  <2> QED
    BY <1>2, FirstOfList
<1>4. Found(i)
  <2>1. \A j \in 1 .. i - 1 : j \in 1 .. Len(l)
    BY <1>2, <1>3
  <2> QED
    BY <1>3, <2>1
<1>5. n \in 1 .. Len(l)
  BY <1>4
<1> QED
  BY <1>1, <1>2, <1>5

LEMMA LeadingIsSpot ==
    ASSUME NEW d, IsDisk(d), NEW c, NEW parent
    PROVE  Leading(d, c, parent) \in Spots
<1> DEFINE o == FirstPlace(IF c = 0 THEN Root ELSE c)
           l == Listing(d, o)
           Test(p) == Entry(d, p).first = parent
           Found(i) == (i = Len(l) \/ Test(l[i])) /\ \A j \in 1 .. i - 1 : ~Test(l[j])
           n == CHOOSE i \in 1 .. Len(l) : Found(i)
           S == {i \in 1 .. Len(l) : Test(l[i])}
<1>1. Leading(d, c, parent) = l[n]
  BY DEF Leading, FirstWhere
<1>2. Len(l) \in Nat /\ Len(l) >= 1 /\ \A i \in 1 .. Len(l) : l[i] \in Spots
  <2>1. o \in Spots
    BY FirstPlaceIsSpot
  <2> HIDE DEF o
  <2>2. Lists(d, l, o)
    BY <2>1, ListingLists
  <2> QED
    BY <2>2 DEF Lists, IsList
<1> HIDE DEF l, Test
<1>3. PICK i \in 1 .. Len(l) : (i = Len(l) \/ i \in S) /\ \A j \in 1 .. i - 1 : j \notin S
  <2> HIDE DEF S
  <2> QED
    BY <1>2, FirstOfList
<1>4. Found(i)
  <2>1. \A j \in 1 .. i - 1 : j \in 1 .. Len(l)
    BY <1>2, <1>3
  <2> QED
    BY <1>3, <2>1
<1>5. n \in 1 .. Len(l)
  BY <1>4
<1> QED
  BY <1>1, <1>2, <1>5

LEMMA CreatePlace ==
    ASSUME NEW h, NEW dir, NEW name, NEW stored, NEW attr
    PROVE  LET r == Create(h, dir, name, stored, attr) IN r.at = End \/ r.at \in Places
BY DEF Create, CreateFrom, CreateAt

LEMMA DrivesAreDisks ==
    ASSUME NEW h, IsDisk(h.d), NEW n
    PROVE  IsDisk(DiskOf(h, n))
BY DEF DiskOf, IsDisk

-----------------------------------------------------------------------------
(* Walks.  A walk's node is its own (0), or one that device_nodes leads to: then it went
   through a mount point. *)

Shared(ds) == {ds[i].id : i \in DOMAIN ds} \union {ds[i].copy : i \in DOMAIN ds}

NodeFields == {"at", "root", "dev", "off", "fs", "mnt", "live"}

\* A node, at an entry; a mount point's is some device's.
IsNode(n, ds) ==
    /\ n = [x \in NodeFields |-> n[x]]
    /\ n.at \in Places /\ n.off \in Nat
    /\ n.mnt \in BOOLEAN
    /\ n.mnt => \E i \in DOMAIN ds : ds[i].fs = n.fs

Tables(ns, ds) ==
    /\ IsList(ns) /\ IsList(ds)
    /\ \A k \in DOMAIN ns : IsNode(ns[k], ds)
    /\ Shared(ds) \subseteq DOMAIN ns

Walks(h) ==
    /\ IsSession(h) /\ Sound(h) /\ Tables(h.nodes, h.devs) /\ IsNode(h.node, h.devs)
    /\ h.id \in {0, Null} \union Shared(h.devs)
    /\ h.id \in Shared(h.devs) => h.via

\* From g the walk came to h: only nodes it shares with other walks have changed.
Comes(g, h) ==
    /\ Walks(h)
    /\ h.devs = g.devs /\ DOMAIN h.nodes = DOMAIN g.nodes
    /\ \A k \in DOMAIN g.nodes \ Shared(g.devs) : h.nodes[k] = g.nodes[k]

LEMMA ComesOn ==
    ASSUME NEW f, NEW g, NEW h, Comes(f, g), Comes(g, h)
    PROVE  Comes(f, h)
BY DEF Comes

LEMMA Remains == ASSUME NEW h, Walks(h) PROVE Comes(h, h)
BY DEF Comes

LEMMA TheFatDriver ==
    ASSUME NEW g, Walks(g), NEW h, Leads(g, h), Sound(h)
    PROVE  Comes(g, h)
BY DEF Comes, Walks, Leads, SameNodes

LEMMA GoesBad ==
    ASSUME NEW h, Walks(h), NEW why \in Damages \ {"none"}
    PROVE  Comes(h, Bad(h, why)) /\ Bad(h, why).bad = why /\ Bad(h, why).id = h.id
<1>1. Leads(h, Bad(h, why)) /\ Bad(h, why).bad = why
  BY BadLeads DEF Walks
<1>2. Bad(h, why).id = h.id
  BY <1>1 DEF Leads, SameNodes
<1>3. IsSession(h) /\ why # "none"
  BY DEF Walks
<1>4. Sound(Bad(h, why))
  BY <1>3, BadSound
<1> QED
  BY <1>1, <1>2, <1>4, TheFatDriver

LEMMA SharedIds ==
    ASSUME NEW ns, NEW ds, Tables(ns, ds)
    PROVE  /\ DOMAIN ns = 1 .. Len(ns) /\ Len(ns) \in Nat
           /\ DOMAIN ds = 1 .. Len(ds) /\ Len(ds) \in Nat
           /\ \A i \in Shared(ds) : i \in 1 .. Len(ns) /\ i # 0 /\ i # Null
<1>1. /\ DOMAIN ns = 1 .. Len(ns) /\ Len(ns) \in Nat
      /\ DOMAIN ds = 1 .. Len(ds) /\ Len(ds) \in Nat
  BY DEF Tables, IsList
<1> QED
  BY <1>1 DEF Tables, Null

LEMMA CurIsNode ==
    ASSUME NEW h, Walks(h), h.id # Null
    PROVE  IsNode(Cur(h), h.devs)
<1>1. CASE h.id = 0
  BY <1>1 DEF Walks, Cur
<1>2. CASE h.id \in Shared(h.devs)
  <2>1. h.id \in DOMAIN h.nodes /\ h.id # 0
    BY <1>2, SharedIds DEF Walks, Tables
  <2> QED
    BY <2>1 DEF Walks, Tables, Cur
<1> QED
  BY <1>1, <1>2 DEF Walks

LEMMA StartIsNode == \A ds, fs : IsNode(Start, ds) /\ IsNode([Start EXCEPT !.fs = fs], ds)
<1>1. <<Root, 1>> \in Places
  BY GeometryAssumption DEF Places, Clusters
<1> QED
  BY <1>1 DEF IsNode, Start, Nothing, RootNode, NodeFields

LEMMA NodesStayNodes ==
    ASSUME NEW n, NEW ds, IsNode(n, ds), NEW d
    PROVE  /\ \A p \in Places : IsNode(NodeAt(n, d, p), ds)
           /\ IsNode(RootNode(n), ds) /\ \A l : IsNode([n EXCEPT !.live = l], ds)
<1>1. ASSUME NEW p \in Places PROVE IsNode(NodeAt(n, d, p), ds)
  BY DEF IsNode, NodeAt, NodeFields
<1>2. <<Root, 1>> \in Places
  BY GeometryAssumption DEF Places, Clusters
<1>3. IsNode(RootNode(n), ds)
  BY <1>2 DEF IsNode, RootNode, NodeFields
<1>4. ASSUME NEW l PROVE IsNode([n EXCEPT !.live = l], ds)
  BY DEF IsNode, NodeFields
<1> QED
  BY <1>1, <1>3, <1>4

\* fat_backtrack leads to a node or says that it found none.
LEMMA BacktrackIsNode ==
    ASSUME NEW n, NEW ds, IsNode(n, ds), NEW d, IsDisk(d)
    PROVE  IsNode(Backtrack(d, n), ds) \/ Backtrack(d, n).at \in {End, Lost}
<1>1. ASSUME NEW parent PROVE IsNode(BacktrackTo(d, n, parent), ds)
  <2> DEFINE p == Leading(d, DotDot(d, parent), parent)
  <2>1. p \in {End, Lost} \/ p \in Places
    BY LeadingIsSpot, SpotsAre
  <2>2. \/ BacktrackTo(d, n, parent) \in {RootNode(n), n}
        \/ p \notin {End, Lost} /\ BacktrackTo(d, n, parent) = NodeAt(n, d, p)
    BY DEF BacktrackTo
  <2> HIDE DEF p
  <2> QED
    BY <2>1, <2>2, NodesStayNodes
<1>2. ASSUME NEW start
      PROVE  IsNode(BacktrackFrom(d, n, start), ds) \/ BacktrackFrom(d, n, start).at \in {End, Lost}
  <2>1. start \in {End, Lost} => [n EXCEPT !.at = start].at \in {End, Lost}
    BY DEF IsNode, NodeFields
  <2> QED
    BY <1>1, <2>1 DEF BacktrackFrom
<1> QED
  BY <1>2 DEF Backtrack

\* What a walk does to itself: its node, where it is, whether it passed a mount point.
LEMMA FreshComes ==
    ASSUME NEW h, Walks(h), NEW n, IsNode(n, h.devs)
    PROVE  /\ Comes(h, Fresh(h, n))
           /\ Fresh(h, n).id = 0 /\ Fresh(h, n).bad = h.bad /\ Fresh(h, n).node = n /\ Fresh(h, n).d = h.d
<1> DEFINE g == [h EXCEPT !.node = n, !.id = 0, !.via = FALSE]
<1>1. g = [x \in Fields |-> g[x]]
  BY DEF Walks, IsSession, Fields
<1>2. /\ g.d = h.d /\ g.log = h.log /\ g.bad = h.bad /\ g.nodes = h.nodes /\ g.devs = h.devs
      /\ g.node = n /\ g.id = 0
  BY DEF Walks, IsSession, Fields
<1>3. Fresh(h, n) = g
  BY DEF Fresh
<1> HIDE DEF g
<1>4. 0 \notin Shared(h.devs)
  BY SharedIds DEF Walks
<1>5. IsSession(g)
  BY <1>1, <1>2 DEF IsSession, Walks
<1>6. Walks(g)
  BY <1>2, <1>4, <1>5 DEF Walks, Sound
<1> QED
  BY <1>2, <1>3, <1>6 DEF Comes

LEMMA NowhereComes ==
    ASSUME NEW h, Walks(h)
    PROVE  Comes(h, [h EXCEPT !.id = Null]) /\ [h EXCEPT !.id = Null].id = Null
<1> DEFINE g == [h EXCEPT !.id = Null]
<1>1. g = [x \in Fields |-> g[x]]
  BY DEF Walks, IsSession, Fields
<1>2. /\ g.d = h.d /\ g.log = h.log /\ g.bad = h.bad /\ g.nodes = h.nodes /\ g.devs = h.devs
      /\ g.node = h.node /\ g.id = Null
  BY DEF Walks, IsSession, Fields
<1> HIDE DEF g
<1>4. Null \notin Shared(h.devs)
  BY SharedIds DEF Walks
<1>5. IsSession(g)
  BY <1>1, <1>2 DEF IsSession, Walks
<1>6. Walks(g)
  BY <1>2, <1>4, <1>5 DEF Walks, Sound
<1>7. Comes(h, g) /\ g.id = Null
  BY <1>2, <1>6 DEF Comes
<1> QED
  BY <1>7 DEF g

\* A shared node is changed, and the walk goes on at it or where it was.
LEMMA SharedChanges ==
    ASSUME NEW h, Walks(h), NEW id \in Shared(h.devs), NEW n, IsNode(n, h.devs),
           NEW g, g = [x \in Fields |-> g[x]],
           g.d = h.d, g.log = h.log, g.bad = h.bad, g.devs = h.devs, g.node = h.node,
           g.nodes = [h.nodes EXCEPT ![id] = n],
           \/ g.id = id /\ g.via
           \/ g.id = h.id /\ g.via = h.via
    PROVE  Comes(h, g)
<1>1. /\ IsList(g.nodes) /\ DOMAIN g.nodes = DOMAIN h.nodes
      /\ \A k \in DOMAIN h.nodes : g.nodes[k] = IF k = id THEN n ELSE h.nodes[k]
  <2>1. IsList(h.nodes)
    BY DEF Walks, Tables
  <2>2. IsList([h.nodes EXCEPT ![id] = n])
    BY <2>1, SetInList
  <2>3. /\ DOMAIN [h.nodes EXCEPT ![id] = n] = DOMAIN h.nodes
        /\ \A k \in DOMAIN h.nodes : [h.nodes EXCEPT ![id] = n][k] = IF k = id THEN n ELSE h.nodes[k]
    BY <2>1 DEF IsList
  <2> QED
    BY <2>2, <2>3
<1>2. Tables(g.nodes, g.devs)
  BY <1>1 DEF Walks, Tables
<1>3. IsSession(g)
  BY DEF Walks, IsSession
<1>4. Walks(g)
  BY <1>2, <1>3 DEF Walks, Sound
<1> QED
  BY <1>1, <1>4 DEF Comes

LEMMA SetCurComes ==
    ASSUME NEW h, Walks(h), h.id # Null, NEW n, IsNode(n, h.devs)
    PROVE  Comes(h, SetCur(h, n))
<1>1. CASE h.id = 0
  <2> DEFINE g == [h EXCEPT !.node = n]
  <2>1. g = [x \in Fields |-> g[x]]
    BY DEF Walks, IsSession, Fields
  <2>2. /\ g.d = h.d /\ g.log = h.log /\ g.bad = h.bad /\ g.nodes = h.nodes /\ g.devs = h.devs
        /\ g.node = n /\ g.id = h.id /\ g.via = h.via
    BY DEF Walks, IsSession, Fields
  <2>3. SetCur(h, n) = g
    BY <1>1 DEF SetCur
  <2> HIDE DEF g
  <2>4. IsSession(g)
    BY <2>1, <2>2 DEF IsSession, Walks
  <2>5. Walks(g)
    BY <2>2, <2>4 DEF Walks, Sound
  <2> QED
    BY <2>2, <2>3, <2>5 DEF Comes
<1>2. CASE h.id \in Shared(h.devs)
  <2> DEFINE g == [h EXCEPT !.nodes[h.id] = n]
  <2>1. g = [x \in Fields |-> g[x]]
    BY DEF Walks, IsSession, Fields
  <2>2. /\ g.d = h.d /\ g.log = h.log /\ g.bad = h.bad /\ g.devs = h.devs
        /\ g.nodes = [h.nodes EXCEPT ![h.id] = n]
        /\ g.node = h.node /\ g.id = h.id /\ g.via = h.via
    BY DEF Walks, IsSession, Fields
  <2>3. SetCur(h, n) = g
    BY <1>2, SharedIds DEF SetCur, Walks
  <2> HIDE DEF g
  <2>4. Comes(h, g)
    BY <1>2, <2>1, <2>2, SharedChanges
  <2> QED
    BY <2>3, <2>4
<1> QED
  BY <1>1, <1>2 DEF Walks

LEMMA FreeComes ==
    ASSUME NEW h, Walks(h), NEW id \in {0} \union Shared(h.devs)
    PROVE  Comes(h, Free(h, id)) /\ Free(h, id).id = h.id
<1>1. CASE id = 0
  BY <1>1, Remains DEF Free
<1>2. CASE id \in Shared(h.devs)
  <2> DEFINE n == [h.nodes[id] EXCEPT !.live = FALSE]
             g == [h EXCEPT !.nodes[id].live = FALSE]
  <2>1. g = [x \in Fields |-> g[x]]
    BY DEF Walks, IsSession, Fields
  <2>2. /\ g.d = h.d /\ g.log = h.log /\ g.bad = h.bad /\ g.devs = h.devs
        /\ g.nodes = [h.nodes EXCEPT ![id] = n]
        /\ g.node = h.node /\ g.id = h.id /\ g.via = h.via
    BY DEF Walks, IsSession, Fields
  <2>3. Free(h, id) = g
    BY <1>2, SharedIds DEF Free, Walks
  <2>4. id \in DOMAIN h.nodes
    BY <1>2 DEF Walks, Tables
  <2>5. IsNode(n, h.devs)
    BY <2>4, NodesStayNodes DEF Walks, Tables
  <2> HIDE DEF g, n
  <2>6. Comes(h, g)
    BY <1>2, <2>1, <2>2, <2>5, SharedChanges
  <2> QED
    BY <2>2, <2>3, <2>6
<1> QED
  BY <1>1, <1>2

LEMMA SearchDeviceComes ==
    ASSUME NEW h, Walks(h), h.id # Null
    PROVE  Comes(h, SearchDevice(h))
<1> DEFINE S == {i \in DOMAIN h.devs : h.nodes[h.devs[i].id].at = Cur(h).at /\ Cur(h).fs = 0 /\ ~Cur(h).mnt}
           m == CHOOSE i \in S : \A j \in S : i <= j
           id == h.devs[m].id
           g == [h EXCEPT !.id = id, !.via = TRUE]
<1>1. SearchDevice(h) \in {h, Bad(h, "freed")} \/ (S # {} /\ SearchDevice(h) = g)
  BY DEF SearchDevice
<1>2. ASSUME S # {} PROVE Comes(h, g)
  <2>1. S \in SUBSET Nat
    BY SharedIds DEF Walks
  <2>2. \E i \in S : \A j \in S : i <= j
    BY <1>2, <2>1, LeastOfNaturals
  <2>3. m \in S
    BY <2>2
  <2>4. m \in DOMAIN h.devs
    BY <2>3
  <2> HIDE DEF S, m
  <2>5. id \in Shared(h.devs)
    BY <2>4 DEF Shared
  <2> HIDE DEF id
  <2>6. g = [x \in Fields |-> g[x]]
    BY DEF Walks, IsSession, Fields
  <2>7. /\ g.d = h.d /\ g.log = h.log /\ g.bad = h.bad /\ g.nodes = h.nodes /\ g.devs = h.devs
        /\ g.node = h.node /\ g.id = id /\ g.via
    BY DEF Walks, IsSession, Fields
  <2> HIDE DEF g
  <2>8. IsSession(g)
    BY <2>6, <2>7 DEF IsSession, Walks
  <2>9. Walks(g)
    BY <2>5, <2>7, <2>8 DEF Walks, Sound
  <2> QED
    BY <2>7, <2>9 DEF Comes
<1> HIDE DEF S, g
<1> QED
  BY <1>1, <1>2, Remains, GoesBad DEF Damages

LEMMA EnterMountComes ==
    ASSUME NEW h, Walks(h), h.id # Null, Cur(h).mnt
    PROVE  Comes(h, EnterMount(h)) /\ EnterMount(h).id # Null
<1> DEFINE m == CHOOSE i \in DOMAIN h.devs : h.devs[i].fs = Cur(h).fs
           id == h.devs[m].copy
           n == [Start EXCEPT !.fs = Cur(h).fs]
           g == [h EXCEPT !.nodes[id] = n, !.id = id, !.via = TRUE]
<1>1. m \in DOMAIN h.devs
  BY CurIsNode DEF IsNode
<1>2. EnterMount(h) \in {Bad(h, "freed"), g}
  BY DEF EnterMount
<1> HIDE DEF m
<1>3. id \in Shared(h.devs)
  BY <1>1 DEF Shared
<1>4. IsNode(n, h.devs)
  BY StartIsNode
<1> HIDE DEF id, n
<1>5. g = [x \in Fields |-> g[x]]
  BY DEF Walks, IsSession, Fields
<1>6. /\ g.d = h.d /\ g.log = h.log /\ g.bad = h.bad /\ g.devs = h.devs /\ g.node = h.node
      /\ g.nodes = [h.nodes EXCEPT ![id] = n] /\ g.id = id /\ g.via
  BY DEF Walks, IsSession, Fields
<1> HIDE DEF g
<1>7. Comes(h, g)
  BY <1>3, <1>4, <1>5, <1>6, SharedChanges
<1>8. id # Null
  BY <1>3, SharedIds DEF Walks
<1> QED
  BY <1>2, <1>6, <1>7, <1>8, GoesBad DEF Damages

LEMMA MetComes ==
    ASSUME NEW h, Walks(h), h.id # Null
    PROVE  Comes(h, Met(h))
BY Remains, SearchDeviceComes DEF Met

LEMMA ArrivedComes ==
    ASSUME NEW h, Walks(h), h.id # Null, NEW d, NEW p \in Spots
    PROVE  Comes(h, Arrived(h, d, p))
<1> DEFINE n == NodeAt(Cur(h), d, p)
           g == SetCur(h, n)
<1>0. Comes(h, Bad(h, "lost")) /\ Comes(h, [h EXCEPT !.id = Null])
  BY GoesBad, NowhereComes DEF Damages
<1>7. CASE p \in {End, Lost}
  BY <1>0, <1>7 DEF Arrived
<1> SUFFICES ASSUME p \in Places PROVE Comes(h, Arrived(h, d, p))
  BY <1>7, SpotsAre
<1>1. IsNode(n, h.devs)
  BY CurIsNode, NodesStayNodes
<1> HIDE DEF n
<1>2. Comes(h, g)
  BY <1>1, SetCurComes
<1>3. g.id = h.id
  BY DEF SetCur, Walks, IsSession, Fields
<1> HIDE DEF g
<1>4. Comes(g, Met(g))
  BY <1>2, <1>3, MetComes DEF Comes
<1>5. Comes(h, Met(g)) /\ Comes(h, Bad(h, "lost")) /\ Comes(h, [h EXCEPT !.id = Null])
  BY <1>2, <1>4, ComesOn, GoesBad, NowhereComes DEF Damages
<1>6. Arrived(h, d, p) \in {Bad(h, "lost"), [h EXCEPT !.id = Null], Met(g)}
  BY DEF Arrived, g, n
<1> QED
  BY <1>5, <1>6

LEMMA SearchStepComes ==
    ASSUME NEW h, Walks(h), h.id # Null, NEW token
    PROVE  Comes(h, SearchStep(h, token))
<1> DEFINE g == IF Cur(h).mnt THEN EnterMount(h) ELSE h
           d == DiskOf(g, Cur(g))
           p == Search(d, Cur(g), token)
<1>1. Comes(h, g) /\ g.id # Null
  BY EnterMountComes, Remains
<1>2. SearchStep(h, token) = SearchFrom(g, d, token)
  BY DEF SearchStep
<1>3. SearchFrom(g, d, token) \in {g, Arrived(g, d, p)}
  BY DEF SearchFrom
<1>6. p \in Spots
  <2>1. Cur(g).at \in Places
    BY <1>1, CurIsNode DEF Comes, IsNode
  <2>2. IsDisk(d)
    BY <1>1, DrivesAreDisks DEF Comes, Walks, IsSession
  <2> HIDE DEF g, d
  <2> QED
    BY <2>1, <2>2, SearchIsSpot
<1> HIDE DEF g, d, p
<1>4. Comes(g, Arrived(g, d, p))
  BY <1>1, <1>6, ArrivedComes DEF Comes
<1>5. Comes(h, Arrived(g, d, p))
  BY <1>1, <1>4, ComesOn
<1> QED
  BY <1>1, <1>2, <1>3, <1>5

LEMMA DotStepComes ==
    ASSUME NEW h, Walks(h), h.id # Null, NEW token
    PROVE  Comes(h, DotStep(h, token))
<1> DEFINE n == Backtrack(DiskOf(h, Cur(h)), Cur(h))
<1>1. IsNode(n, h.devs) \/ n.at \in {End, Lost}
  <2>1. IsDisk(DiskOf(h, Cur(h)))
    BY DrivesAreDisks DEF Walks, IsSession
  <2> QED
    BY <2>1, CurIsNode, BacktrackIsNode
<1>2. DotStep(h, token) \in {h, Back(h, n)}
  BY DEF DotStep
<1> HIDE DEF n
<1>3. \/ Back(h, n) \in {Bad(h, "lost"), [h EXCEPT !.id = Null]}
      \/ n.at \notin {End, Lost} /\ Back(h, n) = SetCur(h, n)
  BY DEF Back
<1>4. Comes(h, Bad(h, "lost")) /\ Comes(h, [h EXCEPT !.id = Null]) /\ Comes(h, h)
  BY GoesBad, NowhereComes, Remains DEF Damages
<1>5. IsNode(n, h.devs) => Comes(h, SetCur(h, n))
  BY SetCurComes
<1> QED
  BY <1>1, <1>2, <1>3, <1>4, <1>5

LEMMA StepComes ==
    ASSUME NEW h, Walks(h), NEW token, NEW freeing
    PROVE  Comes(h, Step(h, token, freeing))
<1> DEFINE g == SearchStep(h, token)
<1>1. CASE h.id = Null \/ h.bad # "none"
  BY <1>1, Remains DEF Step
<1>2. CASE h.id # Null /\ h.bad = "none"
  <2>1. Step(h, token, freeing) \in {Bad(h, "freed"), DotStep(h, token), g, Free(g, h.id)}
    BY <1>2 DEF Step
  <2>2. Comes(h, Bad(h, "freed")) /\ Comes(h, DotStep(h, token)) /\ Comes(h, g)
    BY <1>2, GoesBad, DotStepComes, SearchStepComes DEF Damages
  <2> HIDE DEF g
  <2>3. Comes(g, Free(g, h.id))
    <3>1. h.id \in {0} \union Shared(g.devs)
      BY <1>2, <2>2 DEF Walks, Comes
    <3> QED
      BY <2>2, <3>1, FreeComes DEF Comes
  <2>4. Comes(h, Free(g, h.id))
    BY <2>2, <2>3, ComesOn
  <2> QED
    BY <2>1, <2>2, <2>4
<1> QED
  BY <1>1, <1>2

LEMMA WalkComes ==
    ASSUME NEW h, Walks(h), NEW tokens, NEW n \in Nat, NEW freeing
    PROVE  Comes(h, Walk(h, tokens, n, freeing))
<1>1. PICK f : /\ f[0] = Fresh(h, Start)
               /\ \A i \in 1 .. n : f[i] = Step(f[i - 1], tokens[i], freeing)
               /\ Walk(h, tokens, n, freeing) = f[n]
  BY WalkRuns
<1> DEFINE T == {i \in 0 .. n : Comes(h, f[i])}
<1>2. 0 \in T
  <2>1. IsNode(Start, h.devs)
    BY StartIsNode
  <2>2. Comes(h, Fresh(h, Start))
    BY <2>1, FreshComes
  <2> QED
    BY <1>1, <2>2
<1>3. ASSUME NEW i \in 1 .. n, i - 1 \in T PROVE i \in T
  <2>1. Comes(h, f[i - 1]) /\ f[i] = Step(f[i - 1], tokens[i], freeing)
    BY <1>1, <1>3
  <2>2. Comes(f[i - 1], f[i])
    BY <2>1, StepComes DEF Comes
  <2>3. Comes(h, f[i])
    BY <2>1, <2>2, ComesOn
  <2> QED
    BY <2>3
<1> HIDE DEF T
<1>4. n \in T
  BY <1>2, <1>3, StepByStep
<1> QED
  BY <1>1, <1>4 DEF T

LEMMA Path2NodeComes ==
    ASSUME NEW h, Walks(h), NEW path, Len(path) \in Nat
    PROVE  Comes(h, Path2Node(h, path))
BY WalkComes, TokensAreList DEF Path2Node

LEMMA CreateInComes ==
    ASSUME NEW h, Walks(h), h.id # Null, NEW name, NEW stored, NEW attr
    PROVE  Comes(h, CreateIn(h, name, stored, attr))
<1> DEFINE r == Create(h, Cur(h), name, stored, attr)
           n == [NodeAt(Cur(h), r.h.d, r.at) EXCEPT !.live = TRUE]
           f == Fresh(r.h, n)
           g == [f EXCEPT !.via = h.via]
<1>1. Comes(h, r.h)
  <2>1. IsSession(h) /\ Sound(h)
    BY DEF Walks
  <2>2. Leads(h, r.h) /\ Sound(r.h)
    BY <2>1, CreateLeads, CreateSound
  <2> QED
    BY <2>2, TheFatDriver
<1>2. \/ CreateIn(h, name, stored, attr) \in {[h EXCEPT !.id = Null], [r.h EXCEPT !.id = Null]}
      \/ r.at # End /\ CreateIn(h, name, stored, attr) = g
  BY DEF CreateIn, Made
<1>12. Comes(h, [h EXCEPT !.id = Null])
  BY NowhereComes
<1>13. Comes(r.h, [r.h EXCEPT !.id = Null])
  BY <1>1, NowhereComes DEF Comes
<1>14. Comes(h, [r.h EXCEPT !.id = Null])
  BY <1>1, <1>13, ComesOn
<1>15. r.at # End => r.at \in Places
  BY CreatePlace
<1> HIDE DEF r
<1> SUFFICES ASSUME r.at \in Places PROVE Comes(h, g)
  BY <1>2, <1>12, <1>14, <1>15
<1>3. IsNode(n, h.devs)
  BY CurIsNode, NodesStayNodes
<1> HIDE DEF n
<1>4. Comes(r.h, f) /\ f.id = 0
  BY <1>1, <1>3, FreshComes DEF Comes
<1> HIDE DEF f
<1>5. Comes(h, f)
  BY <1>1, <1>4, ComesOn DEF Comes
<1>6. g = [x \in Fields |-> g[x]]
  BY <1>4 DEF Comes, Walks, IsSession, Fields
<1>7. /\ g.d = f.d /\ g.log = f.log /\ g.bad = f.bad /\ g.nodes = f.nodes /\ g.devs = f.devs
      /\ g.node = f.node /\ g.id = f.id
  BY <1>4 DEF Comes, Walks, IsSession, Fields
<1> HIDE DEF g
<1>8. 0 \notin Shared(f.devs)
  BY <1>4, SharedIds DEF Comes, Walks
<1>9. IsSession(g)
  BY <1>4, <1>6, <1>7 DEF IsSession, Comes, Walks
<1>10. Walks(g)
  BY <1>4, <1>7, <1>8, <1>9 DEF Comes, Walks, Sound
<1>11. Comes(h, g)
  BY <1>5, <1>7, <1>10 DEF Comes
<1> QED
  BY <1>11

LEMMA ForgetComes ==
    ASSUME NEW h, Walks(h)
    PROVE  Comes(h, Forget(h))
<1> DEFINE g == IF h.id = Null THEN h ELSE Free(h, h.id)
<1>1. Comes(h, g)
  BY FreeComes, Remains DEF Walks
<1>2. Forget(h) = [g EXCEPT !.id = Null]
  BY DEF Forget
<1> HIDE DEF g
<1>3. Comes(g, [g EXCEPT !.id = Null])
  BY <1>1, NowhereComes DEF Comes
<1> QED
  BY <1>1, <1>2, <1>3, ComesOn

LEMMA TouchInComes ==
    ASSUME NEW h, Walks(h), NEW name, NEW stored
    PROVE  Comes(h, TouchIn(h, name, stored))
<1>1. CASE h.id = Null \/ h.bad # "none"
  BY <1>1, Remains DEF TouchIn
<1>2. CASE h.id # Null /\ h.bad = "none"
  <2> DEFINE s == Step(h, name, FALSE)
             c == CreateIn(h, name, stored, {})
  <2>1. TouchIn(h, name, stored) \in {Forget(s), Free(c, h.id)}
    BY <1>2 DEF TouchIn
  <2>2. Comes(h, s) /\ Comes(h, c)
    BY <1>2, StepComes, CreateInComes
  <2> HIDE DEF s, c
  <2>3. h.id \in {0} \union Shared(c.devs)
    BY <1>2, <2>2 DEF Walks, Comes
  <2>4. Comes(s, Forget(s)) /\ Comes(c, Free(c, h.id))
    BY <2>2, <2>3, ForgetComes, FreeComes DEF Comes
  <2>5. Comes(h, Forget(s)) /\ Comes(h, Free(c, h.id))
    BY <2>2, <2>4, ComesOn
  <2> QED
    BY <2>1, <2>5
<1> QED
  BY <1>1, <1>2

LEMMA PathTouchComes ==
    ASSUME NEW h, Walks(h), NEW path, Len(path) \in Nat, NEW stored
    PROVE  Comes(h, PathTouch(h, path, stored))
<1> DEFINE t == Tokens(path)
           g == Walk(h, t, Len(t) - 1, FALSE)
<1>1. IsList(t)
  BY TokensAreList
<1>2. CASE t = << >>
  BY <1>2, NowhereComes DEF PathTouch
<1>3. CASE t # << >>
  <2>1. PathTouch(h, path, stored) = TouchIn(g, t[Len(t)], stored)
    BY <1>3 DEF PathTouch
  <2> HIDE DEF t
  <2>2. Len(t) - 1 \in Nat
    <3>1. Len(t) # 0
      BY <1>1, <1>3 DEF IsList
    <3> QED
      BY <1>1, <3>1 DEF IsList
  <2>3. Comes(h, g)
    BY <2>2, WalkComes
  <2> HIDE DEF g
  <2>4. Comes(g, TouchIn(g, t[Len(t)], stored))
    BY <2>3, TouchInComes DEF Comes
  <2> QED
    BY <2>1, <2>3, <2>4, ComesOn
<1> QED
  BY <1>2, <1>3

-----------------------------------------------------------------------------
(* Mounting: device_nodes grows, and what was a node stays one. *)

Mounts(g, h) == Walks(h) /\ \A n : IsNode(n, g.devs) => IsNode(n, h.devs)

LEMMA AttachMounts ==
    ASSUME NEW h, Walks(h), NEW i
    PROVE  Mounts(h, Attach(h, i))
<1>1. CASE h.bad # "none" \/ h.id = Null
  BY <1>1 DEF Mounts, Attach
<1>2. CASE h.bad = "none" /\ h.id # Null
  <2> DEFINE id == Len(h.nodes) + 1
             n == [Cur(h) EXCEPT !.mnt = TRUE, !.fs = i]
             two == <<n, Start>>
             dev == [id |-> id, copy |-> id + 1, fs |-> i]
             ns == h.nodes \o two
             ds == Append(h.devs, dev)
             g == [h EXCEPT !.nodes = ns, !.devs = ds]
  <2>1. Attach(h, i) = g
    BY <1>2 DEF Attach, Walks, IsSession, Fields
  <2>2. n = [x \in NodeFields |-> n[x]] /\ n.mnt = TRUE /\ n.fs = i /\ n.at \in Places /\ n.off \in Nat
    <3>1. IsNode(Cur(h), h.devs)
      BY <1>2, CurIsNode
    <3> QED
      BY <3>1 DEF IsNode, NodeFields
  <2> HIDE DEF n
  <2>3. IsList(h.nodes) /\ IsList(h.devs) /\ Len(h.nodes) \in Nat /\ Len(h.devs) \in Nat
    BY DEF Walks, Tables, IsList
  <2>4. IsList(two) /\ Len(two) = 2 /\ two[1] = n /\ two[2] = Start
    BY DEF IsList
  <2> HIDE DEF two
  <2>5. /\ IsList(ns) /\ Len(ns) = Len(h.nodes) + 2
        /\ \A k \in 1 .. Len(h.nodes) : ns[k] = h.nodes[k]
        /\ ns[id] = n /\ ns[id + 1] = Start
    <3> HIDE DEF ds, g, dev
    <3>1. /\ IsList(h.nodes \o two) /\ Len(h.nodes \o two) = Len(h.nodes) + Len(two)
          /\ \A k \in 1 .. Len(h.nodes) : (h.nodes \o two)[k] = h.nodes[k]
          /\ \A k \in 1 .. Len(two) : (h.nodes \o two)[Len(h.nodes) + k] = two[k]
      <4>1. IsList(h.nodes) /\ IsList(two)
        BY <2>3, <2>4
      <4> QED
        BY <4>1, JoinLists
    <3>2. ns = h.nodes \o two
      OBVIOUS
    <3> HIDE DEF ns
    <3>3. ns[Len(h.nodes) + 1] = n /\ ns[Len(h.nodes) + 2] = Start
      BY <2>4, <3>2, <3>1
    <3> QED
      BY <2>3, <2>4, <3>2, <3>1, <3>3
  <2>6. /\ IsList(ds) /\ Len(ds) = Len(h.devs) + 1 /\ ds[Len(h.devs) + 1] = dev
        /\ \A k \in 1 .. Len(h.devs) : ds[k] = h.devs[k]
    BY <2>3, AppendList
  <2>7. dev.id = id /\ dev.copy = id + 1 /\ dev.fs = i
    OBVIOUS
  <2> HIDE DEF ns, ds, dev
  <2>8. /\ DOMAIN ns = 1 .. Len(h.nodes) + 2 /\ DOMAIN h.nodes = 1 .. Len(h.nodes)
        /\ DOMAIN ds = 1 .. Len(h.devs) + 1 /\ DOMAIN h.devs = 1 .. Len(h.devs)
    BY <2>3, <2>5, <2>6 DEF IsList
  <2>9. Shared(ds) = Shared(h.devs) \union {id, id + 1}
    <3>1. \A k \in DOMAIN ds : k \in DOMAIN h.devs \/ k = Len(h.devs) + 1
      BY <2>3, <2>8
    <3>2. DOMAIN h.devs \subseteq DOMAIN ds /\ Len(h.devs) + 1 \in DOMAIN ds
      BY <2>3, <2>8
    <3>3. \A k \in DOMAIN h.devs : ds[k] = h.devs[k]
      BY <2>6, <2>8
    <3> HIDE DEF id
    <3> QED
      BY <2>6, <2>7, <3>1, <3>2, <3>3 DEF Shared
  <2>10. ASSUME NEW m, IsNode(m, h.devs) PROVE IsNode(m, ds)
    BY <2>6, <2>8, <2>10 DEF IsNode
  <2>11. IsNode(n, ds) /\ IsNode(Start, ds)
    <3>1. Len(h.devs) + 1 \in DOMAIN ds
      BY <2>3, <2>8
    <3>2. IsNode(n, ds)
      BY <2>2, <2>6, <2>7, <3>1 DEF IsNode
    <3> QED
      BY <3>2, StartIsNode
  <2>12. Tables(ns, ds)
    <3>1. \A k \in DOMAIN ns : k \in DOMAIN h.nodes \/ k = id \/ k = id + 1
      BY <2>3, <2>8
    <3>2. \A k \in DOMAIN h.nodes : IsNode(ns[k], ds)
      BY <2>5, <2>8, <2>10 DEF Walks, Tables
    <3>3. \A k \in DOMAIN ns : IsNode(ns[k], ds)
      BY <2>5, <2>11, <3>1, <3>2
    <3>4. Shared(ds) \subseteq DOMAIN ns
      <4>1. Shared(h.devs) \subseteq DOMAIN h.nodes
        BY DEF Walks, Tables
      <4>2. DOMAIN h.nodes \subseteq DOMAIN ns /\ id \in DOMAIN ns /\ id + 1 \in DOMAIN ns
        BY <2>3, <2>8
      <4> HIDE DEF id
      <4> QED
        BY <2>9, <4>1, <4>2
    <3> QED
      BY <2>5, <2>6, <3>3, <3>4 DEF Tables
  <2>13. g = [x \in Fields |-> g[x]]
    BY DEF Walks, IsSession, Fields
  <2>14. /\ g.d = h.d /\ g.log = h.log /\ g.bad = h.bad /\ g.nodes = ns /\ g.devs = ds
         /\ g.node = h.node /\ g.id = h.id /\ g.via = h.via
    BY DEF Walks, IsSession, Fields
  <2> HIDE DEF g
  <2>15. IsSession(g)
    BY <2>13, <2>14 DEF IsSession, Walks
  <2>16. g.id \in {0, Null} \union Shared(ds) /\ (g.id \in Shared(ds) => g.via)
    <3>1. h.id # id /\ h.id # id + 1
      BY <2>3, SharedIds DEF Walks, Null
    <3> HIDE DEF id
    <3> QED
      BY <2>9, <2>14, <3>1 DEF Walks
  <2>17. IsNode(g.node, ds)
    BY <2>10, <2>14 DEF Walks
  <2>18. Walks(g)
    BY <2>12, <2>14, <2>15, <2>16, <2>17 DEF Walks, Sound
  <2> QED
    BY <2>1, <2>10, <2>14, <2>18 DEF Mounts
<1> QED
  BY <1>1, <1>2

LEMMA MountsOn ==
    ASSUME NEW f, NEW g, NEW h, Mounts(f, g), Mounts(g, h)
    PROVE  Mounts(f, h)
BY DEF Mounts

LEMMA ComesMounts ==
    ASSUME NEW g, NEW h, Comes(g, h)
    PROVE  Mounts(g, h)
BY DEF Mounts, Comes

LEMMA MountMounts ==
    ASSUME NEW h, Walks(h), NEW i
    PROVE  Mounts(h, Mount(h, i))
<1> DEFINE g == Path2Node(h, <<"dev", DiskName[i]>>)
<1>1. Comes(h, g)
  BY Path2NodeComes
<1>2. Mount(h, i) = Attach(g, i)
  BY DEF Mount
<1> HIDE DEF g
<1>3. Mounts(g, Attach(g, i))
  BY <1>1, AttachMounts DEF Comes
<1> QED
  BY <1>1, <1>2, <1>3, ComesMounts, MountsOn

\* Between two drives the walk is somewhere, or it is over.
Ready(h) == Walks(h) /\ (h.id = Null => h.bad # "none")

LEMMA FreshReady ==
    ASSUME NEW g, NEW h, Walks(g), g.id # Null, Mounts(g, h)
    PROVE  Ready(Fresh(h, Cur(g)))
<1>1. IsNode(Cur(g), g.devs)
  BY CurIsNode
<1>2. IsNode(Cur(g), h.devs) /\ Walks(h)
  BY <1>1 DEF Mounts
<1>3. Comes(h, Fresh(h, Cur(g))) /\ Fresh(h, Cur(g)).id = 0
  BY <1>2, FreshComes
<1> QED
  BY <1>3 DEF Ready, Comes, Null

LEMMA MountNextReady ==
    ASSUME NEW h, Ready(h), NEW i
    PROVE  Ready(MountNext(h, i))
<1>1. CASE h.bad # "none"
  BY <1>1 DEF MountNext
<1>2. CASE h.bad = "none"
  <2> DEFINE s == Step(h, DiskName[i], FALSE)
             c == CreateIn(h, DiskName[i], DiskName[i], {"dir", "dev"})
             m == Mount(c, i)
             dev == Path2Node(c, <<"dev">>)
  <2>1. Walks(h) /\ h.id # Null
    BY <1>2 DEF Ready
  <2>2. MountNext(h, i) = MountMade(h, s, c, i)
    BY <1>2 DEF MountNext
  <2>3. Walks(s) /\ Walks(c)
    BY <2>1, StepComes, CreateInComes DEF Comes
  <2> HIDE DEF s, c
  <2>4. CASE s.bad # "none"
    BY <2>2, <2>3, <2>4 DEF MountMade, Ready
  <2>5. CASE s.bad = "none" /\ s.id # Null
    <3>1. Mounts(s, Mount(s, i))
      BY <2>3, MountMounts
    <3>2. MountMade(h, s, c, i) = Fresh(Mount(s, i), Cur(s))
      BY <2>5 DEF MountMade
    <3> QED
      BY <2>2, <2>3, <2>5, <3>1, <3>2, FreshReady
  <2>6. CASE s.bad = "none" /\ s.id = Null /\ c.bad # "none"
    BY <2>2, <2>3, <2>6 DEF MountMade, Ready
  <2>7. CASE s.bad = "none" /\ s.id = Null /\ c.bad = "none" /\ c.id = Null
    BY <1>2, <2>2, <2>7 DEF MountMade
  <2>8. CASE s.bad = "none" /\ s.id = Null /\ c.bad = "none" /\ c.id # Null
    <3>1. MountMade(h, s, c, i) = DevAgain(m, dev)
      BY <2>8 DEF MountMade
    <3>2. Mounts(c, m)
      BY <2>3, MountMounts
    <3>3. Comes(c, dev)
      BY <2>3, Path2NodeComes
    <3> HIDE DEF m, dev
    <3>4. CASE dev.bad # "none"
      BY <2>2, <3>1, <3>3, <3>4 DEF DevAgain, Ready, Comes
    <3>5. CASE dev.bad = "none" /\ dev.id = Null
      <4>1. Comes(m, Bad(m, "lost")) /\ Bad(m, "lost").bad = "lost"
        BY <3>2, GoesBad DEF Mounts, Damages
      <4>2. DevAgain(m, dev) = Bad(m, "lost")
        BY <3>5 DEF DevAgain
      <4> QED
        BY <2>2, <3>1, <4>1, <4>2 DEF Ready, Comes
    <3>6. CASE dev.bad = "none" /\ dev.id # Null
      <4>1. Mounts(dev, m)
        BY <3>2, <3>3 DEF Mounts, Comes
      <4>2. DevAgain(m, dev) = Fresh(m, Cur(dev))
        BY <3>6 DEF DevAgain
      <4> QED
        BY <2>2, <3>1, <3>3, <3>6, <4>1, <4>2, FreshReady DEF Comes
    <3> QED
      BY <3>4, <3>5, <3>6
  <2> QED
    BY <2>4, <2>5, <2>6, <2>7, <2>8
<1> QED
  BY <1>1, <1>2

\* In the root directory something is made, or the walk is over.
LEMMA MadeInRoot ==
    ASSUME NEW h, Walks(h), NEW name, NEW attr
    PROVE  Ready(CreateIn(Fresh(h, Start), name, name, attr))
<1> DEFINE f == Fresh(h, Start)
           r == Create(f, Start, name, name, attr)
           c == CreateIn(f, name, name, attr)
<1>1. Comes(h, f) /\ f.id = 0 /\ f.node = Start
  BY StartIsNode, FreshComes
<1>2. Start.fs = 0 /\ Start.at = <<Root, 1>> /\ Start.root
  BY DEF Start, Nothing, RootNode
<1>3. Cur(f) = Start
  BY <1>1 DEF Cur
<1> HIDE DEF f
<1>4. Walks(c)
  BY <1>1, CreateInComes DEF Comes, Null
<1>5. c = Made(f, r)
  BY <1>2, <1>3 DEF CreateIn
<1>6. r.at = End => r.h.bad # "none"
  <2> DEFINE start == DirStart(f.d, Start)
             p == FreeSlot(f.d, start, Slots * LastCluster)
             n == Allocated(f.d)
  <2>1. start = <<Root, 1>>
    BY <1>2 DEF DirStart
  <2>2. start # End
    BY <2>1, GeometryAssumption DEF End
  <2>3. r = CreateFrom(f, start, p, n, name, name, attr)
    BY DEF Create
  <2>4. Bad(f, "lost").bad = "lost" /\ Bad(f, "full").bad = "full"
    BY <1>1, GoesBad DEF Comes, Damages
  <2>5. p \in Places => p # End
    BY GeometryAssumption DEF Places, Clusters, End
  <2> HIDE DEF start, p, n, r
  <2> QED
    BY <2>2, <2>3, <2>4, <2>5 DEF CreateFrom, CreateAt
<1>7. Comes(f, r.h)
  <2>1. Walks(f) /\ IsSession(f) /\ Sound(f)
    BY <1>1 DEF Comes, Walks
  <2>2. Leads(f, r.h) /\ Sound(r.h)
    BY <2>1, CreateLeads, CreateSound
  <2> QED
    BY <2>1, <2>2, TheFatDriver
<1> HIDE DEF r, c
<1>8. ASSUME r.at = End PROVE Ready(c)
  <2>1. c = [r.h EXCEPT !.id = Null]
    BY <1>5, <1>8 DEF Made
  <2>2. [r.h EXCEPT !.id = Null].bad = r.h.bad
    BY <1>7 DEF Comes, Walks, IsSession, Fields
  <2> QED
    BY <1>4, <1>6, <1>8, <2>1, <2>2 DEF Ready
<1>9. ASSUME r.at # End PROVE Ready(c)
  <2> DEFINE n == [NodeAt(Cur(f), r.h.d, r.at) EXCEPT !.live = TRUE]
  <2>1. c = [Fresh(r.h, n) EXCEPT !.via = f.via]
    BY <1>5, <1>9 DEF Made
  <2>2. [Fresh(r.h, n) EXCEPT !.via = f.via].id = 0
    BY <1>7 DEF Fresh, Comes, Walks, IsSession, Fields
  <2> QED
    BY <1>4, <2>1, <2>2 DEF Ready, Null
<1> QED
  BY <1>8, <1>9 DEF c, f

LEMMA MountOthersWalks ==
    ASSUME NEW h, Walks(h), drives \in Nat
    PROVE  Walks(MountOthers(h))
<1> DEFINE dev == Path2Node(h, <<"dev">>)
           x == IF dev.id # Null THEN dev ELSE CreateIn(Fresh(h, Start), "dev", "dev", {"dir"})
<1>1. Comes(h, dev)
  BY Path2NodeComes
<1>2. MountOthers(h) = MountFrom(x, drives)
  BY DEF MountOthers
<1> HIDE DEF dev
<1>3. Ready(x)
  BY <1>1, MadeInRoot DEF Ready, Comes
<1> HIDE DEF x
<1>4. PICK f : /\ f[0] = x /\ \A i \in 1 .. drives : f[i] = MountNext(f[i - 1], i - 1)
               /\ MountFrom(x, drives) = f[drives]
  BY MountRuns
<1> DEFINE T == {i \in 0 .. drives : Ready(f[i])}
<1>5. 0 \in T
  BY <1>3, <1>4
<1>6. ASSUME NEW i \in 1 .. drives, i - 1 \in T PROVE i \in T
  <2>1. Ready(f[i - 1]) /\ f[i] = MountNext(f[i - 1], i - 1)
    BY <1>4, <1>6
  <2>2. Ready(f[i])
    BY <2>1, MountNextReady
  <2> QED
    BY <2>2
<1> HIDE DEF T
<1>7. drives \in T
  BY <1>5, <1>6, StepByStep
<1> QED
  BY <1>2, <1>4, <1>7 DEF T, Ready

-----------------------------------------------------------------------------
(* The system's state. *)

FdInv ==
    /\ IsList(fds)
    /\ \A i \in DOMAIN fds : /\ fds[i].id \in DOMAIN nodes
                             /\ fds[i].via \/ fds[i].id \notin Shared(devs)

StateInv ==
    /\ IsDisk(disk) /\ damage \in Damages /\ drives \in Nat
    /\ damage = "none" => Consistent(disk)
    /\ up \in BOOLEAN /\ crashed \in BOOLEAN
    /\ boots \in Nat /\ calls \in Nat /\ boots + calls <= MaxSteps
    /\ Tables(nodes, devs) /\ FdInv
    /\ ~up => nodes = << >> /\ devs = << >> /\ fds = << >>

LEMMA NoTables == Tables(<< >>, << >>)
BY EmptyList DEF Tables, Shared, IsList

LEMMA InvInit == Init => StateInv
<1> SUFFICES ASSUME Init PROVE StateInv
  OBVIOUS
<1>1. IsDisk(disk) /\ Consistent(disk) /\ drives \in Nat /\ boots + calls <= MaxSteps
  BY FilesAssumption DEF Init
<1>2. Tables(nodes, devs) /\ FdInv
  BY NoTables, EmptyList DEF Init, FdInv, IsList
<1> QED
  BY <1>1, <1>2 DEF Init, StateInv, Damages

LEMMA BeginIsHere == Begin.nodes = nodes /\ Begin.devs = devs /\ Begin.id = 0
BY DEF Begin

LEMMA BeginWalks ==
    ASSUME StateInv, damage = "none"
    PROVE  Walks(Begin)
<1> DEFINE b == Begin
<1>1. b = [x \in Fields |-> b[x]]
  BY DEF Begin, Fields
<1>2. /\ b.d = disk /\ b.log = << >> /\ b.bad = "none" /\ b.nodes = nodes /\ b.devs = devs
      /\ b.node = Start /\ b.id = 0
  BY DEF Begin
<1> HIDE DEF b
<1>3. IsSession(b)
  BY <1>1, <1>2, EmptyList DEF IsSession, StateInv, Damages
<1>4. IsNode(b.node, b.devs)
  BY <1>2, StartIsNode
<1>5. 0 \notin Shared(devs)
  BY SharedIds DEF StateInv
<1>7. Sound(b)
  BY <1>2, EmptyList DEF Sound, StateInv
<1>6. Walks(b)
  BY <1>2, <1>3, <1>4, <1>5, <1>7 DEF Walks, StateInv
<1> QED
  BY <1>2, <1>6 DEF b

\* The descriptors' nodes that no device leads to are as they were.
FdsKeep == \A i \in DOMAIN fds : fds[i].via \/ nodes'[fds[i].id] = nodes[fds[i].id]

LEMMA ComesKeeps ==
    ASSUME StateInv, NEW h, Comes(Begin, h), nodes' = h.nodes
    PROVE  FdsKeep
BY BeginIsHere DEF StateInv, FdInv, FdsKeep, Comes

LEMMA EndsState ==
    ASSUME StateInv, NEW h, Walks(h), Ends(h)
    PROVE  /\ IsDisk(disk)' /\ (damage \in Damages)' /\ Tables(nodes, devs)'
           /\ damage' = "none" => Consistent(disk')
           /\ nodes' = h.nodes /\ devs' = h.devs
           /\ UNCHANGED <<drives, crashed>>
BY DEF Ends, Walks, IsSession, Sound

LEMMA CrashesInv ==
    ASSUME StateInv, NEW h, Walks(h), Crashes(h),
           boots' \in Nat, calls' \in Nat, boots' + calls' <= MaxSteps
    PROVE  StateInv' /\ ~up'
<1>1. IsDisk(disk') /\ damage' \in Damages /\ UNCHANGED drives /\ crashed' = TRUE
  BY DEF Crashes, Walks, IsSession
<1>4. damage' = "none" => Consistent(disk')
  BY DEF Crashes, Walks, Sound
<1>2. up' = FALSE /\ nodes' = << >> /\ devs' = << >> /\ fds' = << >>
  BY DEF Crashes, Off
<1>3. Tables(nodes, devs)' /\ FdInv'
  BY <1>2, NoTables, EmptyList DEF FdInv, IsList
<1> QED
  BY <1>1, <1>2, <1>3, <1>4 DEF StateInv

\* What a call leaves to its descriptors, old and new.
LEMMA DescriptorInv ==
    ASSUME StateInv, NEW h, Comes(Begin, h), Descriptor(h), UNCHANGED up, up,
           boots' \in Nat, calls' \in Nat, boots' + calls' <= MaxSteps
    PROVE  StateInv' /\ FdsKeep /\ \A i \in DOMAIN fds : fds'[i] = fds[i]
<1>0. /\ Walks(h) /\ h.devs = devs /\ DOMAIN h.nodes = DOMAIN nodes
      /\ IsList(h.nodes) /\ IsList(nodes) /\ IsList(fds)
  BY BeginIsHere DEF Comes, StateInv, Walks, Tables, FdInv
<1>1. CASE h.bad # "none" \/ h.id = Null
  <2>1. Ends(h) /\ UNCHANGED fds
    BY <1>1 DEF Descriptor
  <2>2. FdsKeep
    BY <2>1, ComesKeeps DEF Ends
  <2>3. FdInv'
    BY <1>0, <2>1 DEF Ends, FdInv, StateInv
  <2> QED
    BY <1>0, <2>1, <2>2, <2>3, EndsState DEF StateInv
<1>2. CASE h.bad = "none" /\ h.id # Null /\ h.id # 0
  <2>1. Ends(h) /\ fds' = Append(fds, [id |-> h.id, via |-> h.via])
    BY <1>2 DEF Descriptor
  <2>2. h.id \in Shared(devs) /\ h.via /\ h.id \in DOMAIN h.nodes
    BY <1>0, <1>2 DEF Walks, Tables
  <2>3. /\ IsList(fds') /\ Len(fds') = Len(fds) + 1
        /\ fds'[Len(fds) + 1] = [id |-> h.id, via |-> h.via]
        /\ \A i \in 1 .. Len(fds) : fds'[i] = fds[i]
    BY <1>0, <2>1, AppendList
  <2>4. /\ DOMAIN fds = 1 .. Len(fds) /\ DOMAIN fds' = 1 .. Len(fds) + 1 /\ Len(fds) \in Nat
    BY <1>0, <2>3 DEF IsList
  <2>5. FdsKeep
    BY <2>1, ComesKeeps DEF Ends
  <2>6. FdInv'
    <3>1. \A i \in DOMAIN fds' : i \in DOMAIN fds \/ i = Len(fds) + 1
      BY <2>4
    <3>2. nodes' = h.nodes /\ devs' = devs
      BY <1>0, <2>1 DEF Ends
    <3>3. ASSUME NEW i \in DOMAIN fds
          PROVE  fds'[i].id \in DOMAIN nodes' /\ (fds'[i].via \/ fds'[i].id \notin Shared(devs'))
      BY <1>0, <2>3, <2>4, <3>2 DEF FdInv, StateInv
    <3> QED
      BY <2>2, <2>3, <3>1, <3>2, <3>3 DEF FdInv
  <2> QED
    BY <1>0, <2>1, <2>3, <2>4, <2>5, <2>6, EndsState DEF StateInv
<1>3. CASE h.bad = "none" /\ h.id = 0
  <2> DEFINE id == Len(h.nodes) + 1
             ns == Append(h.nodes, h.node)
             g == [h EXCEPT !.nodes = ns, !.id = id]
  <2>1. Ends(g) /\ fds' = Append(fds, [id |-> g.id, via |-> h.via])
    BY <1>3 DEF Descriptor, Null
  <2>2. /\ IsList(ns) /\ Len(ns) = Len(h.nodes) + 1 /\ ns[id] = h.node
        /\ \A k \in 1 .. Len(h.nodes) : ns[k] = h.nodes[k]
    BY <1>0, AppendList
  <2> HIDE DEF ns
  <2>3. g.d = h.d /\ g.bad = h.bad /\ g.nodes = ns /\ g.devs = h.devs /\ g.id = id
    BY <1>0 DEF Walks, IsSession, Fields
  <2> HIDE DEF g
  <2>4. /\ disk' = h.d /\ damage' = h.bad /\ nodes' = ns /\ devs' = devs
        /\ UNCHANGED <<drives, crashed>> /\ fds' = Append(fds, [id |-> id, via |-> h.via])
    BY <1>0, <2>1, <2>3 DEF Ends
  <2>5. /\ DOMAIN ns = 1 .. Len(h.nodes) + 1 /\ DOMAIN nodes = 1 .. Len(h.nodes)
        /\ Len(h.nodes) \in Nat
    BY <1>0, <2>2 DEF IsList
  <2>6. Tables(nodes, devs)'
    <3>1. \A k \in DOMAIN ns : k \in DOMAIN h.nodes \/ k = id
      BY <1>0, <2>5
    <3>2. \A k \in DOMAIN h.nodes : IsNode(ns[k], devs)
      BY <1>0, <2>2, <2>5 DEF Walks, Tables
    <3>3. IsNode(ns[id], devs)
      BY <1>0, <2>2 DEF Walks
    <3>4. Shared(devs) \subseteq DOMAIN ns
      BY <1>0, <2>5 DEF Walks, Tables
    <3> HIDE DEF id
    <3>5. Tables(ns, devs)
      BY <1>0, <2>2, <3>1, <3>2, <3>3, <3>4 DEF Walks, Tables
    <3> QED
      BY <2>4, <3>5
  <2>7. /\ IsList(fds') /\ Len(fds') = Len(fds) + 1
        /\ fds'[Len(fds) + 1] = [id |-> id, via |-> h.via]
        /\ \A i \in 1 .. Len(fds) : fds'[i] = fds[i]
    BY <1>0, <2>4, AppendList
  <2>8. /\ DOMAIN fds = 1 .. Len(fds) /\ DOMAIN fds' = 1 .. Len(fds) + 1 /\ Len(fds) \in Nat
    BY <1>0, <2>7 DEF IsList
  <2>9. id \notin Shared(devs)
    <3>1. Shared(devs) \subseteq DOMAIN nodes
      BY DEF StateInv, Tables
    <3> QED
      BY <2>5, <3>1
  <2>10. FdInv'
    <3>1. \A i \in DOMAIN fds' : i \in DOMAIN fds \/ i = Len(fds) + 1
      BY <2>8
    <3>2. id \in DOMAIN nodes' /\ DOMAIN nodes \subseteq DOMAIN nodes'
      BY <2>4, <2>5
    <3>3. ASSUME NEW i \in DOMAIN fds
          PROVE  fds'[i].id \in DOMAIN nodes' /\ (fds'[i].via \/ fds'[i].id \notin Shared(devs'))
      BY <2>4, <2>7, <2>8, <3>2 DEF FdInv, StateInv
    <3> HIDE DEF id
    <3> QED
      BY <2>4, <2>7, <2>9, <3>1, <3>2, <3>3 DEF FdInv
  <2>11. FdsKeep
    <3>1. \A k \in DOMAIN nodes \ Shared(devs) : nodes'[k] = nodes[k]
      BY <2>2, <2>4, <2>5, BeginIsHere DEF Comes
    <3> QED
      BY <3>1 DEF FdsKeep, FdInv, StateInv
  <2>12. IsDisk(disk') /\ damage' \in Damages /\ (damage' = "none" => Consistent(disk'))
    BY <1>0, <2>4 DEF Walks, IsSession, Sound
  <2> QED
    BY <2>4, <2>6, <2>7, <2>8, <2>10, <2>11, <2>12 DEF StateInv
<1> QED
  BY <1>1, <1>2, <1>3

-----------------------------------------------------------------------------
(* The actions. *)

KeepsFiles == \A i \in DOMAIN fds : up' /\ ~fds[i].via => nodes'[fds'[i].id].at = nodes[fds[i].id].at

LEMMA FdsKeepFiles ==
    ASSUME FdsKeep, \A i \in DOMAIN fds : fds'[i] = fds[i]
    PROVE  KeepsFiles
BY DEF FdsKeep, KeepsFiles

LEMMA BootInv == ASSUME StateInv, Boot PROVE StateInv' /\ KeepsFiles
<1>1. PICK h \in {MountOthers(Begin)} :
          \/ Ends(h) /\ up' = TRUE /\ fds' = << >>
          \/ Crashes(h)
  BY DEF Boot
<1>2. Walks(h)
  BY <1>1, BeginWalks, MountOthersWalks DEF StateInv, Boot
<1>3. ~up /\ boots' \in Nat /\ calls' \in Nat /\ boots' + calls' <= MaxSteps
  BY FilesAssumption DEF Boot, StateInv
<1>4. KeepsFiles
  BY <1>3 DEF StateInv, KeepsFiles
<1>5. CASE Ends(h) /\ up' = TRUE /\ fds' = << >>
  <2>1. FdInv'
    BY <1>5, EmptyList DEF FdInv
  <2> QED
    BY <1>2, <1>3, <1>4, <1>5, <2>1, EndsState DEF StateInv
<1>6. CASE Crashes(h)
  BY <1>2, <1>3, <1>4, <1>6, CrashesInv
<1> QED
  BY <1>1, <1>5, <1>6

LEMMA PowerOffInv == ASSUME StateInv, PowerOff PROVE StateInv' /\ KeepsFiles
<1>1. ~up' /\ nodes' = << >> /\ devs' = << >> /\ fds' = << >>
  BY DEF PowerOff, Off
<1>2. Tables(nodes, devs)' /\ FdInv'
  BY <1>1, NoTables, EmptyList DEF FdInv
<1> QED
  BY <1>1, <1>2 DEF PowerOff, Off, StateInv, KeepsFiles

LEMMA CallCounts ==
    ASSUME StateInv, Call
    PROVE  up /\ boots' \in Nat /\ calls' \in Nat /\ boots' + calls' <= MaxSteps
BY FilesAssumption DEF Call, StateInv

\* From here a call touches a path.
LEMMA TouchedInv ==
    ASSUME StateInv, Call, NEW h, Comes(Begin, h), NEW path \in Paths, Touched(h, path)
    PROVE  StateInv' /\ KeepsFiles
<1>1. PICK stored, g : /\ g = PathTouch(h, path, stored)
                       /\ (Descriptor(g) /\ UNCHANGED up) \/ Crashes(g)
  BY DEF Touched
<1>2. Comes(h, g)
  BY <1>1, PathTouchComes, PathsAreLists DEF Comes
<1>3. Comes(Begin, g)
  BY <1>2, ComesOn
<1>4. CASE Descriptor(g) /\ UNCHANGED up
  BY <1>3, <1>4, CallCounts, DescriptorInv, FdsKeepFiles
<1>5. CASE Crashes(g)
  <2>1. StateInv' /\ ~up'
    BY <1>3, <1>5, CallCounts, CrashesInv DEF Comes
  <2> QED
    BY <2>1 DEF KeepsFiles
<1> QED
  BY <1>1, <1>4, <1>5

LEMMA CreatFileInv ==
    ASSUME StateInv, NEW path \in Paths, CreatFile(path)
    PROVE  StateInv' /\ KeepsFiles
<1>1. Comes(Begin, Begin)
  BY BeginWalks, Remains DEF CreatFile, Call
<1> QED
  BY <1>1, TouchedInv DEF CreatFile

LEMMA OpenFileInv ==
    ASSUME StateInv, NEW path \in Paths, OpenFile(path)
    PROVE  StateInv' /\ KeepsFiles
<1>1. PICK h \in {Path2Node(Begin, path)} :
          \/ Descriptor(h) /\ UNCHANGED up
          \/ Touched(h, path)
  BY DEF OpenFile
<1>3. Call
  BY DEF OpenFile
<1>2. Comes(Begin, h)
  BY <1>1, <1>3, BeginWalks, Path2NodeComes, PathsAreLists DEF Call
<1>4. CASE Descriptor(h) /\ UNCHANGED up
  BY <1>2, <1>3, <1>4, CallCounts, DescriptorInv, FdsKeepFiles
<1>5. CASE Touched(h, path)
  BY <1>2, <1>3, <1>5, TouchedInv
<1> QED
  BY <1>1, <1>4, <1>5

LEMMA UseFreedInv ==
    ASSUME StateInv, NEW i \in DOMAIN fds, UseFreed(i)
    PROVE  StateInv' /\ KeepsFiles
<1>1. UNCHANGED <<disk, up, nodes, devs, fds, drives, crashed>> /\ damage' = "freed" /\ Call
  BY DEF UseFreed
<1> QED
  BY <1>1, CallCounts DEF StateInv, FdInv, Damages, KeepsFiles

\* What is copied is a list, of any number of units.
LEMMA CopiedIsList ==
    ASSUME NEW units, NEW from, NEW n \in Int
    PROVE  IsList(Copied(units, from, n))
<1> DEFINE s == Copied(units, from, n)
           m == IF n < 0 THEN 0 ELSE n
<1>1. m \in Nat /\ 1 .. n = 1 .. m
  OBVIOUS
<1> HIDE DEF m
<1>2. s = [i \in 1 .. m |-> s[i]]
  BY <1>1 DEF Copied
<1> HIDE DEF s
<1> QED
  BY <1>1, <1>2, FunctionIsList DEF s

LEMMA CopyIsList ==
    ASSUME NEW d, NEW c, NEW len \in Int, NEW size \in Int
    PROVE  IsList(Copy(d, c, len, size))
<1>1. PICK f : /\ f[0] = [c |-> c, len |-> len, size |-> size, got |-> << >>]
               /\ \A i \in 1 .. LastCluster : f[i] = CopyTurn(d, f[i - 1])
               /\ Copy(d, c, len, size) = f[LastCluster].got
  BY CopyRuns
<1> DEFINE IsTurn(s) == /\ s = [x \in {"c", "len", "size", "got"} |-> s[x]]
                        /\ s.len \in Int /\ s.size \in Int /\ IsList(s.got)
           T == {i \in 0 .. LastCluster : IsTurn(f[i])}
<1>2. LastCluster \in Nat /\ Units \in Nat
  BY GeometryAssumption
<1>3. 0 \in T
  <2> DEFINE x == [c |-> c, len |-> len, size |-> size, got |-> << >>]
  <2>1. x = [y \in {"c", "len", "size", "got"} |-> x[y]] /\ x.len = len /\ x.size = size /\ x.got = << >>
    OBVIOUS
  <2> HIDE DEF x
  <2>2. IsTurn(x)
    BY <2>1, EmptyList
  <2> QED
    BY <1>1, <1>2, <2>2 DEF x
<1>4. ASSUME NEW i \in 1 .. LastCluster, i - 1 \in T PROVE i \in T
  <2> DEFINE s == f[i - 1]
             whole == Copied(d.data[s.c], 0, Units)
             rest == Copied(d.data[s.c], 0, Lesser(s.len, s.size))
             more == s.got \o whole
             all == s.got \o rest
             on == [c |-> d.fat[s.c], len |-> s.len - Units, size |-> s.size - Units, got |-> more]
             end == [s EXCEPT !.len = 0, !.got = all]
  <2>1. IsTurn(s) /\ f[i] = CopyTurn(d, s)
    BY <1>1, <1>4
  <2> HIDE DEF s
  <2>2. IsList(whole) /\ IsList(rest)
    <3>1. Lesser(s.len, s.size) \in Int
      BY <2>1 DEF Lesser
    <3> QED
      BY <1>2, <3>1, CopiedIsList
  <2>3. CopyTurn(d, s) \in {s, on, end}
    BY <2>1 DEF CopyTurn
  <2> HIDE DEF whole, rest
  <2>4. IsList(more) /\ IsList(all)
    BY <2>1, <2>2, JoinLists
  <2> HIDE DEF more, all
  <2>5. IsTurn(on)
    BY <1>2, <2>1, <2>4
  <2>6. IsTurn(end)
    <3>1. /\ end = [x \in {"c", "len", "size", "got"} |-> end[x]]
          /\ end.len = 0 /\ end.size = s.size /\ end.got = all
      BY <2>1
    <3> HIDE DEF end
    <3> QED
      BY <2>1, <2>4, <3>1
  <2> HIDE DEF on, end, IsTurn
  <2> QED
    BY <2>1, <2>3, <2>5, <2>6
<1> HIDE DEF T
<1>5. LastCluster \in T
  BY <1>2, <1>3, <1>4, StepByStep
<1> QED
  BY <1>1, <1>5 DEF T

LEMMA SeekOffset ==
    ASSUME NEW h, NEW c, NEW off \in Nat
    PROVE  Seek(h, c, off).off \in Nat
<1>1. LastCluster \in Nat /\ Units \in Nat
  BY GeometryAssumption
<1>2. PICK f : /\ f[0] = [h |-> h, c |-> c, off |-> off]
               /\ \A i \in 1 .. LastCluster : f[i] = SeekTurn(f[i - 1])
               /\ Seek(h, c, off) = f[LastCluster]
  BY SeekRuns
<1> DEFINE T == {i \in 0 .. LastCluster : f[i].off \in Nat}
<1>3. 0 \in T
  BY <1>1, <1>2
<1>4. ASSUME NEW i \in 1 .. LastCluster, i - 1 \in T PROVE i \in T
  <2> DEFINE s == f[i - 1]
  <2>1. s.off \in Nat /\ f[i] = SeekTurn(s)
    BY <1>2, <1>4
  <2> HIDE DEF s
  <2>2. SeekTurn(s).off \in Nat
    BY <1>1, <2>1 DEF SeekTurn
  <2> QED
    BY <2>1, <2>2
<1> HIDE DEF T
<1>5. LastCluster \in T
  BY <1>1, <1>3, <1>4, StepByStep
<1> QED
  BY <1>2, <1>5 DEF T

\* fat_read returns a list of units, whatever the entry and however far the chain goes.
LEMMA ReadIsList ==
    ASSUME NEW d, IsDisk(d), Consistent(d), NEW node, node.at \in Places, node.off \in Nat, NEW len \in Nat
    PROVE  IsList(ReadFile(d, node, len))
<1> DEFINE e == Entry(d, node.at)
           s == Seek(NewSession(d), e.first, node.off)
           size == e.size - Units * (node.off \div Units)
           fit == IF s.off = 0 THEN 0 ELSE Lesser(Lesser(Units - s.off, len), size)
           head == Copied(d.data[s.c], s.off, fit)
           c == IF s.off = 0 THEN s.c ELSE d.fat[s.c]
           tail == Copy(d, c, len - fit, size - fit)
<1>1. Units \in Nat /\ Units # 0
  BY GeometryAssumption
<1>2. e.size \in Nat
  BY EntryIsSlot DEF IsSlot
<1>3. s.off \in Nat
  BY SeekOffset
<1>4. node.off \div Units \in Int
  BY <1>1
<1>5. size \in Int
  BY <1>1, <1>2, <1>4
<1>6. ReadFile(d, node, len) \in {<< >>, <<"junk">>, head \o tail}
  BY DEF ReadFile, ReadFrom, ReadAt
<1> HIDE DEF size, s
<1>7. fit \in Int
  BY <1>1, <1>3, <1>5 DEF Lesser
<1> HIDE DEF fit
<1>8. IsList(head)
  BY <1>7, CopiedIsList
<1>9. IsList(tail)
  <2>1. len - fit \in Int /\ size - fit \in Int
    BY <1>5, <1>7
  <2> HIDE DEF c
  <2> QED
    BY <2>1, CopyIsList
<1> HIDE DEF head, tail
<1>10. IsList(head \o tail)
  BY <1>8, <1>9, JoinLists
<1> QED
  BY <1>6, <1>10, EmptyList, OneList

\* The other drives are empty.
LEMMA NoMoreFiles ==
    ASSUME NEW d, IsDisk(d), NEW e, IsDisk(e), \A q \in Places : e.slots[q[1]][q[2]] = Zero,
           NEW node, node.at \in Places, node.off \in Nat, NEW len
    PROVE  ReadFile(e, node, len) = << >>
<1>1. Entry(e, node.at) \in {Zero, Junk}
  <2>1. PICK n \in node.at[2] .. 2 * Slots + 1 :
              IF n <= 2 * Slots THEN Entry(e, node.at) = Window(e, node.at[1])[n] ELSE Entry(e, node.at) = Junk
    BY EntryIsThere
  <2>2. Slots \in Nat /\ node.at[1] \in Clusters /\ node.at[2] \in 1 .. Slots
    BY PlacesAre, GeometryAssumption
  <2>3. ASSUME NEW c \in Clusters, NEW i \in 1 .. Slots PROVE e.slots[c][i] = Zero
    <3>1. <<c, i>> \in Places
      BY DEF Places
    <3> QED
      BY <3>1
  <2>4. CASE n <= Slots
    <3>1. n \in 1 .. Slots /\ n <= 2 * Slots
      BY <2>2, <2>4
    <3> QED
      BY <2>1, <2>2, <2>3, <3>1, WindowSlots
  <2>5. CASE ~(n <= Slots) /\ n <= 2 * Slots
    <3>1. n \in Slots + 1 .. 2 * Slots /\ n - Slots \in 1 .. Slots
      BY <2>2, <2>5
    <3>2. Entry(e, node.at) = IF e.fat[node.at[1]] \in Clusters THEN e.slots[e.fat[node.at[1]]][n - Slots] ELSE Junk
      BY <2>1, <2>2, <2>5, <3>1, WindowSlots
    <3> QED
      BY <2>3, <3>1, <3>2
  <2>6. CASE ~(n <= 2 * Slots)
    BY <2>1, <2>6
  <2> QED
    BY <2>4, <2>5, <2>6
<1>2. Entry(e, node.at).size = 0
  <2>1. Zero.size = 0 /\ Junk.size = 0
    BY DEF Zero, Junk
  <2> QED
    BY <1>1, <2>1
<1> QED
  BY <1>2 DEF ReadFile, ReadFrom

\* Reading moves a node on, and it remains the file's.
LEMMA ReadFdInv ==
    ASSUME StateInv, NEW i \in DOMAIN fds, NEW len \in Nat, ReadFd(i, len)
    PROVE  StateInv' /\ KeepsFiles
<1> DEFINE id == fds[i].id
           n == [nodes[id] EXCEPT !.off = @ + Len(ReadFile(DiskOf(Begin, Node(i)), Node(i), len))]
<1>1. /\ nodes' = [nodes EXCEPT ![id] = n]
      /\ UNCHANGED <<disk, up, devs, fds, drives, damage, crashed>> /\ Call
  BY DEF ReadFd
<1>2. id \in DOMAIN nodes /\ IsNode(nodes[id], devs) /\ IsList(nodes)
  BY DEF StateInv, FdInv, Tables
<1>8. nodes[id].off + Len(ReadFile(DiskOf(Begin, Node(i)), Node(i), len)) \in Nat
  <2> DEFINE b == DiskOf(Begin, Node(i))
  <2>1. Node(i).at \in Places /\ Node(i).off \in Nat /\ Node(i) = nodes[id]
    BY <1>2 DEF IsNode, Node
  <2>2. IsDisk(disk) /\ Consistent(disk)
    BY <1>1 DEF StateInv, Call
  <2>3. IsList(ReadFile(b, Node(i), len))
    <3>1. CASE Node(i).fs = 0
      <4>1. b = disk
        BY <3>1 DEF DiskOf, Begin
      <4> QED
        BY <2>1, <2>2, <4>1, ReadIsList
    <3>2. CASE Node(i).fs # 0
      <4>1. b = [disk EXCEPT !.slots = [c \in Clusters |-> [j \in 1 .. Slots |-> Zero]]]
        BY <3>2 DEF DiskOf, Begin
      <4> HIDE DEF b
      <4>3. /\ DOMAIN b = DOMAIN disk /\ b.fat = disk.fat /\ b.data = disk.data
            /\ b.slots = [c \in Clusters |-> [j \in 1 .. Slots |-> Zero]]
        BY <2>2, <4>1 DEF IsDisk
      <4>4. \A q \in Places : b.slots[q[1]][q[2]] = Zero
        BY <4>3, PlacesAre
      <4>2. IsDisk(b) /\ \A q \in Places : b.slots[q[1]][q[2]] = Zero
        BY <2>2, <4>3, <4>4 DEF IsDisk
      <4> QED
        BY <2>1, <2>2, <4>2, NoMoreFiles, EmptyList
    <3> QED
      BY <3>1, <3>2
  <2> QED
    BY <2>1, <2>3 DEF IsList
<1>3. IsNode(n, devs) /\ n.at = nodes[id].at
  BY <1>2, <1>8 DEF IsNode, NodeFields
<1> HIDE DEF n, id
<1>4. /\ DOMAIN nodes' = DOMAIN nodes
      /\ \A k \in DOMAIN nodes : nodes'[k] = IF k = id THEN n ELSE nodes[k]
  BY <1>1
<1>5. IsList(nodes')
  BY <1>1, <1>2, SetInList
<1>6. Tables(nodes, devs)'
  BY <1>1, <1>3, <1>4, <1>5 DEF StateInv, Tables
<1>7. FdInv' /\ KeepsFiles
  BY <1>1, <1>3, <1>4 DEF StateInv, FdInv, KeepsFiles
<1> QED
  BY <1>1, <1>6, <1>7, CallCounts DEF StateInv

LEMMA WriteFdInv ==
    ASSUME StateInv, NEW i \in DOMAIN fds, NEW input \in Inputs, WriteFd(i, input)
    PROVE  StateInv' /\ KeepsFiles
<1>1. PICK h \in {WriteFile(Begin, Node(i), input)} : (Ends(h) /\ UNCHANGED <<up, fds>>) \/ Crashes(h)
  BY DEF WriteFd
<1>2. Call
  BY DEF WriteFd
<1>3. Leads(Begin, h) /\ Sound(h)
  <2>1. IsSession(Begin) /\ Sound(Begin)
    BY <1>2, BeginWalks DEF Walks, Call
  <2>2. Node(i).at \in Places
    BY DEF StateInv, FdInv, Tables, IsNode, Node
  <2> QED
    BY <1>1, <2>1, <2>2, WriteFileLeads, WriteFileSound
<1>4. Walks(h) /\ h.nodes = nodes /\ h.devs = devs
  BY <1>2, <1>3, BeginIsHere, BeginWalks, TheFatDriver DEF Comes, Leads, SameNodes, Call
<1>5. CASE Ends(h) /\ UNCHANGED <<up, fds>>
  <2>1. nodes' = nodes /\ devs' = devs
    BY <1>4, <1>5 DEF Ends
  <2>2. FdInv' /\ KeepsFiles
    BY <1>5, <2>1 DEF StateInv, FdInv, KeepsFiles
  <2> QED
    BY <1>2, <1>4, <1>5, <2>1, <2>2, CallCounts, EndsState DEF StateInv
<1>6. CASE Crashes(h)
  <2>1. StateInv' /\ ~up'
    BY <1>2, <1>4, <1>6, CallCounts, CrashesInv
  <2> QED
    BY <2>1 DEF KeepsFiles
<1> QED
  BY <1>1, <1>5, <1>6

LEMMA NextInv == ASSUME StateInv, [Next]_vars PROVE StateInv' /\ [KeepsFiles]_vars
<1>1. CASE Boot
  BY <1>1, BootInv
<1>2. CASE PowerOff
  BY <1>2, PowerOffInv
<1>3. CASE \E p \in Paths : OpenFile(p) \/ CreatFile(p)
  BY <1>3, OpenFileInv, CreatFileInv
<1>4. CASE \E i \in DOMAIN fds : UseFreed(i)
  BY <1>4, UseFreedInv
<1>5. CASE \E i \in DOMAIN fds : \E n \in ReadLens : ReadFd(i, n)
  BY <1>5, ReadFdInv, FilesAssumption
<1>6. CASE \E i \in DOMAIN fds : \E u \in Inputs : WriteFd(i, u)
  BY <1>6, WriteFdInv
<1>7. CASE UNCHANGED vars
  BY <1>7 DEF vars, StateInv, FdInv
<1> QED
  BY <1>1, <1>2, <1>3, <1>4, <1>5, <1>6, <1>7 DEF Next

\* At most n clusters of the chain from c on.
Chains(d, l, c, n) ==
    /\ IsList(l) /\ Len(l) <= n
    /\ \A i \in 1 .. Len(l) : l[i] \in Clusters
    /\ \A i \in 2 .. Len(l) : l[i] = d.fat[l[i - 1]]
    /\ c \in Clusters /\ n >= 1 => Len(l) >= 1 /\ l[1] = c
    /\ c \notin Clusters => Len(l) = 0
    /\ Len(l) \in 1 .. n - 1 => d.fat[l[Len(l)]] \notin Clusters

LEMMA ChainsOn ==
    ASSUME NEW d, NEW c \in Clusters, NEW n \in Nat, n >= 1, NEW l, Chains(d, l, d.fat[c], n - 1)
    PROVE  Chains(d, <<c>> \o l, c, n)
<1> DEFINE m == <<c>> \o l
<1>1. Len(l) \in Nat /\ Len(l) <= n - 1
  BY DEF Chains, IsList
<1>2. IsList(m) /\ Len(m) = Len(l) + 1 /\ m[1] = c /\ \A i \in 2 .. Len(l) + 1 : m[i] = l[i - 1]
  BY InFront DEF Chains
<1> HIDE DEF m
<1>3. \A i \in 1 .. Len(m) : i = 1 \/ (i \in 2 .. Len(l) + 1 /\ i - 1 \in 1 .. Len(l))
  BY <1>1, <1>2
<1>4. \A i \in 1 .. Len(m) : m[i] \in Clusters
  BY <1>2, <1>3 DEF Chains
<1>5. ASSUME NEW i \in 2 .. Len(m) PROVE m[i] = d.fat[m[i - 1]]
  <2>1. i \in 2 .. Len(l) + 1 /\ m[i] = l[i - 1]
    BY <1>2
  <2>2. CASE i = 2
    <3>1. Len(l) >= 1
      BY <1>1, <2>1, <2>2
    <3>2. n - 1 >= 1 /\ (d.fat[c] \notin Clusters => Len(l) = 0)
      BY <1>1, <3>1 DEF Chains
    <3>3. l[1] = d.fat[c]
      BY <1>1, <3>1, <3>2 DEF Chains
    <3> QED
      BY <1>2, <2>1, <2>2, <3>3
  <2>3. CASE i # 2
    <3>1. i - 1 \in 2 .. Len(l) + 1 /\ i - 1 \in 2 .. Len(l) /\ (i - 1) - 1 = i - 2
      BY <1>1, <2>1, <2>3
    <3>2. m[i - 1] = l[i - 2]
      BY <1>2, <3>1
    <3>3. l[i - 1] = d.fat[l[(i - 1) - 1]]
      BY <3>1 DEF Chains
    <3> QED
      BY <2>1, <3>1, <3>2, <3>3
  <2> QED
    BY <2>2, <2>3
<1>6. ASSUME Len(m) \in 1 .. n - 1 PROVE d.fat[m[Len(m)]] \notin Clusters
  <2>1. n - 1 >= 1 /\ Len(l) \in 0 .. n - 2
    BY <1>1, <1>2, <1>6
  <2>2. CASE Len(l) = 0
    <3>1. d.fat[c] \notin Clusters
      BY <2>1, <2>2 DEF Chains
    <3> QED
      BY <1>2, <2>2, <3>1
  <2>3. CASE Len(l) # 0
    <3>1. Len(l) \in 1 .. (n - 1) - 1 /\ Len(m) \in 2 .. Len(l) + 1 /\ Len(m) - 1 = Len(l)
      BY <1>1, <1>2, <2>1, <2>3
    <3>2. d.fat[l[Len(l)]] \notin Clusters
      BY <3>1 DEF Chains
    <3> QED
      BY <1>2, <3>1, <3>2
  <2> QED
    BY <2>2, <2>3
<1>7. Len(m) <= n /\ Len(m) >= 1
  BY <1>1, <1>2
<1> QED
  BY <1>2, <1>4, <1>5, <1>6, <1>7 DEF Chains, m

LEMMA ChainOfChains ==
    ASSUME NEW d, IsDisk(d), NEW c \in Int
    PROVE  Chains(d, ChainOf(d, c), c, LastCluster)
<1> DEFINE k == [walk |-> "chain", d |-> d]
           N == LastCluster
           Row(g, x) == IF x[1] \notin Clusters \/ x[2] = 0 THEN << >>
                        ELSE <<x[1]>> \o g[<<d.fat[x[1]], x[2] - 1>>]
           f == CHOOSE f : f = [x \in Int \X (0 .. N) |-> Row(f, x)]
<1>1. \A g, x : Way(k, g, x) = Row(g, x)
  BY DEF Way, Onto
<1>2. ChainOf(d, c) = f[<<c, N>>]
  BY DEF ChainOf
<1>3. N \in Nat
  BY GeometryAssumption
<1>4. k.walk = "chain" /\ k.d = d
  OBVIOUS
<1>5. \A a \in Clusters : d.fat[a] \in Int
  BY GeometryAssumption DEF IsDisk, Clusters, EOC
<1> HIDE DEF k, N, Row
<1>6. f = CHOOSE g : Descends(g, k, Int, N)
  BY <1>1 DEF Descends
<1> HIDE DEF f
<1>7. StaysIn(k, Int)
  BY <1>4, <1>5 DEF StaysIn, Stops, Onward, Onto
<1>8. Descends(f, k, Int, N)
  <2>1. \E g : Descends(g, k, Int, N)
    BY <1>3, <1>7, DescentExists
  <2> QED
    BY <1>6, <2>1
<1>9. ASSUME NEW q \in Int, NEW n \in 0 .. N
      PROVE  /\ q \notin Clusters \/ n = 0 => f[<<q, n>>] = << >>
             /\ ~(q \notin Clusters \/ n = 0) => f[<<q, n>>] = <<q>> \o f[<<d.fat[q], n - 1>>]
  <2>1. f[<<q, n>>] = Way(k, f, <<q, n>>)
    BY <1>8 DEF Descends
  <2>2. f[<<q, n>>] = Row(f, <<q, n>>)
    BY <1>1, <2>1
  <2>3. Row(f, <<q, n>>) = IF q \notin Clusters \/ n = 0 THEN << >> ELSE <<q>> \o f[<<d.fat[q], n - 1>>]
    BY DEF Row
  <2> QED
    BY <2>2, <2>3
<1> DEFINE T == {n \in 0 .. N : \A q \in Int : Chains(d, f[<<q, n>>], q, n)}
<1>10. ASSUME NEW q \in Int, NEW n \in 0 .. N, q \notin Clusters \/ n = 0
       PROVE  Chains(d, f[<<q, n>>], q, n)
  <2>1. f[<<q, n>>] = << >>
    BY <1>9, <1>10
  <2>2. Chains(d, << >>, q, n)
    BY <1>3, <1>10, EmptyList DEF Chains
  <2> QED
    BY <2>1, <2>2
<1>11. 0 \in T
  BY <1>3, <1>10
<1>12. ASSUME NEW n \in 1 .. N, n - 1 \in T PROVE n \in T
  <2>1. ASSUME NEW q \in Int PROVE Chains(d, f[<<q, n>>], q, n)
    <3>1. n \in 0 .. N /\ n # 0 /\ n >= 1 /\ n \in Nat
      OBVIOUS
    <3>2. CASE q \notin Clusters
      BY <1>10, <3>1, <3>2
    <3>3. CASE q \in Clusters
      <4>1. d.fat[q] \in Int
        BY <1>5, <3>3
      <4>2. Chains(d, f[<<d.fat[q], n - 1>>], d.fat[q], n - 1)
        BY <1>12, <4>1
      <4>3. f[<<q, n>>] = <<q>> \o f[<<d.fat[q], n - 1>>]
        BY <1>9, <3>1, <3>3
      <4> QED
        BY <3>1, <3>3, <4>2, <4>3, ChainsOn
    <3> QED
      BY <3>2, <3>3
  <2> QED
    BY <2>1
<1> HIDE DEF T
<1>13. N \in T
  BY <1>3, <1>11, <1>12, StepByStep
<1> QED
  BY <1>2, <1>13 DEF T, N

-----------------------------------------------------------------------------
(* The chains of a consistent disk. *)

LEMMA ClustersAre ==
    /\ \A c \in Clusters : c \in Int /\ c \in 0 .. LastCluster /\ c >= 2
    /\ LastCluster \in Nat /\ LastCluster >= 2
BY GeometryAssumption DEF Clusters

LEMMA HeadChains ==
    ASSUME NEW d, IsDisk(d), NEW c, IsHead(d, c)
    PROVE  LET l == ChainOf(d, c)
           IN  /\ Chains(d, l, c, LastCluster) /\ Len(l) \in 1 .. LastCluster /\ l[1] = c
               /\ \A i \in 1 .. Len(l) : l[i] \in 0 .. LastCluster
<1> DEFINE l == ChainOf(d, c)
<1>1. c \in Clusters /\ c \in Int
  BY ClustersAre DEF IsHead
<1>2. Chains(d, l, c, LastCluster)
  BY <1>1, ChainOfChains
<1> HIDE DEF l
<1>3. Len(l) \in Nat /\ Len(l) <= LastCluster /\ Len(l) >= 1 /\ l[1] = c
  BY <1>1, <1>2, ClustersAre DEF Chains, IsList
<1>4. \A i \in 1 .. Len(l) : l[i] \in 0 .. LastCluster
  BY <1>2, ClustersAre DEF Chains
<1>5. Len(l) \in 1 .. LastCluster
  BY <1>3, ClustersAre
<1> QED
  BY <1>2, <1>3, <1>4, <1>5 DEF l

\* Two chains that begin where none goes on meet nowhere, nor does one meet itself.
LEMMA ChainsMeetNowhere ==
    ASSUME NEW d, IsDisk(d), Consistent(d), NEW c, IsHead(d, c), NEW e, IsHead(d, e),
           NEW i \in 1 .. Len(ChainOf(d, c)), NEW j \in 1 .. Len(ChainOf(d, e)),
           ChainOf(d, c)[i] = ChainOf(d, e)[j]
    PROVE  c = e /\ i = j
<1> DEFINE l == ChainOf(d, c)
           m == ChainOf(d, e)
           T == {n \in Nat : n >= 1 /\ n <= Len(l) /\
                    \E o \in 1 .. Len(m) : l[n] = m[o] /\ ~(c = e /\ n = o)}
<1>1. /\ Chains(d, l, c, LastCluster) /\ Len(l) \in 1 .. LastCluster /\ l[1] = c
      /\ \A n \in 1 .. Len(l) : l[n] \in 0 .. LastCluster
  BY HeadChains
<1>2. /\ Chains(d, m, e, LastCluster) /\ Len(m) \in 1 .. LastCluster /\ m[1] = e
      /\ \A n \in 1 .. Len(m) : m[n] \in 0 .. LastCluster
  BY HeadChains
<1> SUFFICES ASSUME T # {} PROVE FALSE
  <2>1. i \in Nat /\ i >= 1 /\ i <= Len(l)
    BY <1>1
  <2>2. ~(c = e /\ i = j) => i \in T
    BY <2>1
  <2> QED
    BY <2>2
<1> HIDE DEF l, m
<1>3. PICK n \in T : \A x \in T : n <= x
  <2>1. T \in SUBSET Nat
    OBVIOUS
  <2> HIDE DEF T
  <2> QED
    BY <2>1, LeastOfNaturals
<1>4. n \in Nat /\ n >= 1 /\ n <= Len(l) /\ \E o \in 1 .. Len(m) : l[n] = m[o] /\ ~(c = e /\ n = o)
  BY ZenonT(30)
<1>5. \A x : x \in T <=> /\ x \in Nat /\ x >= 1 /\ x <= Len(l)
                         /\ \E o \in 1 .. Len(m) : l[x] = m[o] /\ ~(c = e /\ x = o)
  BY ZenonT(30)
<1> HIDE DEF T
<1>6. PICK o \in 1 .. Len(m) : l[n] = m[o] /\ ~(c = e /\ n = o)
  BY <1>4
<1>7. n \in 1 .. Len(l) /\ Len(l) \in Nat /\ Len(m) \in Nat
  BY <1>1, <1>2, <1>4
<1>8. /\ \A a \in 0 .. LastCluster : d.fat[a] # c /\ d.fat[a] # e
      /\ c \in Clusters /\ e \in Clusters
  BY DEF IsHead
<1>9. n # 1 => n - 1 \in 1 .. Len(l) /\ l[n] = d.fat[l[n - 1]] /\ l[n] \in Clusters
  <2>1. n # 1 => n \in 2 .. Len(l) /\ n - 1 \in 1 .. Len(l)
    BY <1>7
  <2> QED
    BY <1>1, <1>7, <2>1 DEF Chains
<1>10. o # 1 => o - 1 \in 1 .. Len(m) /\ m[o] = d.fat[m[o - 1]]
  <2>1. o # 1 => o \in 2 .. Len(m) /\ o - 1 \in 1 .. Len(m)
    BY <1>7
  <2> QED
    BY <1>2, <2>1 DEF Chains
<1>11. CASE n = 1 /\ o = 1
  BY <1>1, <1>2, <1>6, <1>11
<1>12. CASE n = 1 /\ o # 1
  BY <1>1, <1>2, <1>6, <1>8, <1>10, <1>12
<1>13. CASE n # 1 /\ o = 1
  BY <1>1, <1>2, <1>6, <1>8, <1>9, <1>13
<1>14. CASE n # 1 /\ o # 1
  <2>1. l[n - 1] = m[o - 1]
    <3>1. \A a, b \in 0 .. LastCluster : d.fat[a] = d.fat[b] /\ d.fat[a] \in Clusters => a = b
      BY DEF Consistent
    <3>2. l[n - 1] \in 0 .. LastCluster /\ m[o - 1] \in 0 .. LastCluster
      BY <1>1, <1>2, <1>9, <1>10, <1>14
    <3> QED
      BY <1>6, <1>9, <1>10, <1>14, <3>1, <3>2
  <2>2. ~(c = e /\ n - 1 = o - 1)
    BY <1>6, <1>7
  <2>3. n - 1 \in Nat /\ n - 1 >= 1 /\ n - 1 <= Len(l)
    BY <1>7, <1>9, <1>14
  <2>4. n - 1 \in T
    BY <1>10, <1>14, <1>5, <2>1, <2>2, <2>3
  <2> QED
    BY <1>3, <1>7, <2>4
<1> QED
  BY <1>11, <1>12, <1>13, <1>14

\* So such a chain ends, before it has passed as many clusters as there are, in an end mark.
LEMMA ChainsEnd ==
    ASSUME NEW d, IsDisk(d), Consistent(d), NEW c, IsHead(d, c)
    PROVE  d.fat[ChainOf(d, c)[Len(ChainOf(d, c))]] = EOC
<1> DEFINE l == ChainOf(d, c)
           n == Len(l)
<1>1. /\ Chains(d, l, c, LastCluster) /\ n \in 1 .. LastCluster /\ l[1] = c
      /\ \A i \in 1 .. n : l[i] \in 0 .. LastCluster
  BY HeadChains
<1>2. \A i, j \in 1 .. n : l[i] = l[j] => i = j
  BY ChainsMeetNowhere
<1> HIDE DEF l
<1>3. n # LastCluster
  <2> SUFFICES ASSUME n = LastCluster PROVE FALSE
    OBVIOUS
  <2>1. l \in [1 .. n -> Clusters]
    BY <1>1 DEF Chains, IsList
  <2>2. /\ IsFiniteSet(1 .. n) /\ Cardinality(1 .. n) = LastCluster
        /\ IsFiniteSet(Clusters) /\ Cardinality(Clusters) = LastCluster - 1
    BY ClustersAre, FS_Interval DEF Clusters
  <2>3. Cardinality(Clusters) < Cardinality(1 .. n)
    BY <2>2, ClustersAre
  <2>4. \E i, j \in 1 .. n : i # j /\ l[i] = l[j]
    BY <2>1, <2>2, <2>3, FS_PigeonHole
  <2> QED
    BY <1>2, <2>4
<1>4. n \in 1 .. LastCluster - 1 /\ n \in 1 .. n /\ n \in Nat /\ n >= 1
  BY <1>1, <1>3, ClustersAre
<1>8. n # 1 => n \in 2 .. n /\ n - 1 \in 1 .. n
  <2> HIDE DEF n
  <2> QED
    BY <1>4
<1>5. d.fat[l[n]] \notin Clusters
  BY <1>1, <1>4 DEF Chains
<1>6. d.fat[l[n]] # 0
  <2>1. CASE n = 1
    BY <1>1, <2>1 DEF IsHead
  <2>2. CASE n # 1
    <3>1. n \in 2 .. n /\ n - 1 \in 1 .. n
      BY <1>8, <2>2
    <3>2. l[n] = d.fat[l[n - 1]] /\ l[n] \in Clusters
      BY <1>1, <1>4, <3>1 DEF Chains
    <3> QED
      BY <1>1, <3>1, <3>2 DEF Consistent
  <2> QED
    BY <2>1, <2>2
<1>7. d.fat[l[n]] # 1 /\ d.fat[l[n]] \in {EOC} \union 0 .. LastCluster
  BY <1>1, <1>4 DEF Consistent, IsDisk
<1> QED
  BY <1>5, <1>6, <1>7 DEF Clusters, l

-----------------------------------------------------------------------------
(* Where entries begin: in a directory's first place, or behind a short slot. *)

Starts(d, p) ==
    \/ p[2] = 1 /\ IsHead(d, p[1])
    \/ p[2] = 1 /\ \E a \in Clusters : d.fat[a] = p[1] /\ d.slots[a][Slots].k # "long"
    \/ p[2] \in 2 .. Slots /\ d.slots[p[1]][p[2] - 1].k # "long"

LEMMA NextStarts ==
    ASSUME NEW d, IsDisk(d), NEW p \in Places, NextEntry(d, p) \in Places
    PROVE  Starts(d, NextEntry(d, p))
<1> DEFINE w == Window(d, p[1])
           b == Behind(d, p)
           q == NextEntry(d, p)
<1>1. Slots \in Nat /\ Slots >= 2 /\ p[1] \in Clusters /\ p[2] \in 1 .. Slots
  BY PlacesAre, GeometryAssumption
<1>2. Len(w) = 2 * Slots
  BY <1>1, WindowSlots
<1>3. PICK n \in p[2] .. 2 * Slots + 1 :
          /\ n = SkipName(w, p[2])
          /\ n <= 2 * Slots => Entry(d, p) = w[n] /\ Entry(d, p).k # "long"
  BY EntryIsThere
<1>4. b = n + 1
  BY <1>3 DEF Behind
<1>5. q \notin {End, Lost}
  BY SpotsAre
<1>6. ~(b > 2 * Slots) /\ q = SlotAt(d, p[1], b)
  BY <1>2, <1>5 DEF NextEntry
<1>7. n \in 1 .. 2 * Slots - 1 /\ n <= 2 * Slots /\ w[n].k # "long"
  BY <1>1, <1>3, <1>4, <1>6
<1> HIDE DEF b, q
<1>8. CASE n < Slots
  <2>1. q = <<p[1], n + 1>> /\ q[1] = p[1] /\ q[2] = n + 1
    BY <1>1, <1>4, <1>6, <1>7, <1>8 DEF SlotAt
  <2>2. n \in 1 .. Slots /\ q[2] \in 2 .. Slots /\ q[2] - 1 = n
    BY <1>1, <1>7, <1>8, <2>1
  <2>3. w[n] = d.slots[p[1]][n]
    BY <1>1, <2>2, WindowSlots
  <2> QED
    BY <1>7, <2>1, <2>2, <2>3 DEF Starts, q
<1>9. CASE n = Slots
  <2>1. q = <<d.fat[p[1]], 1>> /\ q[1] = d.fat[p[1]] /\ q[2] = 1
    BY <1>1, <1>4, <1>6, <1>9 DEF SlotAt
  <2>2. w[Slots] = d.slots[p[1]][Slots]
    <3>1. Slots \in 1 .. Slots
      BY <1>1
    <3>2. \A i \in 1 .. Slots : w[i] = d.slots[p[1]][i]
      BY <1>1, WindowSlots
    <3> HIDE DEF w
    <3> QED
      BY <3>1, <3>2
  <2> QED
    BY <1>1, <1>7, <1>9, <2>1, <2>2 DEF Starts, q
<1>10. CASE n > Slots
  <2>1. q = <<d.fat[p[1]], n + 1 - Slots>> /\ q[1] = d.fat[p[1]] /\ q[2] = n + 1 - Slots
    BY <1>1, <1>4, <1>6, <1>7, <1>10 DEF SlotAt
  <2>2. n \in Slots + 1 .. 2 * Slots /\ n - Slots \in 1 .. Slots /\ q[2] \in 2 .. Slots /\ q[2] - 1 = n - Slots
    BY <1>1, <1>7, <1>10, <2>1
  <2>3. d.fat[p[1]] \in Clusters
    BY <2>1, PlacesAre DEF q
  <2>4. w[n] = d.slots[d.fat[p[1]]][n - Slots]
    BY <1>1, <2>2, <2>3, WindowSlots
  <2> QED
    BY <1>7, <2>1, <2>2, <2>4 DEF Starts, q
<1> QED
  BY <1>1, <1>7, <1>8, <1>9, <1>10

\* The slots between where an entry begins and its short one are long.
LEMMA ShortBehindLong ==
    ASSUME NEW d, IsDisk(d), NEW p \in Places, ShortAt(d, p) \in Places
    PROVE  LET s == ShortAt(d, p)
           IN  \/ /\ s[1] = p[1] /\ s[2] >= p[2]
                  /\ \A i \in p[2] .. s[2] - 1 : d.slots[p[1]][i].k = "long"
               \/ /\ s[1] = d.fat[p[1]]
                  /\ \A i \in p[2] .. Slots : d.slots[p[1]][i].k = "long"
                  /\ \A i \in 1 .. s[2] - 1 : d.slots[s[1]][i].k = "long"
<1> DEFINE s == ShortAt(d, p)
           w == Window(d, p[1])
<1>1. PICK n \in p[2] .. 2 * Slots + 1 :
          /\ s = SlotAt(d, p[1], n)
          /\ \A m \in p[2] .. n - 1 : w[m].k = "long"
  BY EntryIsThere
<1>2. /\ Slots \in Nat /\ Slots >= 2
      /\ p[1] \in Clusters /\ p[2] \in 1 .. Slots /\ s[1] \in Clusters /\ s[2] \in 1 .. Slots
  BY PlacesAre, GeometryAssumption
<1> HIDE DEF s
<1>3. ASSUME NEW i \in 1 .. Slots PROVE w[i] = d.slots[p[1]][i]
  BY <1>2, WindowSlots
<1>4. CASE n <= Slots
  <2>1. s[1] = p[1] /\ s[2] = n
    BY <1>1, <1>4 DEF SlotAt
  <2>2. \A i \in p[2] .. n - 1 : i \in 1 .. Slots
    BY <1>2, <1>4
  <2> QED
    BY <1>1, <1>2, <1>3, <2>1, <2>2 DEF s
<1>5. CASE ~(n <= Slots)
  <2>1. s[1] = d.fat[p[1]] /\ s[2] = n - Slots
    BY <1>1, <1>5 DEF SlotAt
  <2>2. ASSUME NEW i \in p[2] .. Slots PROVE d.slots[p[1]][i].k = "long"
    <3>1. i \in 1 .. Slots /\ i \in p[2] .. n - 1
      BY <1>2, <1>5
    <3> QED
      BY <1>1, <1>3, <3>1
  <2>3. ASSUME NEW i \in 1 .. s[2] - 1 PROVE d.slots[s[1]][i].k = "long"
    <3>1. Slots + i \in Slots + 1 .. 2 * Slots /\ (Slots + i) - Slots = i /\ Slots + i \in p[2] .. n - 1
      BY <1>2, <1>5, <2>1
    <3>2. w[Slots + i] = d.slots[d.fat[p[1]]][i]
      BY <1>2, <2>1, <3>1, WindowSlots
    <3> QED
      BY <1>1, <2>1, <3>1, <3>2
  <2> QED
    BY <2>1, <2>2, <2>3 DEF s
<1> QED
  BY <1>4, <1>5

\* Entries with the same short slot are the same entry.
LEMMA StartsApart ==
    ASSUME NEW d, IsDisk(d), Consistent(d), NEW p \in Places, NEW q \in Places, Starts(d, p), Starts(d, q),
           ShortAt(d, p) \in Places, ShortAt(d, q) = ShortAt(d, p)
    PROVE  p = q
<1> DEFINE s == ShortAt(d, p)
           Same(x) == /\ s[1] = x[1] /\ s[2] >= x[2]
                      /\ \A i \in x[2] .. s[2] - 1 : d.slots[x[1]][i].k = "long"
           Over(x) == /\ s[1] = d.fat[x[1]]
                      /\ \A i \in x[2] .. Slots : d.slots[x[1]][i].k = "long"
                      /\ \A i \in 1 .. s[2] - 1 : d.slots[s[1]][i].k = "long"
<1>1. (Same(p) \/ Over(p)) /\ (Same(q) \/ Over(q))
  BY ShortBehindLong
<1>2. /\ Slots \in Nat /\ Slots >= 2 /\ s[1] \in Clusters /\ s[2] \in 1 .. Slots
      /\ p = <<p[1], p[2]>> /\ p[1] \in Clusters /\ p[2] \in 1 .. Slots
      /\ q = <<q[1], q[2]>> /\ q[1] \in Clusters /\ q[2] \in 1 .. Slots
  BY PlacesAre, GeometryAssumption
<1> HIDE DEF s
<1>3. \A a, b \in Clusters : d.fat[a] = d.fat[b] /\ d.fat[a] \in Clusters => a = b
  BY ClustersAre DEF Consistent
<1>4. \A x \in {p, q}, a \in Clusters : IsHead(d, x[1]) => d.fat[a] # x[1]
  BY ClustersAre DEF IsHead
\* No entry begins between another's first slot and its short one.
<1>5. ASSUME NEW x \in {p, q}, NEW y \in {p, q}, x[1] = y[1], Starts(d, y),
             \A i \in x[2] .. y[2] - 1 : d.slots[x[1]][i].k = "long"
      PROVE  ~(x[2] < y[2])
  <2> SUFFICES ASSUME x[2] < y[2] PROVE FALSE
    OBVIOUS
  <2>1. y[2] # 1 /\ y[2] - 1 \in x[2] .. y[2] - 1
    BY <1>2
  <2> QED
    BY <1>5, <2>1 DEF Starts
<1>6. ASSUME NEW x \in {p, q}, NEW y \in {p, q}, x[1] = y[1], x[2] < y[2], Same(x) \/ Over(x), Same(y) \/ Over(y),
             Starts(d, y), Same(x) => Same(y)
      PROVE  FALSE
  <2>1. \A i \in x[2] .. y[2] - 1 : d.slots[x[1]][i].k = "long"
    <3>1. CASE Same(x)
      <4>1. s[2] >= y[2] /\ x[2] \in 1 .. Slots /\ y[2] \in 1 .. Slots /\ s[2] \in 1 .. Slots
        BY <1>2, <1>6, <3>1
      <4>2. \A i \in x[2] .. y[2] - 1 : i \in x[2] .. s[2] - 1
        BY <4>1
      <4> QED
        BY <3>1, <4>2
    <3>2. CASE Over(x)
      <4>1. x[2] \in 1 .. Slots /\ y[2] \in 1 .. Slots /\ Slots \in Nat
        BY <1>2
      <4>2. \A i \in x[2] .. y[2] - 1 : i \in x[2] .. Slots
        BY <4>1
      <4> QED
        BY <3>2, <4>2
    <3> QED
      BY <1>6, <3>1, <3>2
  <2> QED
    BY <1>5, <1>6, <2>1
<1>7. ASSUME NEW x \in {p, q}, NEW y \in {p, q}, Starts(d, x), Same(x), Over(y) PROVE FALSE
  <2>1. x[1] = d.fat[y[1]] /\ x[1] \in Clusters /\ y[1] \in Clusters
    BY <1>2, <1>7
  <2>2. ~IsHead(d, x[1])
    BY <1>4, <2>1
  <2>3. CASE x[2] = 1 /\ \E a \in Clusters : d.fat[a] = x[1] /\ d.slots[a][Slots].k # "long"
    <3>1. d.slots[y[1]][Slots].k # "long"
      BY <1>3, <2>1, <2>3
    <3>2. Slots \in y[2] .. Slots
      BY <1>2
    <3> QED
      BY <1>7, <3>1, <3>2
  <2>4. CASE x[2] \in 2 .. Slots /\ d.slots[x[1]][x[2] - 1].k # "long"
    <3>1. x[2] - 1 \in 1 .. s[2] - 1
      BY <1>2, <1>7, <2>4
    <3> QED
      BY <1>7, <2>4, <3>1
  <2> QED
    BY <1>7, <2>2, <2>3, <2>4 DEF Starts
<1>8. p[1] = q[1] /\ (Same(p) <=> Same(q))
  <2>1. CASE Same(p) /\ Same(q)
    BY <2>1
  <2>2. CASE Over(p) /\ Over(q)
    <3>1. p[1] = q[1]
      BY <1>2, <1>3, <2>2
    <3>2. ~Same(p) /\ ~Same(q)
      BY <1>7, <2>2
    <3> QED
      BY <3>1, <3>2
  <2> QED
    BY <1>1, <1>7, <2>1, <2>2
<1> HIDE DEF Same, Over
<1>9. ~(p[2] < q[2]) /\ ~(q[2] < p[2])
  BY <1>1, <1>6, <1>8
<1>10. p[2] = q[2]
  BY <1>2, <1>9
<1> QED
  BY <1>2, <1>8, <1>10

-----------------------------------------------------------------------------
(* The entries of the first drive and their chains. *)

\* A place where the entry of a file or directory begins.
Begins(d, p) == p \in Places /\ ~Hidden(Entry(d, p)) /\ Starts(d, p)

LEMMA DirectoryBegins ==
    ASSUME NEW d, IsDisk(d), NEW c, IsHead(d, c), NEW p \in InDirectory(d, c)
    PROVE  Begins(d, p)
<1> DEFINE o == <<c, 1>>
           l == Listing(d, o)
<1>1. o \in Places /\ o[1] = c /\ o[2] = 1
  BY GeometryAssumption DEF IsHead, Places
<1>2. p \in ToSet(l) /\ p \in Places /\ ~Hidden(Entry(d, p))
  BY DEF InDirectory
<1> HIDE DEF o
<1>3. Lists(d, l, o)
  BY <1>1, ListingLists, SpotsAre
<1> HIDE DEF l
<1>4. PICK i \in 1 .. Len(l) : p = l[i]
  <2>1. DOMAIN l = 1 .. Len(l)
    BY <1>3 DEF Lists, IsList
  <2> QED
    BY <1>2, <2>1 DEF ToSet
<1>5. CASE i = 1
  <2>1. p = o
    BY <1>3, <1>4, <1>5 DEF Lists
  <2> QED
    BY <1>1, <1>2, <2>1 DEF Begins, Starts
<1>6. CASE i # 1
  <2>1. i \in 2 .. Len(l)
    BY <1>6
  <2>2. l[i - 1] \in Places /\ p = NextEntry(d, l[i - 1])
    BY <1>3, <1>4, <2>1 DEF Lists
  <2> QED
    BY <1>2, <2>2, NextStarts DEF Begins
<1> QED
  BY <1>5, <1>6

\* An entry with a first cluster is what leads to it.
LEMMA ShortOwns ==
    ASSUME NEW d, IsDisk(d), Consistent(d), NEW p, Begins(d, p), Entry(d, p).first # 0
    PROVE  /\ ShortAt(d, p) \in Owners(d) /\ First(d, ShortAt(d, p)) = Entry(d, p).first
           /\ IsHead(d, Entry(d, p).first) /\ Entry(d, p).first # Root
<1> DEFINE s == ShortAt(d, p)
           e == Entry(d, p)
<1>1. p \in Places /\ ~Hidden(e)
  BY DEF Begins
<1>2. s \in Places
  <2>1. PICK n \in p[2] .. 2 * Slots + 1 :
            /\ s = SlotAt(d, p[1], n)
            /\ IF n <= 2 * Slots THEN e = Window(d, p[1])[n] ELSE e = Junk
    BY <1>1, EntryIsThere
  <2>2. Slots \in Nat /\ p[1] \in Clusters /\ p[2] \in 1 .. Slots
    BY <1>1, PlacesAre, GeometryAssumption
  <2>3. e # Junk
    BY DEF Junk, Zero
  <2> HIDE DEF e
  <2>4. CASE n <= Slots
    <3>1. n \in 1 .. Slots
      BY <2>2, <2>4
    <3> QED
      BY <2>1, <2>2, <2>4, <3>1 DEF SlotAt, Places
  <2>5. CASE ~(n <= Slots)
    <3>1. n <= 2 * Slots /\ e = Window(d, p[1])[n]
      BY <2>1, <2>3
    <3>2. n \in Slots + 1 .. 2 * Slots /\ n - Slots \in 1 .. Slots
      BY <2>2, <2>5, <3>1
    <3>3. d.fat[p[1]] \in Clusters
      BY <2>2, <2>3, <3>1, <3>2, WindowSlots
    <3> QED
      BY <2>1, <2>5, <3>2, <3>3 DEF SlotAt, Places
  <2> QED
    BY <2>4, <2>5
<1>3. d.slots[s[1]][s[2]] = e /\ e.k # "long"
  BY <1>1, <1>2, ShortSlot
<1> HIDE DEF s, e
<1>4. s \in Owners(d) /\ First(d, s) = e.first
  BY <1>1, <1>2, <1>3 DEF Owners, First, e
<1>5. IsHead(d, e.first) /\ e.first # Root
  BY <1>4 DEF Consistent
<1> QED
  BY <1>4, <1>5 DEF s, e

LEMMA TreeBegins ==
    ASSUME NEW d, IsDisk(d), Consistent(d), NEW p \in Tree(d, Root)
    PROVE  Begins(d, p)
<1>1. PICK f : /\ f[0] = [all |-> {}, new |-> InDirectory(d, Root)]
               /\ \A i \in 1 .. LastCluster : f[i] = Deeper(d, f[i - 1])
               /\ Tree(d, Root) = f[LastCluster].all
  BY TreeRuns
<1> DEFINE T == {i \in 0 .. LastCluster : \A q \in f[i].all \union f[i].new : Begins(d, q)}
<1>2. LastCluster \in Nat
  BY GeometryAssumption
<1>3. 0 \in T
  <2>1. IsHead(d, Root)
    BY DEF Consistent
  <2>2. f[0].all = {} /\ f[0].new = InDirectory(d, Root)
    BY <1>1
  <2> QED
    BY <1>2, <2>1, <2>2, DirectoryBegins
<1>4. ASSUME NEW i \in 1 .. LastCluster, i - 1 \in T PROVE i \in T
  <2> DEFINE t == f[i - 1]
  <2>1. \A q \in t.all \union t.new : Begins(d, q)
    BY <1>4
  <2>2. f[i] = Deeper(d, t)
    BY <1>1
  <2> HIDE DEF t
  <2>3. /\ f[i].all = t.all \union t.new
        /\ f[i].new = UNION {InDirectory(d, Entry(d, q).first) : q \in {q \in t.new : IsDir(d, q)}}
    BY <2>2 DEF Deeper
  <2>4. ASSUME NEW r \in f[i].new PROVE Begins(d, r)
    <3>1. PICK q \in t.new : IsDir(d, q) /\ r \in InDirectory(d, Entry(d, q).first)
      BY <2>3
    <3>2. Entry(d, q).first \in Clusters /\ Entry(d, q).first # 0
      BY <3>1, ClustersAre DEF IsDir
    <3>3. IsHead(d, Entry(d, q).first)
      BY <2>1, <3>2, ShortOwns
    <3> QED
      BY <3>1, <3>3, DirectoryBegins
  <2> QED
    BY <2>1, <2>3, <2>4
<1> HIDE DEF T
<1>5. LastCluster \in T
  BY <1>2, <1>3, <1>4, StepByStep
<1> QED
  BY <1>1, <1>5 DEF T

\* The chain from a head, as the set of its clusters, lies apart from every other's.
LEMMA ChainSetsApart ==
    ASSUME NEW d, IsDisk(d), Consistent(d), NEW c, IsHead(d, c), NEW e, IsHead(d, e), c # e
    PROVE  ToSet(ChainOf(d, c)) \cap ToSet(ChainOf(d, e)) = {}
<1>1. /\ DOMAIN ChainOf(d, c) = 1 .. Len(ChainOf(d, c))
      /\ DOMAIN ChainOf(d, e) = 1 .. Len(ChainOf(d, e))
  BY HeadChains DEF Chains, IsList
<1> QED
  BY <1>1, ChainsMeetNowhere DEF ToSet

LEMMA NoChain ==
    ASSUME NEW d, IsDisk(d)
    PROVE  ToSet(ChainOf(d, 0)) = {}
<1>1. Chains(d, ChainOf(d, 0), 0, LastCluster) /\ 0 \notin Clusters
  BY ChainOfChains, ClustersAre
<1>2. DOMAIN ChainOf(d, 0) = {}
  BY <1>1 DEF Chains, IsList
<1> QED
  BY <1>2 DEF ToSet

LEMMA ConsistentChains ==
    ASSUME IsDisk(disk), damage = "none" => Consistent(disk)
    PROVE  ChainsApart
<1> SUFFICES ASSUME damage = "none" PROVE ChainsApart
  BY DEF ChainsApart
<1> DEFINE T == Tree(disk, Root)
           F(p) == Entry(disk, p).first
<1>1. Consistent(disk) /\ IsHead(disk, Root)
  BY DEF Consistent
<1>2. ASSUME NEW p \in T PROVE Begins(disk, p) /\ (F(p) # 0 => IsHead(disk, F(p)) /\ F(p) # Root)
  BY <1>1, TreeBegins, ShortOwns
<1>3. \A p : Used(disk, p) = ToSet(ChainOf(disk, F(p)))
  BY DEF Used
<1> HIDE DEF T, F
<1>4. ASSUME NEW p \in T PROVE Ends0(disk, F(p))
  BY <1>1, <1>2, ChainsEnd DEF Ends0, Last
<1>5. ASSUME NEW p \in T PROVE Used(disk, p) \cap ToSet(ChainOf(disk, Root)) = {}
  <2>1. CASE F(p) = 0
    BY <1>3, <2>1, NoChain
  <2>2. CASE F(p) # 0
    BY <1>1, <1>2, <1>3, <2>2, ChainSetsApart
  <2> QED
    BY <2>1, <2>2
<1>6. ASSUME NEW p \in T, NEW q \in T, p # q PROVE Used(disk, p) \cap Used(disk, q) = {}
  <2>1. CASE F(p) = 0
    BY <1>3, <2>1, NoChain
  <2>2. CASE F(q) = 0
    BY <1>3, <2>2, NoChain
  <2>3. CASE F(p) # 0 /\ F(q) # 0
    <3>1. /\ ShortAt(disk, p) \in Owners(disk) /\ First(disk, ShortAt(disk, p)) = F(p)
          /\ ShortAt(disk, q) \in Owners(disk) /\ First(disk, ShortAt(disk, q)) = F(q)
      BY <1>1, <1>2, <2>3, ShortOwns DEF F
    <3>2. ShortAt(disk, p) \in Places /\ ShortAt(disk, p) # ShortAt(disk, q)
      BY <1>1, <1>2, <1>6, <3>1, StartsApart DEF Begins, Owners
    <3>3. F(p) # F(q)
      BY <1>1, <3>1, <3>2 DEF Consistent
    <3> QED
      BY <1>1, <1>2, <1>3, <2>3, <3>3, ChainSetsApart
  <2> QED
    BY <2>1, <2>2, <2>3
<1> QED
  BY <1>4, <1>5, <1>6 DEF ChainsApart, T, F

-----------------------------------------------------------------------------
(* The theorems. *)

\* In every state there is: the strengthening that is inductive.
LEMMA StatesKept == Spec => []StateInv
BY InvInit, NextInv, PTL DEF Spec

\* Whatever is opened, created, read, written, switched off and cut off by a crash, on a
\* disk of any size and with any number of drives: every entry of the first drive's table is a
\* cluster of the disk, free or the end of a chain (fat_write and fat_create link nothing else),
\* its clusters have as many slots and units as before, every descriptor's node and both nodes
\* of every device_node are there, and a call ends well or in one of the known damages.
THEOREM FilesTyped == Spec => []TypeOK
<1>1. StateInv => TypeOK
  <2> SUFFICES ASSUME StateInv PROVE TypeOK
    OBVIOUS
  <2>1. \A i \in DOMAIN fds : fds[i].id \in DOMAIN nodes
    BY DEF StateInv, FdInv
  <2>2. \A i \in DOMAIN devs : {devs[i].id, devs[i].copy} \subseteq DOMAIN nodes
    BY DEF StateInv, Tables, Shared
  <2>3. boots + calls \in 0 .. MaxSteps
    BY FilesAssumption DEF StateInv
  <2> QED
    BY <2>1, <2>2, <2>3 DEF StateInv, TypeOK
<1> QED
  BY <1>1, StatesKept, PTL

\* A descriptor whose path passed no mount point keeps its file, whatever other calls walk,
\* touch, read and write: what fs_path2node and fs_path_touch write to and free is the walk's
\* own node or one that device_nodes leads to.
THEOREM DescriptorsKept == Spec => DescriptorsKeepTheirFile
<1>1. StateInv /\ [Next]_vars => [KeepsFiles]_vars
  BY NextInv
<1> QED
  BY <1>1, StatesKept, PTL DEF Spec, DescriptorsKeepTheirFile, KeepsFiles

\* On a disk of any size that is consistent when LemonOS first starts, whatever is opened, created,
\* written and read, and whenever the power goes off: as long as no call met a damage, the chains
\* of all entries end, lie apart from each other and from the root's, and hold no free cluster.
\* fat_alloc_cluster's cluster is in the table before an entry leads to it, and a chain grows at
\* its end only, by such a cluster (fat_write, fat_create, fat_create_dirent).
THEOREM ChainsLieApart == Spec => []ChainsApart
<1>1. StateInv => ChainsApart
  BY ConsistentChains DEF StateInv
<1> QED
  BY <1>1, StatesKept, PTL

-----------------------------------------------------------------------------
(* Writes within a chain. *)

LEMMA Division ==
    ASSUME NEW a \in Nat, NEW s \in Nat \ {0}
    PROVE  a \div s \in Nat /\ a % s \in 0 .. s - 1 /\ a = s * (a \div s) + (a % s)
<1>1. a \div s \in Nat /\ a % s \in 0 .. s - 1 /\ a = (a \div s) * s + (a % s)
  BY SMT
<1>2. (a \div s) * s = s * (a \div s)
  BY SMT
<1> QED
  BY <1>1, <1>2

LEMMA Multiples ==
    ASSUME NEW s \in Nat \ {0}, NEW x \in Nat, NEW y \in Nat, x < y
    PROVE  s * x + s <= s * y
<1>1. PICK z \in Nat : y = x + 1 + z
  <2>1. y - x - 1 \in Nat /\ y = x + 1 + (y - x - 1)
    OBVIOUS
  <2> QED
    BY <2>1
<1>2. s * y = s * x + s + s * z /\ s * z >= 0 /\ s * x \in Nat /\ s * z \in Nat
  BY <1>1, SMT
<1> QED
  BY <1>2

LEMMA Quotient ==
    ASSUME NEW s \in Nat \ {0}, NEW l \in Nat, NEW k \in 0 .. s - 1, NEW a, a = s * l + k
    PROVE  a \div s = l /\ a % s = k
<1> DEFINE q == a \div s
           r == a % s
<1>1. a \in Nat
  BY SMT
<1>2. q \in Nat /\ r \in 0 .. s - 1 /\ a = s * q + r
  BY <1>1, Division
<1> HIDE DEF q, r
<1>6. s * q \in Nat /\ s * l \in Nat
  BY <1>2, SMT
<1>3. ~(q < l)
  <2> SUFFICES ASSUME q < l PROVE FALSE
    OBVIOUS
  <2>1. s * q + s <= s * l
    BY <1>2, Multiples
  <2> QED
    BY <1>2, <1>6, <2>1
<1>4. ~(l < q)
  <2> SUFFICES ASSUME l < q PROVE FALSE
    OBVIOUS
  <2>1. s * l + s <= s * q
    BY <1>2, Multiples
  <2> QED
    BY <1>2, <1>6, <2>1
<1>5. q = l
  BY <1>2, <1>3, <1>4
<1> QED
  BY <1>2, <1>5 DEF q, r

\* One cluster further.
LEMMA OneLess ==
    ASSUME NEW a \in Nat, a >= Units
    PROVE  /\ a - Units \in Nat /\ a \div Units \in Nat /\ a \div Units >= 1
           /\ (a - Units) \div Units = a \div Units - 1 /\ (a - Units) % Units = a % Units
<1> DEFINE q == a \div Units
           r == a % Units
<1>1. Units \in Nat \ {0}
  BY GeometryAssumption
<1>2. q \in Nat /\ r \in 0 .. Units - 1 /\ a = Units * q + r
  BY <1>1, Division
<1> HIDE DEF q, r
<1>3. q >= 1
  <2> SUFFICES ASSUME q = 0 PROVE FALSE
    BY <1>2
  <2>1. Units * q = 0
    BY <1>1
  <2> QED
    BY <1>1, <1>2, <2>1
<1>4. q - 1 \in Nat /\ a - Units = Units * (q - 1) + r
  <2>1. Units * (q - 1) = Units * q - Units
    BY <1>1, <1>2, SMT
  <2> HIDE DEF r
  <2> QED
    BY <1>1, <1>2, <1>3, <2>1
<1>5. (a - Units) \div Units = q - 1 /\ (a - Units) % Units = r
  <2> DEFINE b == a - Units
             p == q - 1
  <2>1. p \in Nat /\ b = Units * p + r
    BY <1>4
  <2> HIDE DEF b, p
  <2>2. b \div Units = p /\ b % Units = r
    BY <1>1, <1>2, <2>1, Quotient
  <2> QED
    BY <2>2 DEF b, p
<1>6. a - Units \in Nat
  BY <1>1
<1> QED
  BY <1>2, <1>3, <1>5, <1>6 DEF q, r

LEMMA NoneLess ==
    ASSUME NEW a \in Nat, a < Units
    PROVE  a \div Units = 0 /\ a % Units = a
<1>1. Units \in Nat \ {0} /\ a \in 0 .. Units - 1 /\ a = Units * 0 + a
  BY GeometryAssumption
<1> QED
  BY <1>1, Quotient

LEMMA LoadReads ==
    ASSUME NEW h, IsSession(h), h.cache = h.d.fat, NEW c
    PROVE  LET l == Load(h, c)
           IN  IsSession(l) /\ l.d = h.d /\ l.cache = h.d.fat /\ l.bad = h.bad
BY DEF Load, IsSession, Fields

\* The chain from a head, cluster for cluster.
LEMMA AlongChain ==
    ASSUME NEW d, IsDisk(d), Consistent(d), NEW c, IsHead(d, c)
    PROVE  LET l == ChainOf(d, c)
           IN  /\ Len(l) \in 1 .. LastCluster /\ l[1] = c
               /\ \A i \in 1 .. Len(l) : l[i] \in Clusters
               /\ \A i \in 1 .. Len(l) - 1 : d.fat[l[i]] = l[i + 1]
               /\ d.fat[l[Len(l)]] = EOC
<1> DEFINE l == ChainOf(d, c)
<1>1. Chains(d, l, c, LastCluster) /\ Len(l) \in 1 .. LastCluster /\ l[1] = c
  BY HeadChains
<1>2. d.fat[l[Len(l)]] = EOC
  BY ChainsEnd
<1> HIDE DEF l
<1>3. ASSUME NEW i \in 1 .. Len(l) - 1 PROVE d.fat[l[i]] = l[i + 1]
  <2>1. i + 1 \in 2 .. Len(l) /\ (i + 1) - 1 = i
    BY <1>1
  <2>2. l[i + 1] = d.fat[l[(i + 1) - 1]]
    BY <1>1, <2>1 DEF Chains
  <2> QED
    BY <2>1, <2>2
<1> QED
  BY <1>1, <1>2, <1>3 DEF Chains, l

\* The seek ends in the cluster that holds the offset.
LEMMA SeekWithin ==
    ASSUME NEW h, IsSession(h), h.bad = "none", h.cache = h.d.fat, Consistent(h.d),
           NEW c, IsHead(h.d, c), NEW off \in Nat, off \div Units < Len(ChainOf(h.d, c))
    PROVE  LET s == Seek(h, c, off)
           IN  /\ IsSession(s.h) /\ s.h.bad = "none" /\ s.h.d = h.d /\ s.h.cache = h.d.fat
               /\ s.off = off % Units /\ s.c = ChainOf(h.d, c)[off \div Units + 1]
<1> DEFINE l == ChainOf(h.d, c)
           q == off \div Units
<1>1. LastCluster \in Nat /\ Units \in Nat /\ Units # 0
  BY GeometryAssumption
<1>2. PICK f : /\ f[0] = [h |-> h, c |-> c, off |-> off]
               /\ \A i \in 1 .. LastCluster : f[i] = SeekTurn(f[i - 1])
               /\ Seek(h, c, off) = f[LastCluster]
  BY SeekRuns
<1>3. /\ Len(l) \in 1 .. LastCluster /\ l[1] = c
      /\ \A i \in 1 .. Len(l) : l[i] \in Clusters
      /\ \A i \in 1 .. Len(l) - 1 : h.d.fat[l[i]] = l[i + 1]
  BY AlongChain DEF IsSession
<1>4. q \in Nat /\ q < Len(l) /\ off % Units \in Nat
  BY <1>1, Division
<1> HIDE DEF l
<1> DEFINE Good(g) == IsSession(g) /\ g.bad = "none" /\ g.d = h.d /\ g.cache = h.d.fat
           IsAt(s, i, j) == /\ s.c = l[j + 1] /\ s.off \div Units = q - j /\ s.off % Units = off % Units
                            /\ j >= i \/ s.off < Units
           IsTurn(s, i) == /\ Good(s.h) /\ s.off \in Nat /\ \E j \in 0 .. q : IsAt(s, i, j)
           T == {i \in 0 .. LastCluster : IsTurn(f[i], i)}
<1>5. 0 \in T
  <2>1. Good(h)
    OBVIOUS
  <2>2. 0 \in 0 .. q /\ q - 0 = q
    BY <1>4
  <2> DEFINE x == [h |-> h, c |-> c, off |-> off]
  <2>3. x.h = h /\ x.c = c /\ x.off = off
    OBVIOUS
  <2> HIDE DEF x, Good
  <2>4. IsAt(x, 0, 0)
    BY <1>3, <2>2, <2>3
  <2>5. IsTurn(x, 0)
    BY <2>1, <2>2, <2>3, <2>4
  <2> QED
    BY <1>1, <1>2, <2>5 DEF x
<1>6. ASSUME NEW i \in 1 .. LastCluster, i - 1 \in T PROVE i \in T
  <2> DEFINE s == f[i - 1]
             r == Load(s.h, s.c)
             on == [h |-> r, c |-> r.cache[s.c], off |-> s.off - Units]
  <2>1. IsTurn(s, i - 1) /\ f[i] = SeekTurn(s)
    BY <1>2, <1>6
  <2> HIDE DEF s
  <2>2. PICK j \in 0 .. q : IsAt(s, i - 1, j)
    BY <2>1
  <2>3. Good(r)
    BY <2>1, LoadReads
  <2> HIDE DEF r
  <2>4. CASE s.off < Units
    <3>1. SeekTurn(s) = s
      BY <2>4 DEF SeekTurn
    <3>2. IsAt(s, i, j)
      BY <2>2, <2>4
    <3> HIDE DEF Good, IsAt
    <3> QED
      BY <2>1, <3>1, <3>2
  <2>5. CASE ~(s.off < Units)
    <3>0. s.off \in Nat /\ Good(s.h)
      BY <2>1
    <3>1. /\ s.off - Units \in Nat /\ s.off \div Units \in Nat /\ s.off \div Units >= 1
          /\ (s.off - Units) \div Units = s.off \div Units - 1 /\ (s.off - Units) % Units = s.off % Units
      <4>1. s.off \in Nat /\ s.off >= Units
        BY <1>1, <2>5, <3>0
      <4> QED
        BY ONLY <4>1, OneLess
    <3>2. s.c = l[j + 1] /\ s.off \div Units = q - j /\ s.off % Units = off % Units
      BY <2>2
    <3>3. j + 1 \in 0 .. q /\ j + 1 \in 1 .. Len(l) - 1 /\ j + 2 \in 1 .. Len(l)
      BY <1>3, <1>4, <3>1, <3>2
    <3>4. r.cache[s.c] = l[(j + 1) + 1] /\ l[(j + 1) + 1] \in Clusters
      <4>1. r.cache = h.d.fat /\ (j + 1) + 1 = j + 2
        BY <2>3
      <4>2. h.d.fat[l[j + 1]] = l[(j + 1) + 1]
        BY <1>3, <3>3
      <4> QED
        BY <1>3, <3>2, <3>3, <4>1, <4>2
    <3>5. SeekTurn(s) = on
      BY <2>5, <3>0, <3>4 DEF SeekTurn, r
    <3>6. on.h = r /\ on.c = l[(j + 1) + 1] /\ on.off = s.off - Units
      BY <3>4
    <3> HIDE DEF on
    <3>7. IsAt(on, i, j + 1)
      <4>1. on.off \div Units = q - (j + 1)
        BY <1>4, <3>1, <3>2, <3>6
      <4>2. j + 1 >= i \/ on.off < Units
        BY <2>2, <2>5
      <4> QED
        BY <3>1, <3>2, <3>6, <4>1, <4>2
    <3> HIDE DEF Good, IsAt
    <3>8. IsTurn(on, i)
      BY <2>3, <3>1, <3>3, <3>6, <3>7
    <3> QED
      BY <2>1, <3>5, <3>8
  <2> QED
    BY <2>4, <2>5
<1> HIDE DEF T, IsTurn, q
<1>7. LastCluster \in T
  <2>1. LastCluster \in Nat /\ \A i \in 1 .. LastCluster : i - 1 \in T => i \in T
    BY <1>1, <1>6
  <2>2. \A i \in 0 .. LastCluster : i \in T
    BY ONLY <2>1, <1>5, StepByStep
  <2> QED
    BY <1>1, <2>2
<1> USE DEF IsTurn
<1> DEFINE s == Seek(h, c, off)
<1>8. IsTurn(s, LastCluster)
  BY <1>2, <1>7 DEF T
<1> HIDE DEF s
<1>9. PICK j \in 0 .. q : IsAt(s, LastCluster, j)
  BY <1>8
<1>10. s.off < Units
  <2>1. j < LastCluster
    BY <1>1, <1>3, <1>4
  <2> QED
    BY <1>1, <1>9, <2>1
<1>11. s.off \div Units = 0 /\ s.off % Units = s.off
  BY <1>8, <1>10, NoneLess
<1>12. j = q
  BY <1>4, <1>9, <1>11
<1> QED
  BY <1>8, <1>9, <1>11, <1>12 DEF s, l, q

\* How many clusters further the data takes the writer from an offset in a cluster.
Further(r, n) == IF r # 0 /\ r + n < Units THEN 1 ELSE (r + n) \div Units

LEMMA Quotients ==
    ASSUME NEW q \in Nat, NEW b \in Nat, NEW a, a = Units * q + b
    PROVE  a \in Nat /\ a \div Units = q + (b \div Units)
<1> DEFINE x == b \div Units
           y == b % Units
<1>1. Units \in Nat \ {0}
  BY GeometryAssumption
<1>2. x \in Nat /\ y \in 0 .. Units - 1 /\ b = Units * x + y
  BY <1>1, Division
<1> HIDE DEF x, y
<1>3. q + x \in Nat /\ Units * (q + x) = Units * q + Units * x /\ Units * q \in Nat /\ Units * x \in Nat
  BY <1>1, <1>2, SMT
<1> DEFINE z == q + x
<1>4. z \in Nat /\ a = Units * z + y
  BY <1>1, <1>2, <1>3
<1> HIDE DEF z
<1>5. a \div Units = z
  BY <1>1, <1>2, <1>4, Quotient
<1>6. a \in Nat
  BY <1>1, <1>3
<1> QED
  BY <1>5, <1>6 DEF x, z

LEMMA ReachIsFurther ==
    ASSUME NEW off \in Nat, NEW n \in Nat
    PROVE  /\ Reach(off, n) = (off \div Units) + 1 + Further(off % Units, n)
           /\ off \div Units \in Nat /\ off % Units \in 0 .. Units - 1 /\ Further(off % Units, n) \in Nat
<1> DEFINE q == off \div Units
           r == off % Units
<1>1. Units \in Nat \ {0}
  BY GeometryAssumption
<1>2. q \in Nat /\ r \in 0 .. Units - 1 /\ off = Units * q + r
  BY <1>1, Division
<1>3. Reach(off, n) = IF r # 0 /\ r + n < Units THEN q + 2 ELSE ((off + n) \div Units) + 1
  BY DEF Reach
<1> HIDE DEF q, r
<1> DEFINE b == r + n
           a == off + n
<1>4. b \in Nat /\ a = Units * q + b
  <2>1. Units * q \in Int
    BY <1>1, <1>2, SMT
  <2> QED
    BY <1>1, <1>2, <2>1
<1> HIDE DEF b, a
<1>5. a \div Units = q + (b \div Units)
  BY <1>2, <1>4, Quotients
<1>6. b \div Units \in Nat
  BY <1>1, <1>4, Division
<1> HIDE DEF Reach
<1>7. Reach(off, n) = q + 1 + Further(r, n) /\ Further(r, n) \in Nat
  <2> DEFINE x == b \div Units
  <2>1. Reach(off, n) = IF r # 0 /\ b < Units THEN q + 2 ELSE (q + x) + 1
    BY <1>3, <1>5 DEF a, b
  <2>2. Further(r, n) = IF r # 0 /\ b < Units THEN 1 ELSE x
    BY DEF Further, b
  <2>3. x \in Nat
    BY <1>6
  <2> HIDE DEF x
  <2> QED
    BY <1>2, <2>1, <2>2, <2>3
<1> QED
  BY <1>2, <1>7 DEF q, r

\* What is left after a turn of fat_write's loop.
LEMMA OneFurther ==
    ASSUME NEW r \in 0 .. Units - 1, NEW n \in Nat, ~(r = 0 /\ n < Units)
    PROVE  LET fit == Lesser(n, Units - r)
           IN  fit \in 0 .. n /\ n - fit \in Nat /\ Further(0, n - fit) \in Nat /\ Further(r, n) = Further(0, n - fit) + 1
<1> DEFINE fit == Lesser(n, Units - r)
<1>1. Units \in Nat \ {0}
  BY GeometryAssumption
<1>2. CASE r + n < Units
  <2>1. fit = n /\ r # 0
    BY <1>1, <1>2 DEF Lesser
  <2>2. 0 \div Units = 0
    BY <1>1, NoneLess
  <2>3. Further(r, n) = 1 /\ Further(0, 0) = 0
    BY <1>2, <2>1, <2>2 DEF Further
  <2>4. n - fit = 0 /\ fit \in 0 .. n
    BY <2>1
  <2> HIDE DEF fit, Further
  <2> QED
    BY <2>3, <2>4 DEF fit
<1>3. CASE ~(r + n < Units)
  <2> DEFINE b == r + n
  <2>1. b \in Nat /\ b >= Units
    BY <1>1, <1>3
  <2>2. fit = Units - r /\ n - fit = b - Units /\ fit \in 0 .. n
    BY <1>1, <1>3 DEF Lesser
  <2>3. Further(r, n) = b \div Units
    BY <1>3 DEF Further
  <2> HIDE DEF b, fit
  <2>4. /\ b - Units \in Nat /\ b \div Units \in Nat /\ b \div Units >= 1
        /\ (b - Units) \div Units = b \div Units - 1
    BY <2>1, OneLess
  <2>5. Further(0, n - fit) = (b - Units) \div Units
    <3>1. 0 + (b - Units) = b - Units
      BY <2>4
    <3> QED
      BY <2>2, <3>1 DEF Further
  <2> DEFINE x == b \div Units
             y == (b - Units) \div Units
  <2>6. x \in Nat /\ x >= 1 /\ y = x - 1
    BY <2>4
  <2>7. Further(r, n) = x /\ Further(0, n - fit) = y
    BY <2>3, <2>5
  <2> HIDE DEF x, y
  <2>8. Further(0, n - fit) \in Nat /\ Further(r, n) = Further(0, n - fit) + 1
    BY <2>6, <2>7
  <2> QED
    BY <2>2, <2>4, <2>8 DEF fit
<1> QED
  BY <1>2, <1>3

LEMMA PutDataKeeps ==
    ASSUME NEW h, IsSession(h), NEW c, NEW off, NEW units
    PROVE  LET g == PutData(h, c, off, units)
           IN  IsSession(g) /\ g.d.fat = h.d.fat /\ g.cache = h.cache /\ g.bad = h.bad
<1> DEFINE d == [h.d EXCEPT !.data[c] = [i \in 1 .. Units |->
                    IF i \in off + 1 .. off + Len(units) THEN units[i - off] ELSE @[i]]]
<1>1. IsDisk(d) /\ d.fat = h.d.fat
  BY DEF IsSession, IsDisk
<1>2. IsSession(PutData(h, c, off, units))
  BY PutDataLeads DEF Leads
<1>3. PutData(h, c, off, units) = Put(h, d)
  BY DEF PutData
<1> HIDE DEF d
<1>4. Put(h, d).d = d /\ Put(h, d).cache = h.cache /\ Put(h, d).bad = h.bad
  BY DEF Put, IsSession, Fields
<1> QED
  BY <1>1, <1>2, <1>3, <1>4

\* A session on a disk with table `fat' that has met nothing bad and read all of the table.
Reads(h, fat) == IsSession(h) /\ h.bad = "none" /\ h.d.fat = fat /\ h.cache = fat

LEMMA ReadsOn ==
    ASSUME NEW fat, NEW h, Reads(h, fat), NEW c
    PROVE  Reads(Load(h, c), fat) /\ \A off, units : Reads(PutData(h, c, off, units), fat)
<1>1. Reads(Load(h, c), fat)
  BY LoadReads DEF Reads
<1>2. ASSUME NEW off, NEW units PROVE Reads(PutData(h, c, off, units), fat)
  BY PutDataKeeps DEF Reads
<1> QED
  BY <1>1, <1>2

\* The writer has written all or is at the j-th cluster of the chain l, and what is left takes it to the last.
Toward(t, l, fat) ==
    /\ t = [y \in {"h", "c", "off", "left", "done"} |-> t[y]]
    /\ Reads(t.h, fat)
    /\ t.done \/ /\ t.off \in 0 .. Units - 1 /\ Len(t.left) \in Nat /\ t.left \in Seq(ToSet(t.left))
                 /\ \E j \in 1 .. Len(l) : t.c = l[j] /\ j + Further(t.off, Len(t.left)) = Len(l)

LEMMA RestOfList ==
    ASSUME NEW s, s \in Seq(ToSet(s)), NEW n \in 0 .. Len(s)
    PROVE  LET r == SubSeq(s, n + 1, Len(s)) IN r \in Seq(ToSet(r)) /\ Len(r) = Len(s) - n
<1> DEFINE r == SubSeq(s, n + 1, Len(s))
           S == ToSet(s)
<1>1. r \in Seq(S) /\ Len(r) = Len(s) - n
  <2> HIDE DEF S
  <2>1. s \in Seq(S) /\ Len(s) \in Nat
    BY DEF S
  <2> QED
    BY <2>1
<1> HIDE DEF r, S
<1>2. r \in Seq(ToSet(r))
  BY <1>1 DEF ToSet
<1> QED
  BY <1>1, <1>2 DEF r

LEMMA FillTurnWithin ==
    ASSUME NEW l, NEW fat, Len(l) \in 1 .. LastCluster, \A i \in 1 .. Len(l) : l[i] \in Clusters,
           \A i \in 1 .. Len(l) - 1 : fat[l[i]] = l[i + 1], fat[l[Len(l)]] = EOC,
           NEW t, Toward(t, l, fat)
    PROVE  Toward(FillTurn(t), l, fat)
<1> DEFINE put == PutData(t.h, t.c, 0, t.left)
           trim == Trim(put, t.c)
           fit == Lesser(Len(t.left), Units - t.off)
           fill == PutData(t.h, t.c, t.off, SubSeq(t.left, 1, fit))
           next == NextCluster(fill, t.c)
           rest == SubSeq(t.left, fit + 1, Len(t.left))
           on == [h |-> next.h, c |-> next.c, off |-> next.off, done |-> FALSE, left |-> rest]
           end == [t EXCEPT !.h = trim, !.done = TRUE]
<1>0. Units \in Nat \ {0}
  BY GeometryAssumption
<1>1. CASE t.done
  <2>1. FillTurn(t) = t
    BY <1>1 DEF FillTurn
  <2> QED
    BY <2>1
<1>2. CASE ~t.done
  <2>1. Reads(t.h, fat) /\ t.h.bad = "none"
    BY DEF Toward, Reads
  <2>2. t.off \in 0 .. Units - 1 /\ Len(t.left) \in Nat /\ t.left \in Seq(ToSet(t.left))
    BY <1>2 DEF Toward
  <2>3. PICK j \in 1 .. Len(l) : t.c = l[j] /\ j + Further(t.off, Len(t.left)) = Len(l)
    BY <1>2 DEF Toward
  <2>4. Reads(put, fat) /\ Reads(fill, fat)
    BY <2>1, ReadsOn
  <2>5. CASE t.off = 0 /\ Len(t.left) < Units
    <3>1. Len(t.left) \div Units = 0
      BY <2>2, <2>5, NoneLess
    <3>2. Further(t.off, Len(t.left)) = 0
      BY <2>2, <2>5, <3>1 DEF Further
    <3>3. fat[t.c] = EOC
      BY <2>3, <3>2
    <3> DEFINE m == Load(put, t.c)
    <3>4. Reads(m, fat)
      BY <2>4, ReadsOn
    <3> HIDE DEF put
    <3>5. trim = m
      <4>1. Trim(put, t.c) = IF Stale(m, t.c) THEN Bad(m, "stale")
                             ELSE IF m.cache[t.c] = EOC THEN m ELSE Bad(FreeRest(m, m.cache[t.c]), "cut")
        BY DEF Trim
      <4> HIDE DEF m
      <4>2. ~Stale(m, t.c) /\ m.cache[t.c] = EOC
        BY <3>3, <3>4 DEF Stale, Reads
      <4> QED
        BY <4>1, <4>2
    <3>6. FillTurn(t) = end
      BY <1>2, <2>1, <2>5 DEF FillTurn, put
    <3> HIDE DEF m, trim
    <3>7. end = [y \in {"h", "c", "off", "left", "done"} |-> end[y]] /\ end.h = trim /\ end.done
      BY DEF Toward
    <3> HIDE DEF end
    <3> QED
      BY <3>4, <3>5, <3>6, <3>7 DEF Toward
  <2>6. CASE ~(t.off = 0 /\ Len(t.left) < Units)
    <3>1. /\ fit \in 0 .. Len(t.left) /\ Len(t.left) - fit \in Nat /\ Further(0, Len(t.left) - fit) \in Nat
          /\ Further(t.off, Len(t.left)) = Further(0, Len(t.left) - fit) + 1
      BY <2>2, <2>6, OneFurther
    <3>2. j \in 1 .. Len(l) - 1 /\ j + 1 \in 1 .. Len(l)
      BY <2>3, <3>1
    <3>3. fat[t.c] = l[j + 1] /\ l[j + 1] \in Clusters /\ l[j + 1] # EOC
      BY <2>3, <3>2 DEF Clusters, EOC
    <3> DEFINE m == Load(fill, t.c)
    <3>4. Reads(m, fat)
      BY <2>4, ReadsOn
    <3> HIDE DEF fill
    <3>5. next = [h |-> m, c |-> l[j + 1], off |-> 0]
      <4>1. next = IF Stale(m, t.c) THEN [h |-> Bad(m, "stale"), c |-> 0, off |-> 0]
                   ELSE IF m.cache[t.c] # EOC THEN [h |-> m, c |-> m.cache[t.c], off |-> 0]
                   ELSE Extend(m, t.c, Allocated(m.d))
        BY DEF NextCluster
      <4> HIDE DEF m
      <4>2. ~Stale(m, t.c) /\ m.cache[t.c] = l[j + 1]
        BY <3>3, <3>4 DEF Stale, Reads
      <4> QED
        BY <3>3, <4>1, <4>2
    <3>6. FillTurn(t) = on
      BY <1>2, <2>1, <2>6 DEF FillTurn, fill
    <3>7. rest \in Seq(ToSet(rest)) /\ Len(rest) = Len(t.left) - fit
      BY <2>2, <3>1, RestOfList
    <3> HIDE DEF m, next, rest, fit
    <3>8. /\ on = [y \in {"h", "c", "off", "left", "done"} |-> on[y]]
          /\ on.h = m /\ on.c = l[j + 1] /\ on.off = 0 /\ on.left = rest
      BY <3>5
    <3> HIDE DEF on
    <3>9. (j + 1) + Further(on.off, Len(on.left)) = Len(l)
      BY <2>3, <3>1, <3>7, <3>8
    <3>10. on.off \in 0 .. Units - 1 /\ Len(on.left) \in Nat
      BY <1>0, <3>1, <3>7, <3>8
    <3> QED
      BY <3>2, <3>4, <3>6, <3>7, <3>8, <3>9, <3>10 DEF Toward
  <2> QED
    BY <2>5, <2>6
<1> QED
  BY <1>1, <1>2

\* A write whose data ends in the last cluster of the chain meets nothing bad.
LEMMA FillWithin ==
    ASSUME NEW s, Reads(s.h, s.h.d.fat), NEW input \in Inputs,
           NEW l, Len(l) \in 1 .. LastCluster, \A i \in 1 .. Len(l) : l[i] \in Clusters,
           \A i \in 1 .. Len(l) - 1 : s.h.d.fat[l[i]] = l[i + 1], s.h.d.fat[l[Len(l)]] = EOC,
           s.off \in 0 .. Units - 1,
           NEW j \in 1 .. Len(l), s.c = l[j], j + Further(s.off, Len(input)) = Len(l)
    PROVE  Fill(s, input).bad = "none"
<1>0. input \in Seq(ToSet(input))
  BY FilesAssumption
<1> DEFINE N == Len(input) + 2
           x == [h |-> s.h, c |-> s.c, off |-> s.off, left |-> input, done |-> FALSE]
           fat == s.h.d.fat
<1>1. N \in Nat /\ Len(input) \in Nat
  BY <1>0
<1>2. PICK f : /\ f[0] = x
               /\ \A i \in 1 .. N : f[i] = FillTurn(f[i - 1])
               /\ Fill(s, input) = f[N].h
  BY FillRuns
<1>3. /\ x = [y \in {"h", "c", "off", "left", "done"} |-> x[y]]
      /\ x.h = s.h /\ x.c = s.c /\ x.off = s.off /\ x.left = input
  OBVIOUS
<1> HIDE DEF x, N
<1> DEFINE T == {i \in 0 .. N : Toward(f[i], l, fat)}
<1>4. 0 \in T
  <2>1. Toward(x, l, fat)
    BY <1>0, <1>1, <1>3 DEF Toward
  <2> QED
    BY <1>1, <1>2, <2>1
<1>5. ASSUME NEW i \in 1 .. N, i - 1 \in T PROVE i \in T
  <2>1. Toward(f[i - 1], l, fat) /\ f[i] = FillTurn(f[i - 1])
    BY <1>2, <1>5
  <2> HIDE DEF fat
  <2>2. Toward(FillTurn(f[i - 1]), l, fat)
    BY <2>1, FillTurnWithin DEF fat
  <2> QED
    BY <2>1, <2>2
<1> HIDE DEF T
<1>6. N \in T
  BY ONLY <1>1, <1>4, <1>5, StepByStep
<1> QED
  BY <1>2, <1>6 DEF T, Toward, Reads

\* Where the slots of a window lie.
LEMMA WindowPlaces ==
    ASSUME NEW d, IsDisk(d), NEW c \in Clusters, NEW m \in 1 .. 2 * Slots
    PROVE  /\ Window(d, c)[m] = IF SlotAt(d, c, m) \in Places THEN d.slots[SlotAt(d, c, m)[1]][SlotAt(d, c, m)[2]] ELSE Junk
           /\ SlotAt(d, c, m) \in Places <=> m <= Slots \/ d.fat[c] \in Clusters
<1>1. Slots \in Nat
  BY GeometryAssumption
<1>2. CASE m <= Slots
  <2>1. SlotAt(d, c, m) = <<c, m>> /\ m \in 1 .. Slots /\ <<c, m>> \in Places
    BY <1>1, <1>2 DEF SlotAt, Places
  <2> QED
    BY <1>2, <2>1, WindowSlots
<1>3. CASE ~(m <= Slots)
  <2>1. SlotAt(d, c, m) = <<d.fat[c], m - Slots>> /\ m \in Slots + 1 .. 2 * Slots /\ m - Slots \in 1 .. Slots
    BY <1>1, <1>3 DEF SlotAt
  <2>2. SlotAt(d, c, m) \in Places <=> d.fat[c] \in Clusters
    BY <2>1 DEF Places
  <2>3. Window(d, c)[m] = IF d.fat[c] \in Clusters THEN d.slots[d.fat[c]][m - Slots] ELSE Junk
    BY <2>1, WindowSlots
  <2> QED
    BY <1>3, <2>1, <2>2, <2>3
<1> QED
  BY <1>2, <1>3

\* An entry that is put back is found again.
LEMMA PutBack ==
    ASSUME NEW d, IsDisk(d), NEW p \in Places, ShortAt(d, p) \in Places, NEW g, IsDisk(g), g.fat = d.fat,
           NEW e, e.k # "long",
           \A x \in Places : g.slots[x[1]][x[2]] = IF x = ShortAt(d, p) THEN e ELSE d.slots[x[1]][x[2]]
    PROVE  ShortAt(g, p) = ShortAt(d, p) /\ Entry(g, p) = e
<1> DEFINE w == Window(d, p[1])
           v == Window(g, p[1])
           q == ShortAt(d, p)
<1>1. Slots \in Nat /\ p[1] \in Clusters /\ p[2] \in 1 .. Slots
  BY PlacesAre, GeometryAssumption
<1>2. PICK n \in p[2] .. 2 * Slots + 1 :
              /\ q = SlotAt(d, p[1], n)
              /\ \A m \in p[2] .. n - 1 : w[m].k = "long"
              /\ n <= 2 * Slots => Entry(d, p) = w[n] /\ Entry(d, p).k # "long"
  BY EntryIsThere
<1>3. PICK o \in p[2] .. 2 * Slots + 1 :
              /\ ShortAt(g, p) = SlotAt(g, p[1], o)
              /\ \A m \in p[2] .. o - 1 : v[m].k = "long"
              /\ o <= 2 * Slots => Entry(g, p) = v[o] /\ Entry(g, p).k # "long"
  BY EntryIsThere
<1>4. \A m \in 1 .. 2 * Slots : SlotAt(g, p[1], m) = SlotAt(d, p[1], m)
  BY DEF SlotAt
<1>5. n \in 1 .. 2 * Slots
  <2>1. q = IF n <= Slots THEN <<p[1], n>> ELSE <<d.fat[p[1]], n - Slots>>
    BY <1>2 DEF SlotAt
  <2>2. q[2] \in 1 .. Slots
    BY PlacesAre
  <2> HIDE DEF q
  <2>3. n <= Slots \/ n - Slots \in 1 .. Slots
    BY <2>1, <2>2
  <2> QED
    BY <1>1, <2>3
<1>6. ASSUME NEW m \in 1 .. 2 * Slots
      PROVE  /\ SlotAt(d, p[1], m) = q => v[m] = e
             /\ SlotAt(d, p[1], m) # q => v[m] = w[m]
  <2> DEFINE x == SlotAt(d, p[1], m)
  <2>1. w[m] = IF x \in Places THEN d.slots[x[1]][x[2]] ELSE Junk
    BY <1>1, WindowPlaces
  <2>2. v[m] = IF x \in Places THEN g.slots[x[1]][x[2]] ELSE Junk
    BY <1>1, <1>4, WindowPlaces
  <2> HIDE DEF x, v, w, q
  <2>3. x = q => v[m] = e
    BY <2>2 DEF q
  <2>4. x # q => v[m] = w[m]
    BY <2>1, <2>2 DEF q
  <2> QED
    BY <2>3, <2>4 DEF x
<1>7. v[n] = e
  BY <1>2, <1>5, <1>6
<1>8. ASSUME NEW m \in p[2] .. n - 1 PROVE v[m].k = "long"
  <2>1. m \in 1 .. 2 * Slots /\ w[m].k = "long"
    BY <1>1, <1>2, <1>5
  <2>2. SlotAt(d, p[1], m) # q
    <3>1. w[m] # w[n]
      BY <1>2, <1>5, <2>1
    <3>2. SlotAt(d, p[1], m) = SlotAt(d, p[1], n) => w[m] = w[n]
      BY <1>1, <1>5, <2>1, WindowPlaces
    <3> QED
      BY <1>2, <3>1, <3>2
  <2> QED
    BY <1>6, <2>1, <2>2
<1> HIDE DEF v, w, q
<1>9. ~(o < n)
  <2> SUFFICES ASSUME o < n PROVE FALSE
    OBVIOUS
  <2>1. o \in p[2] .. n - 1 /\ o <= 2 * Slots
    BY <1>1, <1>5
  <2> QED
    BY <1>3, <1>8, <2>1
<1>10. ~(n < o)
  <2> SUFFICES ASSUME n < o PROVE FALSE
    OBVIOUS
  <2>1. n \in p[2] .. o - 1
    BY <1>1
  <2> QED
    BY <1>3, <1>7, <2>1
<1>11. o = n /\ o <= 2 * Slots
  BY <1>1, <1>5, <1>9, <1>10
<1> QED
  BY <1>2, <1>3, <1>4, <1>5, <1>7, <1>11 DEF q

\* A file's first cluster is the head of a chain.
LEMMA EntryOwns ==
    ASSUME NEW d, IsDisk(d), Consistent(d), NEW p \in Places, HasEntry(d, p), Entry(d, p).first # 0
    PROVE  IsHead(d, Entry(d, p).first)
<1> DEFINE q == ShortAt(d, p)
<1>1. q \in Places /\ ~Hidden(Entry(d, p))
  BY DEF HasEntry
<1>2. d.slots[q[1]][q[2]] = Entry(d, p) /\ Entry(d, p).k # "long"
  BY <1>1, ShortSlot
<1> HIDE DEF q
<1>3. q \in Owners(d) /\ First(d, q) = Entry(d, p).first
  BY <1>1, <1>2 DEF Owners, First
<1> QED
  BY <1>3 DEF Consistent

\* A cluster that is the last of a chain is a chain.
LEMMA OneCluster ==
    ASSUME NEW d, IsDisk(d), Consistent(d), NEW n, IsHead(d, n), d.fat[n] = EOC
    PROVE  Len(ChainOf(d, n)) = 1
<1> DEFINE l == ChainOf(d, n)
<1>1. /\ Len(l) \in 1 .. LastCluster /\ l[1] = n
      /\ \A i \in 1 .. Len(l) : l[i] \in Clusters
      /\ \A i \in 1 .. Len(l) - 1 : d.fat[l[i]] = l[i + 1]
  BY AlongChain
<1> HIDE DEF l
<1>2. ASSUME Len(l) # 1 PROVE FALSE
  <2>1. 1 \in 1 .. Len(l) - 1 /\ 1 + 1 \in 1 .. Len(l)
    <3> DEFINE m == Len(l)
    <3>1. LastCluster \in Nat /\ m \in 1 .. LastCluster /\ m # 1
      BY <1>1, <1>2, GeometryAssumption
    <3> HIDE DEF m
    <3>2. 1 \in 1 .. m - 1 /\ 1 + 1 \in 1 .. m
      BY <3>1
    <3> QED
      BY <3>2 DEF m
  <2>2. l[1 + 1] = EOC /\ l[1 + 1] \in Clusters
    BY <1>1, <2>1
  <2> QED
    BY <2>2 DEF EOC, Clusters
<1> QED
  BY <1>2 DEF l

LEMMA PutSlotPuts ==
    ASSUME NEW h, IsSession(h), NEW q \in Places, NEW e
    PROVE  LET g == PutSlot(h, q, e)
           IN  /\ IsSession(g) /\ g.bad = h.bad /\ g.d.fat = h.d.fat
               /\ \A x \in Places : g.d.slots[x[1]][x[2]] = IF x = q THEN e ELSE h.d.slots[x[1]][x[2]]
<1> DEFINE t == [h.d.slots[q[1]] EXCEPT ![q[2]] = e]
           d == [h.d EXCEPT !.slots[q[1]][q[2]] = e]
<1>1. /\ d.fat = h.d.fat /\ \A c \in Clusters : d.slots[c] = IF c = q[1] THEN t ELSE h.d.slots[c]
  BY DEF IsSession, IsDisk
<1>2. IsSession(PutSlot(h, q, e)) /\ PutSlot(h, q, e) = Put(h, d)
  BY PutSlotLeads DEF Leads, PutSlot
<1>3. Put(h, d).d = d /\ Put(h, d).bad = h.bad
  BY DEF Put, IsSession, Fields
<1> HIDE DEF d
<1>4. ASSUME NEW x \in Places
      PROVE  d.slots[x[1]][x[2]] = IF x = q THEN e ELSE h.d.slots[x[1]][x[2]]
  <2>0. x[1] \in Clusters /\ x[2] \in 1 .. Slots /\ x = <<x[1], x[2]>> /\ q = <<q[1], q[2]>>
    BY PlacesAre
  <2>1. DOMAIN h.d.slots[x[1]] = 1 .. Slots
    <3>1. h.d.slots[x[1]] = [i \in 1 .. Slots |-> h.d.slots[x[1]][i]]
      BY <2>0 DEF IsSession, IsDisk
    <3> DEFINE s == h.d.slots[x[1]]
    <3>2. s = [i \in 1 .. Slots |-> s[i]]
      BY <3>1
    <3> HIDE DEF s
    <3>3. DOMAIN s = 1 .. Slots
      BY <3>2
    <3> QED
      BY <3>3 DEF s
  <2>2. x[1] = q[1] => t[x[2]] = IF x[2] = q[2] THEN e ELSE h.d.slots[x[1]][x[2]]
    BY <2>0, <2>1
  <2>3. x = q <=> x[1] = q[1] /\ x[2] = q[2]
    BY <2>0
  <2> HIDE DEF t
  <2> QED
    BY <1>1, <2>0, <2>2, <2>3
<1> QED
  BY <1>1, <1>2, <1>3, <1>4

\* fat_write gives a file without clusters one that is a chain.
LEMMA FirstClusterGiven ==
    ASSUME NEW h, IsSession(h), h.bad = "none", Sound(h),
           NEW p \in Places, HasEntry(h.d, p), Entry(h.d, p).first = 0
    PROVE  LET f == FirstCluster(h, p)
               n == Entry(f.d, p).first
           IN  \/ f.bad = "full"
               \/ f.bad = "none" /\ IsHead(f.d, n) /\ Len(ChainOf(f.d, n)) = 1
<1> DEFINE n == Allocated(h.d)
           g == PutFat(h, n, EOC)
           e == [Entry(h.d, p) EXCEPT !.first = n]
           f == FirstCluster(h, p)
           q == ShortAt(h.d, p)
<1>1. CASE n = 0
  <2>1. f = Bad(h, "full")
    BY <1>1 DEF FirstCluster
  <2>2. f.bad = "full"
    BY <2>1, BadLeads DEF Damages
  <2> QED
    BY <2>2
<1>2. CASE n # 0
  <2>1. f = PutEntry(g, p, e)
    BY <1>2 DEF FirstCluster
  <2>2. n \in Clusters /\ h.d.fat[n] = 0
    BY <1>2, AllocatedFree
  <2>3. IsDisk(h.d) /\ Consistent(h.d) /\ p[1] \in Clusters
    BY PlacesAre DEF IsSession, Sound
  <2> HIDE DEF n
  <2>4. IsDisk([h.d EXCEPT !.fat[n] = EOC])
    BY <2>2, GeometryAssumption DEF IsSession, IsDisk, Clusters
  <2>5. IsSession(g) /\ g.bad = h.bad /\ g.d = [h.d EXCEPT !.fat[n] = EOC]
    BY <2>4, PutLeads DEF PutFat, Leads
  <2>6. /\ g.d.slots = h.d.slots /\ g.d.fat[n] = EOC
        /\ \A c \in Clusters : g.d.fat[c] = IF c = n THEN EOC ELSE h.d.fat[c]
    <3> DEFINE d == [h.d EXCEPT !.fat[n] = EOC]
    <3>1. IsDisk(h.d) /\ n \in 0 .. LastCluster /\ Clusters \subseteq 0 .. LastCluster
      BY <2>2, GeometryAssumption DEF IsSession, Clusters
    <3>2. d.slots = h.d.slots /\ \A c \in 0 .. LastCluster : d.fat[c] = IF c = n THEN EOC ELSE h.d.fat[c]
      BY <3>1 DEF IsDisk
    <3>3. g.d = d
      BY <2>5
    <3> HIDE DEF d, g
    <3> QED
      BY <2>2, <3>1, <3>2, <3>3
  <2> HIDE DEF g
  <2>7. g.d.fat[p[1]] = h.d.fat[p[1]] \/ (g.d.fat[p[1]] \notin Clusters /\ h.d.fat[p[1]] \notin Clusters)
    BY <2>2, <2>3, <2>6 DEF EOC, Clusters
  <2>8. Window(g.d, p[1]) = Window(h.d, p[1]) /\ Entry(g.d, p) = Entry(h.d, p)
    BY <2>6, <2>7, SameWindow
  <2>9. q \in Places /\ ~Hidden(Entry(h.d, p)) /\ Entry(h.d, p).k # "long"
    BY <2>3, ShortSlot DEF HasEntry
  <2>10. ShortAt(g.d, p) = q
    <3> DEFINE s == SkipName(Window(h.d, p[1]), p[2])
    <3>1. q = SlotAt(h.d, p[1], s) /\ ShortAt(g.d, p) = SlotAt(g.d, p[1], s)
      BY <2>8 DEF ShortAt
    <3> HIDE DEF s, q
    <3>2. CASE s <= Slots
      BY <3>1, <3>2 DEF SlotAt
    <3>3. CASE ~(s <= Slots)
      <4>1. q = <<h.d.fat[p[1]], s - Slots>> /\ ShortAt(g.d, p) = <<g.d.fat[p[1]], s - Slots>>
        BY <3>1, <3>3 DEF SlotAt
      <4>2. h.d.fat[p[1]] \in Clusters
        BY <2>9, <4>1, PlacesAre
      <4> QED
        BY <2>7, <4>1, <4>2
    <3> QED
      BY <3>2, <3>3
  <2>11. f = PutSlot(g, q, e)
    BY <2>1, <2>10 DEF PutEntry
  <2> HIDE DEF f, q
  <2>12. IsSlot(Entry(h.d, p))
    BY <2>3, EntryIsSlot
  <2>13. e.k # "long" /\ ~Hidden(e) /\ e.first = n
    BY <2>9, <2>12 DEF IsSlot, Hidden
  <2> HIDE DEF e
  <2>14. /\ IsSession(f) /\ f.bad = "none" /\ f.d.fat = g.d.fat
         /\ \A x \in Places : f.d.slots[x[1]][x[2]] = IF x = q THEN e ELSE g.d.slots[x[1]][x[2]]
    <3> DEFINE k == PutSlot(g, q, e)
    <3>1. /\ IsSession(k) /\ k.bad = g.bad /\ k.d.fat = g.d.fat
          /\ \A x \in Places : k.d.slots[x[1]][x[2]] = IF x = q THEN e ELSE g.d.slots[x[1]][x[2]]
      <4>1. IsSession(g) /\ q \in Places
        BY <2>5, <2>9
      <4> QED
        BY ONLY <4>1, PutSlotPuts
    <3> HIDE DEF k
    <3> QED
      BY <2>5, <2>11, <3>1 DEF k
  <2>15. ShortAt(f.d, p) = q /\ Entry(f.d, p) = e
    <3> DEFINE d == f.d
               b == g.d
    <3>1. IsDisk(d) /\ IsDisk(b) /\ d.fat = b.fat
      BY <2>5, <2>14 DEF IsSession
    <3>2. ShortAt(b, p) \in Places /\ e.k # "long"
      BY <2>9, <2>10, <2>13
    <3>3. \A x \in Places : d.slots[x[1]][x[2]] = IF x = ShortAt(b, p) THEN e ELSE b.slots[x[1]][x[2]]
      BY <2>10, <2>14
    <3> HIDE DEF d, b
    <3>4. ShortAt(d, p) = ShortAt(b, p) /\ Entry(d, p) = e
      BY <3>1, <3>2, <3>3, PutBack
    <3> QED
      BY <2>10, <3>4 DEF d, b
  <2>16. IsDisk(f.d) /\ Consistent(f.d)
    BY <2>14, FirstClusterSound DEF f, IsSession, Sound
  <2>17. HasEntry(f.d, p) /\ Entry(f.d, p).first # 0
    BY <1>2, <2>9, <2>13, <2>15 DEF HasEntry, n
  <2>18. IsHead(f.d, n) /\ f.d.fat[n] = EOC
    BY <2>6, <2>13, <2>14, <2>15, <2>16, <2>17, EntryOwns
  <2> QED
    BY <2>13, <2>14, <2>15, <2>16, <2>18, OneCluster DEF f
<1> QED
  BY <1>1, <1>2

LEMMA PutSizeBad ==
    ASSUME NEW h, IsSession(h), NEW p, NEW size
    PROVE  PutSize(h, p, size).bad = h.bad
<1>1. \A q, e : PutSlot(h, q, e).bad = h.bad
  BY DEF PutSlot, Put, IsSession, Fields
<1> QED
  BY <1>1 DEF PutSize, PutEntry

\* A file whose chain is as long as the write reaches.
LEMMA InputWithin ==
    ASSUME NEW h, IsSession(h), h.bad = "none", Sound(h), NEW p, IsHead(h.d, Entry(h.d, p).first),
           NEW off \in Nat, NEW input \in Inputs,
           Reach(off, Len(input)) = Len(ChainOf(h.d, Entry(h.d, p).first))
    PROVE  PutInput(h, p, off, input).bad = "none"
<1> DEFINE c == Entry(h.d, p).first
           l == ChainOf(h.d, c)
           r == ReadTable(h)
           s == Seek(r, c, off)
           q == off \div Units
           n == Len(input)
<1>1. n \in Nat
  <2>1. input \in Seq(ToSet(input))
    BY FilesAssumption
  <2> QED
    BY <2>1
<1>2. /\ Reach(off, n) = q + 1 + Further(off % Units, n)
      /\ q \in Nat /\ off % Units \in 0 .. Units - 1 /\ Further(off % Units, n) \in Nat
  BY <1>1, ReachIsFurther
<1>3. /\ Len(l) \in 1 .. LastCluster
      /\ \A i \in 1 .. Len(l) : l[i] \in Clusters
      /\ \A i \in 1 .. Len(l) - 1 : h.d.fat[l[i]] = l[i + 1]
      /\ h.d.fat[l[Len(l)]] = EOC
  <2> DEFINE d == h.d
  <2>1. IsDisk(d) /\ Consistent(d) /\ IsHead(d, c)
    BY DEF IsSession, Sound
  <2> HIDE DEF c, d, r, s, q, n
  <2>2. /\ Len(ChainOf(d, c)) \in 1 .. LastCluster
        /\ \A i \in 1 .. Len(ChainOf(d, c)) : ChainOf(d, c)[i] \in Clusters
        /\ \A i \in 1 .. Len(ChainOf(d, c)) - 1 : d.fat[ChainOf(d, c)[i]] = ChainOf(d, c)[i + 1]
        /\ d.fat[ChainOf(d, c)[Len(ChainOf(d, c))]] = EOC
    BY ONLY <2>1, AlongChain
  <2> QED
    BY <2>2 DEF d
<1>4. PutInput(h, p, off, input) = PutSize(Fill(s, input), p, n)
  BY DEF PutInput
<1>5. IsSession(r) /\ r.bad = "none" /\ r.d = h.d /\ r.cache = h.d.fat /\ Consistent(h.d) /\ IsHead(h.d, c)
  BY DEF ReadTable, IsSession, Fields, Sound
<1> HIDE DEF c, r
<1>6. q < Len(l) /\ q + 1 \in 1 .. Len(l) /\ (q + 1) + Further(off % Units, n) = Len(l)
  <2> DEFINE m == Len(l)
             o == Further(off % Units, n)
  <2>1. m = q + 1 + o /\ q \in Nat /\ o \in Nat
    BY <1>2 DEF c
  <2> HIDE DEF m, o, q
  <2>2. q < m /\ q + 1 \in 1 .. m /\ (q + 1) + o = m
    BY <2>1
  <2> QED
    BY <2>2 DEF m, o
<1>7. /\ IsSession(s.h) /\ s.h.bad = "none" /\ s.h.d = h.d /\ s.h.cache = h.d.fat
      /\ s.off = off % Units /\ s.c = l[q + 1]
  <2>1. off \div Units < Len(ChainOf(r.d, c))
    BY <1>5, <1>6
  <2>2. LET t == Seek(r, c, off)
        IN  /\ IsSession(t.h) /\ t.h.bad = "none" /\ t.h.d = r.d /\ t.h.cache = r.d.fat
            /\ t.off = off % Units /\ t.c = ChainOf(r.d, c)[off \div Units + 1]
    BY <1>5, <2>1, SeekWithin
  <2> QED
    BY <1>5, <2>2
<1> HIDE DEF l, s
<1>8. Reads(s.h, s.h.d.fat)
  BY <1>7 DEF Reads
<1>9. Fill(s, input).bad = "none"
  <2> DEFINE j == q + 1
  <2>1. j \in 1 .. Len(l) /\ s.c = l[j] /\ j + Further(s.off, Len(input)) = Len(l) /\ s.off \in 0 .. Units - 1
    BY <1>2, <1>6, <1>7
  <2> HIDE DEF j
  <2>2. /\ \A i \in 1 .. Len(l) - 1 : s.h.d.fat[l[i]] = l[i + 1]
        /\ s.h.d.fat[l[Len(l)]] = EOC
    BY <1>3, <1>7
  <2> QED
    BY ONLY <1>3, <1>8, <2>1, <2>2, FillWithin, input \in Inputs
<1>10. IsSession(Fill(s, input))
  BY <1>7, FillLeads DEF Leads
<1> QED
  BY <1>4, <1>9, <1>10, PutSizeBad

LEMMA WriteWithin ==
    ASSUME NEW h, IsSession(h), h.bad = "none", Sound(h), NEW node, node.at \in Places, node.off \in Nat,
           ~node.root, NEW input \in Inputs, HasEntry(h.d, node.at),
           LET c == Entry(h.d, node.at).first
           IN  Reach(node.off, Len(input)) = IF c = 0 THEN 1 ELSE Len(ChainOf(h.d, c))
    PROVE  WriteFile(h, node, input).bad \in {"none", "full"}
<1> DEFINE p == node.at
           f == FirstCluster(h, p)
           c == Entry(h.d, p).first
           n == Entry(f.d, p).first
           g == PutInput(f, p, node.off, input)
<1>1. WriteFile(h, node, input) \in {h, g}
  BY DEF WriteFile
<1>2. IsSession(f) /\ Sound(f)
  BY FirstClusterLeads, FirstClusterSound DEF Leads
<1>3. \/ f.bad = "full"
      \/ f.bad = "none" /\ IsHead(f.d, n) /\ Len(ChainOf(f.d, n)) = Reach(node.off, Len(input))
  <2>1. CASE c = 0
    <3>1. \/ f.bad = "full"
          \/ f.bad = "none" /\ IsHead(f.d, n) /\ Len(ChainOf(f.d, n)) = 1
      BY <2>1, FirstClusterGiven
    <3>2. Reach(node.off, Len(input)) = 1
      BY <2>1
    <3> HIDE DEF f
    <3> QED
      BY <3>1, <3>2
  <2>2. CASE c # 0
    <3>1. IsHead(h.d, c)
      BY <2>2, EntryOwns DEF IsSession, Sound
    <3>2. c \notin {0, EOC}
      BY <2>2, <3>1 DEF IsHead, Clusters, EOC
    <3>3. f = h
      BY <3>2 DEF FirstCluster
    <3> QED
      BY <2>2, <3>1, <3>3
  <2> QED
    BY <2>1, <2>2
<1>4. CASE f.bad = "full"
  <2>1. g = f
    BY <1>4 DEF PutInput
  <2> QED
    BY <1>1, <1>4, <2>1
<1>5. CASE f.bad = "none" /\ IsHead(f.d, n) /\ Len(ChainOf(f.d, n)) = Reach(node.off, Len(input))
  <2>1. g.bad = "none"
    BY <1>2, <1>5, InputWithin
  <2> QED
    BY <1>1, <2>1
<1> QED
  BY <1>3, <1>4, <1>5

\* What WritesWithinChain says of a step.
WithinChain ==
    \A i \in DOMAIN fds, u \in Inputs :
        LET e == Entry(disk, Node(i).at)
        IN  damage' \notin {"none", "full"} /\ HasEntry(disk, Node(i).at) /\ ~Node(i).root /\ WriteFd(i, u)
                => Reach(Node(i).off, Len(u)) # (IF e.first = 0 THEN 1 ELSE Len(ChainOf(disk, e.first)))

LEMMA WriteFdWithin ==
    ASSUME StateInv
    PROVE  WithinChain
<1> SUFFICES ASSUME NEW i \in DOMAIN fds, NEW u \in Inputs,
                    HasEntry(disk, Node(i).at), ~Node(i).root, WriteFd(i, u),
                    LET c == Entry(disk, Node(i).at).first
                    IN  Reach(Node(i).off, Len(u)) = IF c = 0 THEN 1 ELSE Len(ChainOf(disk, c))
             PROVE  damage' \in {"none", "full"}
  BY DEF WithinChain
<1>1. PICK h \in {WriteFile(Begin, Node(i), u)} : damage' = h.bad
  BY DEF WriteFd, Ends, Crashes
<1>2. damage = "none"
  BY DEF WriteFd, Call
<1>3. IsSession(Begin) /\ Sound(Begin) /\ Begin.d = disk /\ Begin.bad = "none"
  BY <1>2, BeginWalks DEF Walks, Begin
<1>4. Node(i).at \in Places /\ Node(i).off \in Nat
  BY DEF StateInv, FdInv, Tables, IsNode, Node
<1> HIDE DEF Begin
<1>5. WriteFile(Begin, Node(i), u).bad \in {"none", "full"}
  BY <1>3, <1>4, WriteWithin
<1> QED
  BY <1>1, <1>5

\* On a disk of any size, for a cluster of any number of units and writes of any length at any
\* place in a file: a write that ends in the cluster the file's chain ends in does no damage but
\* that of a full disk, whenever the power goes off. fat_write finds the cluster with the offset by
\* the table it has just read, goes on along the chain and meets its end where the data ends.
THEOREM WritesStayWithinChain == Spec => WritesWithinChain
<1>1. StateInv /\ [Next]_vars => [WithinChain]_vars
  BY WriteFdWithin
<1> QED
  BY <1>1, StatesKept, PTL DEF Spec, WritesWithinChain, WithinChain

-----------------------------------------------------------------------------
(* What a directory's listing shows. *)

\* The entries that fat_iterate and fat_get_child show of a list.
FirstShown(d, l) == FirstWhere(l, LAMBDA q : ~Hidden(Entry(d, q)))

LEMMA ShownFirst ==
    ASSUME NEW d, NEW l, IsList(l), Len(l) >= 1
    PROVE  \E i \in 1 .. Len(l) : /\ FirstShown(d, l) = l[i]
                                  /\ i = Len(l) \/ ~Hidden(Entry(d, l[i]))
                                  /\ \A j \in 1 .. i - 1 : Hidden(Entry(d, l[j]))
<1> DEFINE Test(p) == ~Hidden(Entry(d, p))
           Found(i) == (i = Len(l) \/ Test(l[i])) /\ \A j \in 1 .. i - 1 : ~Test(l[j])
           n == CHOOSE i \in 1 .. Len(l) : Found(i)
           S == {i \in 1 .. Len(l) : Test(l[i])}
<1>1. FirstShown(d, l) = l[n]
  BY DEF FirstShown, FirstWhere
<1>2. Len(l) \in Nat
  BY DEF IsList
<1>3. PICK i \in 1 .. Len(l) : (i = Len(l) \/ i \in S) /\ \A j \in 1 .. i - 1 : j \notin S
  <2> HIDE DEF S
  <2> QED
    BY <1>2, FirstOfList
<1>4. Found(i)
  <2> HIDE DEF Test
  <2>1. \A j \in 1 .. i - 1 : j \in 1 .. Len(l)
    BY <1>2, <1>3
  <2> QED
    BY <1>3, <2>1
<1> HIDE DEF Test
<1>5. n \in 1 .. Len(l) /\ Found(n)
  <2> HIDE DEF Found
  <2> QED
    BY <1>4
<1> QED
  BY <1>1, <1>5 DEF Test

LEMMA IterateIsSpot ==
    ASSUME NEW d, IsDisk(d), NEW p \in Places
    PROVE  Iterate(d, p) \in Spots
<1> DEFINE l == Listing(d, NextEntry(d, p))
<1>1. Iterate(d, p) = Skipped(NextEntry(d, p), FirstShown(d, l))
  BY DEF Iterate, FirstShown
<1>2. Lists(d, l, NextEntry(d, p))
  BY NextIsSpot, ListingLists
<1> HIDE DEF l
<1>3. FirstShown(d, l) \in Spots
  BY <1>2, ShownFirst DEF Lists
<1> QED
  BY <1>1, <1>3, SpotsAre DEF Skipped

\* The walk main() makes.
Across(d) == [walk |-> "iterate", d |-> d]

LEMMA ListFromFollows ==
    ASSUME NEW d, IsDisk(d), NEW p \in Spots
    PROVE  Follows(Across(d), ListFrom(d, p), p, Slots * LastCluster)
<1> DEFINE k == Across(d)
           N == Slots * LastCluster
           Row(g, x) == IF x[1] \in {End, Lost} \/ x[2] = 0 THEN <<x[1]>>
                        ELSE <<x[1]>> \o g[<<Iterate(d, x[1]), x[2] - 1>>]
           f == CHOOSE f : f = [x \in Spots \X (0 .. N) |-> Row(f, x)]
<1>1. k.walk # "chain" /\ \A q : Onto(k, q) = Iterate(d, q)
  BY DEF Across, Onto
<1>2. \A g, x : Way(k, g, x) = Row(g, x)
  BY <1>1 DEF Way
<1>3. ListFrom(d, p) = f[<<p, N>>]
  BY DEF ListFrom
<1>4. N \in Nat
  BY GeometryAssumption
<1>5. \A q \in Places : Onto(k, q) \in Spots
  BY <1>1, IterateIsSpot
<1> HIDE DEF k, N, Row
<1>6. f = CHOOSE g : Descends(g, k, Spots, N)
  BY <1>2 DEF Descends
<1> HIDE DEF f
<1>7. Follows(k, f[<<p, N>>], p, N)
  BY <1>1, <1>4, <1>5, <1>6, WalkFollows
<1> QED
  BY <1>3, <1>7 DEF k, N

\* The number of the place p in a directory with the clusters l.
Numbered(l, p, r) == \E j \in 1 .. Len(l) : p[1] = l[j] /\ r = Slots * (j - 1) + p[2]

\* A place has one number, for a chain meets no cluster twice.
LEMMA NumberOnce ==
    ASSUME NEW d, IsDisk(d), Consistent(d), NEW c, IsHead(d, c), NEW p, NEW r, NEW s,
           Numbered(ChainOf(d, c), p, r), Numbered(ChainOf(d, c), p, s)
    PROVE  r = s
<1> DEFINE l == ChainOf(d, c)
<1>1. PICK i \in 1 .. Len(l) : p[1] = l[i] /\ r = Slots * (i - 1) + p[2]
  BY DEF Numbered
<1>2. PICK j \in 1 .. Len(l) : p[1] = l[j] /\ s = Slots * (j - 1) + p[2]
  BY DEF Numbered
<1>3. i = j
  <2>1. ChainOf(d, c)[i] = ChainOf(d, c)[j]
    BY <1>1, <1>2
  <2> QED
    BY <2>1, ChainsMeetNowhere
<1> QED
  BY <1>1, <1>2, <1>3

\* No number is greater than the disk has slots.
LEMMA NumberBounded ==
    ASSUME NEW l, Len(l) \in 1 .. LastCluster, NEW p \in Places, NEW r, Numbered(l, p, r)
    PROVE  r \in 1 .. Slots * LastCluster
<1>1. PICK j \in 1 .. Len(l) : r = Slots * (j - 1) + p[2]
  BY DEF Numbered
<1>2. Slots \in Nat /\ Slots # 0 /\ LastCluster \in Nat /\ p[2] \in 1 .. Slots
  BY PlacesAre, GeometryAssumption
<1> DEFINE i == j - 1
           n == LastCluster
<1>3. i \in Nat /\ i < n /\ n \in Nat
  BY <1>2
<1> HIDE DEF i, n
<1>4. Slots * i + Slots <= Slots * n
  BY <1>2, <1>3, Multiples
<1>5. Slots * i \in Nat /\ Slots * n \in Nat
  BY <1>2, <1>3, SMT
<1>6. r = Slots * i + p[2]
  BY <1>1 DEF i
<1>7. r \in 1 .. Slots * n
  BY <1>2, <1>4, <1>5, <1>6
<1> QED
  BY <1>7 DEF n

\* The next entry has a greater number.
LEMMA NumberGrows ==
    ASSUME NEW d, IsDisk(d), Consistent(d), NEW c, IsHead(d, c), NEW p \in Places, NextEntry(d, p) \in Places,
           NEW r, Numbered(ChainOf(d, c), p, r)
    PROVE  \E s \in Int : s > r /\ Numbered(ChainOf(d, c), NextEntry(d, p), s)
<1> DEFINE l == ChainOf(d, c)
           w == Window(d, p[1])
           b == Behind(d, p)
           q == NextEntry(d, p)
<1>1. Slots \in Nat /\ Slots >= 2 /\ p[1] \in Clusters /\ p[2] \in 1 .. Slots
  BY PlacesAre, GeometryAssumption
<1>2. Len(w) = 2 * Slots
  BY <1>1, WindowSlots
<1>3. b \in p[2] + 1 .. 2 * Slots + 2
  <2>1. PICK n \in p[2] .. 2 * Slots + 1 : n = SkipName(w, p[2])
    BY EntryIsThere
  <2>2. b = n + 1
    BY <2>1 DEF Behind
  <2> HIDE DEF b
  <2> QED
    BY <1>1, <2>2
<1>4. q \notin {End, Lost}
  BY SpotsAre
<1>5. q = SlotAt(d, p[1], b)
  BY <1>2, <1>4 DEF NextEntry
<1>6. PICK j \in 1 .. Len(l) : p[1] = l[j] /\ r = Slots * (j - 1) + p[2]
  BY DEF Numbered
<1>7. /\ Len(l) \in 1 .. LastCluster
      /\ \A i \in 1 .. Len(l) - 1 : d.fat[l[i]] = l[i + 1]
      /\ d.fat[l[Len(l)]] = EOC
  BY AlongChain
<1> HIDE DEF b, q, l
<1> DEFINE s == Slots * (j - 1) + b
<1>8. Slots * (j - 1) \in Int /\ s \in Int /\ s > r
  <2>1. j \in Int
    OBVIOUS
  <2>2. Slots * (j - 1) \in Int
    BY <1>1, <2>1, SMT
  <2> QED
    BY <1>1, <1>3, <1>6, <2>2
<1>9. Numbered(l, q, s)
  <2>1. CASE b <= Slots
    <3>1. q[1] = l[j] /\ q[2] = b
      BY <1>5, <1>6, <2>1 DEF SlotAt
    <3> QED
      BY <3>1 DEF Numbered
  <2>2. CASE ~(b <= Slots)
    <3>1. q = <<d.fat[p[1]], b - Slots>>
      BY <1>5, <2>2 DEF SlotAt
    <3>2. d.fat[l[j]] \in Clusters
      BY <1>6, <3>1, PlacesAre DEF q
    <3>3. j # Len(l)
      BY <1>7, <3>2 DEF EOC, Clusters
    <3>4. j \in 1 .. Len(l) - 1 /\ j + 1 \in 1 .. Len(l)
      <4>1. LastCluster \in Nat /\ Len(l) \in 1 .. LastCluster
        BY <1>7, GeometryAssumption
      <4> QED
        BY <3>3, <4>1
    <3>5. q[1] = l[j + 1] /\ q[2] = b - Slots
      BY <1>6, <1>7, <3>1, <3>4
    <3>6. s = Slots * ((j + 1) - 1) + q[2]
      <4>1. j \in Int /\ b \in Int
        BY <1>1, <1>3
      <4>2. Slots * ((j + 1) - 1) = Slots * (j - 1) + Slots
        BY <1>1, <4>1, SMT
      <4> QED
        BY <1>1, <1>8, <3>5, <4>1, <4>2
    <3> HIDE DEF s
    <3> QED
      BY <3>4, <3>5, <3>6 DEF Numbered
  <2> QED
    BY <2>1, <2>2
<1> QED
  BY <1>8, <1>9 DEF l, q

\* A directory's listing meets its entries by their numbers, each once, and comes to an end.
LEMMA ListingNumbers ==
    ASSUME NEW d, IsDisk(d), Consistent(d), NEW c, IsHead(d, c), NEW i \in 1 .. Len(Listing(d, <<c, 1>>)),
           Listing(d, <<c, 1>>)[i] \in Places
    PROVE  LET l == Listing(d, <<c, 1>>)
           IN  \E r \in Int : /\ Numbered(ChainOf(d, c), l[i], r) /\ r >= i
                              /\ \A j \in 1 .. i - 1 : \E s \in Int : Numbered(ChainOf(d, c), l[j], s) /\ s < r
<1> DEFINE o == <<c, 1>>
           l == Listing(d, o)
           k == ChainOf(d, c)
           m == Len(l)
           Good(n, r) == /\ Numbered(k, l[n], r) /\ r >= n
                         /\ \A j \in 1 .. n - 1 : \E s \in Int : Numbered(k, l[j], s) /\ s < r
           T == {n \in 0 .. m : n = 0 \/ (l[n] \in Places => \E r \in Int : Good(n, r))}
<1>1. o \in Places /\ o[1] = c /\ o[2] = 1 /\ o \in Spots
  BY GeometryAssumption, SpotsAre DEF IsHead, Places
<1> HIDE DEF o
<1>2. Lists(d, l, o)
  BY <1>1, ListingLists
<1>3. m \in Nat
  BY <1>2 DEF Lists, IsList
<1>4. Len(k) >= 1 /\ k[1] = c /\ 1 \in 1 .. Len(k)
  <2>1. Len(k) \in 1 .. LastCluster /\ k[1] = c /\ LastCluster \in Nat
    BY AlongChain, GeometryAssumption
  <2> HIDE DEF k
  <2> QED
    BY <2>1
<1> HIDE DEF l, k, m
<1>5. 0 \in T
  BY <1>3
<1>6. ASSUME NEW n \in 1 .. m, n - 1 \in T PROVE n \in T
  <2> SUFFICES ASSUME l[n] \in Places PROVE \E r \in Int : Good(n, r)
    BY <1>3
  <2>1. CASE n = 1
    <3>1. Slots * (1 - 1) = 0
      BY GeometryAssumption
    <3>2. l[n] = o
      BY <1>2, <2>1 DEF Lists
    <3>3. Numbered(k, o, 1)
      BY <1>1, <1>4, <3>1 DEF Numbered
    <3>4. ~\E j \in 1 .. n - 1 : TRUE
      BY <2>1
    <3>5. Good(n, 1)
      BY <2>1, <3>2, <3>3, <3>4
    <3> HIDE DEF Good
    <3> QED
      BY <3>5
  <2>2. CASE n # 1
    <3>1. n \in 2 .. m /\ n - 1 # 0 /\ n - 1 \in 1 .. m
      BY <1>3, <2>2
    <3>2. l[n - 1] \in Places /\ l[n] = NextEntry(d, l[n - 1])
      BY <1>2, <3>1 DEF Lists, m
    <3>3. PICK r \in Int : Good(n - 1, r)
      BY <1>6, <3>1, <3>2
    <3>4. PICK s \in Int : s > r /\ Numbered(k, l[n], s)
      <4>1. Numbered(k, l[n - 1], r)
        BY <3>3
      <4> QED
        BY <3>2, <4>1, NumberGrows DEF k
    <3>5. s >= n
      BY <3>1, <3>3, <3>4
    <3>6. ASSUME NEW j \in 1 .. n - 1 PROVE \E t \in Int : Numbered(k, l[j], t) /\ t < s
      <4>1. CASE j = n - 1
        BY <3>3, <3>4, <4>1
      <4>2. CASE j # n - 1
        <5>1. j \in 1 .. (n - 1) - 1
          BY <3>1, <4>2
        <5>2. PICK t \in Int : Numbered(k, l[j], t) /\ t < r
          BY <3>3, <5>1
        <5>3. t < s
          BY <3>4, <5>2
        <5> QED
          BY <5>2, <5>3
      <4> QED
        BY <4>1, <4>2
    <3>7. Good(n, s)
      BY <3>4, <3>5, <3>6
    <3> HIDE DEF Good
    <3> QED
      BY <3>7
  <2> QED
    BY <2>1, <2>2
<1> HIDE DEF T
<1>7. \A n \in 0 .. m : n \in T
  BY ONLY <1>3, <1>5, <1>6, StepByStep
<1>8. i \in 1 .. m /\ i \in 0 .. m /\ i # 0 /\ l[i] \in Places
  BY <1>3 DEF l, o, m
<1> HIDE DEF Good
<1>9. \E r \in Int : Good(i, r)
  BY <1>7, <1>8 DEF T
<1> QED
  BY <1>9 DEF Good, k, l, o

LEMMA ListingEnds ==
    ASSUME NEW d, IsDisk(d), Consistent(d), NEW c, IsHead(d, c)
    PROVE  LET l == Listing(d, <<c, 1>>)
           IN  /\ Follows(Along(d), l, <<c, 1>>, Slots * LastCluster) /\ Len(l) \in Nat
               /\ l[Len(l)] \in {End, Lost}
               /\ \A i \in 1 .. Len(l) - 1 : l[i] \in Places
               /\ \A i, j \in 1 .. Len(l) : l[i] = l[j] => i = j
<1> DEFINE o == <<c, 1>>
           l == Listing(d, o)
           k == ChainOf(d, c)
           m == Len(l)
           N == Slots * LastCluster
<1>1. o \in Spots
  BY GeometryAssumption, SpotsAre DEF IsHead, Places
<1>2. Follows(Along(d), l, o, N)
  <2> HIDE DEF o
  <2> QED
    BY <1>1, ListingFollows
<1>3. Len(k) \in 1 .. LastCluster
  BY AlongChain
<1>4. ASSUME NEW i \in 1 .. m, l[i] \in Places
      PROVE  \E r \in Int : /\ Numbered(k, l[i], r) /\ r >= i
                            /\ \A j \in 1 .. i - 1 : \E s \in Int : Numbered(k, l[j], s) /\ s < r
  BY <1>4, ListingNumbers
<1>5. \A p, r, s : Numbered(k, p, r) /\ Numbered(k, p, s) => r = s
  BY NumberOnce
<1>6. N \in Nat
  BY GeometryAssumption
<1> HIDE DEF l, o, k, N
<1>7. m \in Nat /\ m \in 1 .. N + 1 /\ m \in 1 .. m
  BY <1>2, <1>6 DEF Follows, IsList
<1> HIDE DEF m
<1>8. \A i \in 1 .. m : l[i] \in Spots
  BY <1>2 DEF Follows, m
<1>9. l[m] \in {End, Lost}
  <2> SUFFICES ASSUME l[m] \notin {End, Lost} PROVE FALSE
    OBVIOUS
  <2>1. l[m] \in Places /\ m = N + 1
    BY <1>2, <1>7, <1>8, SpotsAre DEF Follows, m
  <2>2. PICK r \in Int : Numbered(k, l[m], r) /\ r >= m
    BY <1>4, <1>7, <2>1
  <2>3. r \in 1 .. N
    BY <1>3, <2>1, <2>2, NumberBounded DEF N
  <2> QED
    BY <1>6, <2>1, <2>2, <2>3
<1>10. ASSUME NEW i \in 1 .. m - 1 PROVE l[i] \in Places
  <2>1. i + 1 \in 2 .. m /\ (i + 1) - 1 = i
    BY <1>7
  <2>2. l[(i + 1) - 1] \in Places
    BY <1>2, <2>1 DEF Follows, m
  <2> QED
    BY <2>1, <2>2
<1>11. ASSUME NEW i \in 1 .. m, NEW j \in 1 .. m, i < j PROVE l[i] # l[j]
  <2>1. i \in 1 .. m - 1 /\ i \in 1 .. j - 1
    BY <1>7, <1>11
  <2>2. CASE l[j] \in Places
    <3>1. PICK r \in Int : /\ Numbered(k, l[j], r)
                           /\ \A n \in 1 .. j - 1 : \E s \in Int : Numbered(k, l[n], s) /\ s < r
      BY <1>4, <2>2
    <3>2. PICK s \in Int : Numbered(k, l[i], s) /\ s < r
      BY <2>1, <3>1
    <3>3. l[i] = l[j] => r = s
      BY <1>5, <3>1, <3>2
    <3> QED
      BY <3>2, <3>3
  <2>3. CASE l[j] \in {End, Lost}
    BY <1>10, <2>1, <2>3, SpotsAre
  <2> QED
    BY <1>8, <2>2, <2>3, SpotsAre
<1>12. ASSUME NEW i \in 1 .. m, NEW j \in 1 .. m, l[i] = l[j] PROVE i = j
  <2>1. ~(i < j) /\ ~(j < i)
    BY <1>11, <1>12
  <2> QED
    BY <2>1
<1> QED
  BY <1>2, <1>7, <1>9, <1>10, <1>12 DEF m, l, o, N

\* A walk from the i-th place of a list on meets the rest of the list, to its end.
LEMMA RestOfListing ==
    ASSUME NEW k, NEW N \in Nat, NEW p, NEW l, Follows(k, l, p, N), l[Len(l)] \in {End, Lost},
           NEW i \in 1 .. Len(l), NEW r, Follows(k, r, l[i], N)
    PROVE  /\ \A j \in 1 .. Len(r) : r[j] = l[i + j - 1] /\ i + j - 1 \in 1 .. Len(l)
           /\ r[Len(r)] \in {End, Lost}
<1> DEFINE m == Len(l)
           n == Len(r)
           T == {j \in 0 .. n : j = 0 \/ (i + j - 1 \in 1 .. m /\ r[j] = l[i + j - 1])}
<1>1. m \in Nat /\ n \in Nat /\ m <= N + 1 /\ n >= 1 /\ i \in 1 .. m
  BY DEF Follows, IsList
<1>2. /\ r[1] = l[i] /\ \A j \in 2 .. n : r[j - 1] \in Places /\ r[j] = Onto(k, r[j - 1])
      /\ r[n] \in {End, Lost} \/ n = N + 1
  BY DEF Follows
<1>3. /\ \A j \in 2 .. m : l[j - 1] \in Places /\ l[j] = Onto(k, l[j - 1])
      /\ l[m] \in {End, Lost}
  BY DEF Follows
<1> HIDE DEF m, n
<1>4. 0 \in T
  BY <1>1
<1>5. ASSUME NEW j \in 1 .. n, j - 1 \in T PROVE j \in T
  <2>1. CASE j = 1
    BY <1>1, <1>2, <2>1
  <2>2. CASE j # 1
    <3>1. j \in 2 .. n /\ j - 1 # 0
      BY <1>1, <2>2
    <3>2. i + (j - 1) - 1 \in 1 .. m /\ r[j - 1] = l[i + (j - 1) - 1]
      BY <1>5, <3>1
    <3>3. r[j - 1] \in Places /\ r[j] = Onto(k, r[j - 1])
      BY <1>2, <3>1
    <3>4. i + (j - 1) - 1 # m
      BY <1>3, <3>2, <3>3, SpotsAre
    <3>5. i + j - 1 \in 2 .. m /\ (i + j - 1) - 1 = i + (j - 1) - 1 /\ i + j - 1 \in 1 .. m
      BY <1>1, <3>1, <3>2, <3>4
    <3>6. l[i + j - 1] = Onto(k, l[(i + j - 1) - 1])
      BY <1>3, <3>5
    <3> QED
      BY <3>2, <3>3, <3>5, <3>6
  <2> QED
    BY <2>1, <2>2
<1> HIDE DEF T
<1>6. \A j \in 0 .. n : j \in T
  BY ONLY <1>1, <1>4, <1>5, StepByStep
<1>7. \A j \in 1 .. n : i + j - 1 \in 1 .. m /\ r[j] = l[i + j - 1]
  BY <1>1, <1>6 DEF T
<1>8. r[n] \in {End, Lost}
  <2> SUFFICES ASSUME r[n] \notin {End, Lost} PROVE FALSE
    OBVIOUS
  <2>1. i + n - 1 \in 1 .. m /\ r[n] = l[i + n - 1]
    BY <1>1, <1>7
  <2>2. n = N + 1 /\ i = 1 /\ n = m
    BY <1>1, <1>2, <2>1
  <2> QED
    BY <1>1, <1>3, <2>1, <2>2
<1> QED
  BY <1>7, <1>8 DEF m, n

\* What a listing from the i-th place on shows first is the next entry of the directory that is shown.
LEMMA ShownFrom ==
    ASSUME NEW d, IsDisk(d), Consistent(d), NEW c, IsHead(d, c), NEW i \in 1 .. Len(Listing(d, <<c, 1>>))
    PROVE  LET l == Listing(d, <<c, 1>>)
           IN  \E t \in i .. Len(l) : /\ FirstShown(d, Listing(d, l[i])) = l[t]
                                      /\ t = Len(l) \/ ~Hidden(Entry(d, l[t]))
                                      /\ \A j \in i .. t - 1 : Hidden(Entry(d, l[j]))
<1> DEFINE o == <<c, 1>>
           l == Listing(d, o)
           r == Listing(d, l[i])
           N == Slots * LastCluster
           m == Len(l)
           n == Len(r)
<1>1. Follows(Along(d), l, o, N) /\ m \in Nat /\ l[m] \in {End, Lost}
  BY ListingEnds
<1>2. N \in Nat
  BY GeometryAssumption
<1>3. i \in 1 .. m
  OBVIOUS
<1> HIDE DEF o, N, l
<1>4. l[i] \in Spots
  BY <1>1, <1>3 DEF Follows
<1>5. Follows(Along(d), r, l[i], N)
  BY <1>4, ListingFollows DEF N
<1> HIDE DEF r
<1>6. /\ \A j \in 1 .. n : r[j] = l[i + j - 1] /\ i + j - 1 \in 1 .. m
      /\ r[n] \in {End, Lost}
  <2>1. Follows(Along(d), l, o, N) /\ l[Len(l)] \in {End, Lost} /\ i \in 1 .. Len(l)
    BY <1>1, <1>3
  <2> QED
    BY ONLY <1>2, <1>5, <2>1, RestOfListing
<1>7. IsList(r) /\ n \in Nat /\ n >= 1
  BY <1>2, <1>5 DEF Follows, IsList
<1>8. PICK s \in 1 .. n : /\ FirstShown(d, r) = r[s]
                          /\ s = n \/ ~Hidden(Entry(d, r[s]))
                          /\ \A j \in 1 .. s - 1 : Hidden(Entry(d, r[j]))
  BY <1>7, ShownFirst
<1> HIDE DEF m, n
<1> DEFINE t == i + s - 1
<1>9. t \in i .. m /\ r[s] = l[t]
  BY <1>1, <1>3, <1>6, <1>7
<1>10. s = n => t = m
  <2> SUFFICES ASSUME s = n, t # m PROVE FALSE
    OBVIOUS
  <2>1. t + 1 \in 2 .. m /\ (t + 1) - 1 = t
    BY <1>1, <1>3, <1>9
  <2>2. l[(t + 1) - 1] \in Places
    BY <1>1, <2>1 DEF Follows, m
  <2> QED
    BY <1>6, <1>9, <2>1, <2>2, SpotsAre
<1>11. ASSUME NEW j \in i .. t - 1 PROVE Hidden(Entry(d, l[j]))
  <2>1. j - i + 1 \in 1 .. s - 1 /\ j - i + 1 \in 1 .. n /\ i + (j - i + 1) - 1 = j
    BY <1>3, <1>7
  <2>2. r[j - i + 1] = l[j]
    BY <1>6, <2>1
  <2> QED
    BY <1>8, <2>1, <2>2
<1> HIDE DEF t
<1>12. \E x \in i .. m : /\ FirstShown(d, r) = l[x]
                         /\ x = m \/ ~Hidden(Entry(d, l[x]))
                         /\ \A j \in i .. x - 1 : Hidden(Entry(d, l[j]))
  BY <1>8, <1>9, <1>11, <1>10
<1> QED
  BY <1>12 DEF m, r, l, o

\* The first of the marked places from i on, the last place if there is none.
Marked(V, m, i, t) == t \in i .. m /\ (t = m \/ t \in V) /\ \A j \in i .. t - 1 : j \notin V

\* A walk that goes from each marked place of a list to the next meets all of them, each once.
Meets(w, n, l, m, V, Out) ==
    /\ m \in Nat /\ V \in SUBSET (1 .. m - 1) /\ n \in Nat /\ n >= 1
    /\ l[m] \in Out /\ \A v \in 1 .. m - 1 : l[v] \notin Out
    /\ \A i, j \in 1 .. m : l[i] = l[j] => i = j
    /\ \E t : Marked(V, m, 1, t) /\ w[1] = l[t]
    /\ \A k \in 2 .. n : w[k - 1] \notin Out
    /\ \A k \in 2 .. n, s \in V : w[k - 1] = l[s] =>
           \E t : Marked(V, m, s + 1, t) /\ IF t = m THEN w[k] \in Out ELSE w[k] = l[t]
    /\ w[n] \in Out \/ n >= m

LEMMA MarkedMet ==
    ASSUME NEW w, NEW n, NEW l, NEW m, NEW V, NEW Out, Meets(w, n, l, m, V, Out)
    PROVE  /\ \A k \in 1 .. n : w[k] \notin Out => \E v \in V : w[k] = l[v]
           /\ \A v \in V : \E k \in 1 .. n : w[k] = l[v]
           /\ \A i, j \in 1 .. n : i # j => w[i] # w[j]
<1> DEFINE At(k, t) ==
             /\ t \in k .. m
             /\ IF t = m THEN w[k] \in Out ELSE t \in V /\ w[k] = l[t]
             /\ \A j \in 1 .. k - 1 : \E s \in V : s < t /\ w[j] = l[s]
             /\ \A s \in V : s < t => \E j \in 1 .. k - 1 : w[j] = l[s]
           T == {k \in 0 .. n : k = 0 \/ \E t : At(k, t)}
<1>1. m \in Nat /\ n \in Nat /\ n >= 1 /\ V \in SUBSET (1 .. m - 1)
  BY DEF Meets
<1>2. /\ l[m] \in Out /\ \A v \in 1 .. m - 1 : l[v] \notin Out
      /\ \A i, j \in 1 .. m : l[i] = l[j] => i = j
  BY DEF Meets
<1>3. /\ \E t : Marked(V, m, 1, t) /\ w[1] = l[t]
      /\ \A k \in 2 .. n : w[k - 1] \notin Out
      /\ w[n] \in Out \/ n >= m
  BY DEF Meets
<1>4. \A k \in 2 .. n, s \in V : w[k - 1] = l[s] =>
          \E t : Marked(V, m, s + 1, t) /\ IF t = m THEN w[k] \in Out ELSE w[k] = l[t]
  BY DEF Meets
<1>5. 0 \in T
  BY <1>1
<1>6. ASSUME NEW k \in 1 .. n, k - 1 \in T PROVE k \in T
  <2>1. CASE k = 1
    <3>1. PICK t : Marked(V, m, 1, t) /\ w[1] = l[t]
      BY <1>3
    <3>2. t \in 1 .. m /\ (t = m \/ t \in V) /\ \A j \in 1 .. t - 1 : j \notin V
      BY <1>1, <3>1 DEF Marked
    <3>3. \A s \in V : ~(s < t)
      BY <1>1, <3>2
    <3>4. ~\E j \in 1 .. k - 1 : TRUE
      BY <2>1
    <3>5. t # m => t \in V
      BY <3>2
    <3>6. At(1, t)
      BY <1>2, <2>1, <3>1, <3>2, <3>3, <3>4, <3>5
    <3> HIDE DEF At
    <3> QED
      BY <2>1, <3>6
  <2>2. CASE k # 1
    <3>1. k \in 2 .. n /\ k - 1 # 0 /\ k - 1 \in 1 .. n
      BY <1>1, <2>2
    <3>2. PICK u : At(k - 1, u)
      BY <1>6, <3>1
    <3>3. w[k - 1] \notin Out
      BY <1>3, <3>1
    <3>4. u # m /\ u \in V /\ w[k - 1] = l[u] /\ u \in k - 1 .. m
      BY <3>2, <3>3
    <3>5. PICK t : Marked(V, m, u + 1, t) /\ IF t = m THEN w[k] \in Out ELSE w[k] = l[t]
      BY <1>4, <3>1, <3>4
    <3>6. t \in u + 1 .. m /\ (t = m \/ t \in V) /\ \A j \in u + 1 .. t - 1 : j \notin V
      BY <1>1, <3>4, <3>5 DEF Marked
    <3>7. u \in Nat /\ t \in k .. m /\ u < t
      BY <1>1, <3>1, <3>4, <3>6
    <3>8. IF t = m THEN w[k] \in Out ELSE t \in V /\ w[k] = l[t]
      BY <3>5, <3>6
    <3>9. ASSUME NEW j \in 1 .. k - 1 PROVE \E s \in V : s < t /\ w[j] = l[s]
      <4>1. CASE j = k - 1
        BY <1>1, <3>4, <3>7, <4>1
      <4>2. CASE j # k - 1
        <5>1. j \in 1 .. (k - 1) - 1
          BY <1>1, <3>1, <4>2
        <5>2. PICK s \in V : s < u /\ w[j] = l[s]
          BY <3>2, <5>1
        <5>3. s < t
          BY <1>1, <3>7, <5>2
        <5> QED
          BY <5>2, <5>3
      <4> QED
        BY <4>1, <4>2
    <3>10. ASSUME NEW s \in V, s < t PROVE \E j \in 1 .. k - 1 : w[j] = l[s]
      <4>1. CASE s < u
        <5>1. PICK j \in 1 .. (k - 1) - 1 : w[j] = l[s]
          BY <3>2, <4>1
        <5>2. j \in 1 .. k - 1
          BY <1>1, <3>1
        <5> QED
          BY <5>1, <5>2
      <4>2. CASE s = u
        <5>1. k - 1 \in 1 .. k - 1
          BY <1>1, <3>1
        <5> QED
          BY <3>4, <4>2, <5>1
      <4>3. CASE ~(s < u) /\ s # u
        <5>1. s \in u + 1 .. t - 1
          BY <1>1, <3>7, <3>10, <4>3
        <5> QED
          BY <3>6, <5>1
      <4> QED
        BY <4>1, <4>2, <4>3
    <3>11. At(k, t)
      BY <3>7, <3>8, <3>9, <3>10
    <3> HIDE DEF At
    <3> QED
      BY <3>11
  <2> QED
    BY <2>1, <2>2
<1> HIDE DEF T
<1>7. \A k \in 0 .. n : k \in T
  BY ONLY <1>1, <1>5, <1>6, StepByStep
<1>8. ASSUME NEW k \in 1 .. n PROVE \E t : At(k, t)
  <2> HIDE DEF At
  <2>1. k \in 0 .. n /\ k # 0
    BY <1>1
  <2> QED
    BY <1>7, <2>1 DEF T
<1>9. w[n] \in Out /\ (\A j \in 1 .. n - 1 : \E s \in V : w[j] = l[s])
                     /\ \A s \in V : \E j \in 1 .. n - 1 : w[j] = l[s]
  <2>1. PICK t : At(n, t)
    <3> HIDE DEF At
    <3> QED
      BY <1>1, <1>8
  <2>2. t = m
    <3> SUFFICES ASSUME t # m PROVE FALSE
      OBVIOUS
    <3>1. t \in V /\ w[n] = l[t] /\ t \in n .. m
      BY <2>1
    <3> QED
      BY <1>1, <1>2, <1>3, <3>1
  <2>3. \A s \in V : s < t
    BY <1>1, <2>2
  <2> QED
    BY <2>1, <2>2, <2>3
<1>10. \A v \in V : v \in 1 .. m - 1 /\ v \in 1 .. m /\ l[v] \notin Out
  BY <1>1, <1>2
<1>11. /\ \A k \in 1 .. n : w[k] \notin Out => \E v \in V : w[k] = l[v]
       /\ \A v \in V : \E k \in 1 .. n : w[k] = l[v]
  <2>1. ASSUME NEW k \in 1 .. n, w[k] \notin Out PROVE \E v \in V : w[k] = l[v]
    <3>1. k \in 1 .. n - 1
      BY <1>1, <1>9, <2>1
    <3> QED
      BY <1>9, <3>1
  <2>2. ASSUME NEW v \in V PROVE \E k \in 1 .. n : w[k] = l[v]
    <3>1. \A k \in 1 .. n - 1 : k \in 1 .. n
      BY <1>1
    <3> QED
      BY <1>9, <3>1
  <2> QED
    BY <2>1, <2>2
<1>12. ASSUME NEW i \in 1 .. n, NEW j \in 1 .. n, i < j PROVE w[i] # w[j]
  <2>1. PICK t : At(j, t)
    <3> HIDE DEF At
    <3> QED
      BY <1>8
  <2>2. i \in 1 .. j - 1
    BY <1>1, <1>12
  <2>3. PICK s \in V : s < t /\ w[i] = l[s]
    BY <2>1, <2>2
  <2>4. CASE t = m
    BY <1>10, <2>1, <2>3, <2>4
  <2>5. CASE t # m
    <3>1. w[j] = l[t] /\ t \in V
      BY <2>1, <2>5
    <3>2. s \in 1 .. m /\ t \in 1 .. m /\ s # t
      BY <1>1, <1>10, <2>3, <3>1
    <3>3. l[s] # l[t]
      BY <1>2, <3>2
    <3> QED
      BY <2>3, <3>1, <3>3
  <2> QED
    BY <2>4, <2>5
<1>13. ASSUME NEW i \in 1 .. n, NEW j \in 1 .. n, i # j PROVE w[i] # w[j]
  <2>1. i < j \/ j < i
    BY <1>13
  <2> QED
    BY <1>12, <2>1
<1> QED
  BY <1>11, <1>13

\* On the disks the driver leaves, main()'s walk shows the root directory, each entry once.
LEMMA RootShown ==
    ASSUME NEW d, IsDisk(d), Consistent(d)
    PROVE  LET w == ListFrom(d, GetChild(d, Start))
               l == Listing(d, <<Root, 1>>)
           IN  /\ ToSet(w) \ {End, Lost} = InDirectory(d, Root)
               /\ \A i, j \in DOMAIN w : i # j => w[i] # w[j]
               /\ w[Len(w)] = Lost =>
                      l[Len(l)] = Lost \/ (Len(l) > 1 /\ Hidden(Entry(d, l[Len(l) - 1])))
<1> DEFINE o == <<Root, 1>>
           l == Listing(d, o)
           m == Len(l)
           N == Slots * LastCluster
           Out == {End, Lost}
           V == {v \in 1 .. m - 1 : ~Hidden(Entry(d, l[v]))}
           p == GetChild(d, Start)
           w == ListFrom(d, p)
           n == Len(w)
<1>1. IsHead(d, Root)
  BY DEF Consistent
<1>2. /\ Follows(Along(d), l, o, N) /\ m \in Nat
      /\ l[m] \in Out
      /\ \A i \in 1 .. m - 1 : l[i] \in Places
      /\ \A i, j \in 1 .. m : l[i] = l[j] => i = j
  BY <1>1, ListingEnds
<1>3. ASSUME NEW i \in 1 .. m
      PROVE  \E t : /\ Marked(V, m, i, t)
                    /\ FirstShown(d, Listing(d, l[i])) = l[t]
  <2>1. PICK t \in i .. m : /\ FirstShown(d, Listing(d, l[i])) = l[t]
                            /\ t = m \/ ~Hidden(Entry(d, l[t]))
                            /\ \A j \in i .. t - 1 : Hidden(Entry(d, l[j]))
    BY <1>1, ShownFrom
  <2>2. t = m \/ t \in V
    <3> HIDE DEF l
    <3>1. t # m => t \in 1 .. m - 1
      BY <1>2
    <3> QED
      BY <2>1, <3>1
  <2>3. Marked(V, m, i, t)
    <3> HIDE DEF l, m
    <3> QED
      BY <2>1, <2>2 DEF Marked
  <2> HIDE DEF V, m, l
  <2> QED
    BY <2>1, <2>3
<1>4. p = FirstShown(d, l)
  <2>1. Start.at = o
    BY DEF Start, RootNode, Nothing
  <2> QED
    BY <2>1 DEF GetChild, FirstShown
<1>5. \A q : Onto(Along(d), q) = NextEntry(d, q)
  BY DEF Along, Onto
<1>6. \A q : Onto(Across(d), q) = Iterate(d, q)
  BY DEF Across, Onto
<1>7. \A q : Iterate(d, q) = Skipped(NextEntry(d, q), FirstShown(d, Listing(d, NextEntry(d, q))))
  BY DEF Iterate, FirstShown
<1>8. N \in Nat
  BY GeometryAssumption
<1>9. \A i \in 1 .. m - 1 : ~Hidden(Entry(d, l[i])) => i \in V
  OBVIOUS
<1>10. /\ \A i \in V : i \in 1 .. m - 1 /\ ~Hidden(Entry(d, l[i]))
       /\ \A i \in 1 .. m - 1 : i \notin V => Hidden(Entry(d, l[i]))
  OBVIOUS
<1>11. InDirectory(d, Root) = {q \in ToSet(l) : q \in Places /\ ~Hidden(Entry(d, q))}
  BY DEF InDirectory
<1> HIDE DEF N, V, p, w, l, o
<1>12. m >= 1 /\ m <= N + 1 /\ l[1] = o /\ (\A i \in 2 .. m : l[i] = NextEntry(d, l[i - 1]))
       /\ \A i \in 1 .. m : l[i] \in Spots
  BY <1>2, <1>5, <1>8 DEF Follows
<1>13. DOMAIN l = 1 .. m
  BY <1>2 DEF Follows, IsList
<1> HIDE DEF m
<1>14. \E t : Marked(V, m, 1, t) /\ p = l[t]
  <2>1. 1 \in 1 .. m
    BY <1>2, <1>12
  <2>2. PICK t : Marked(V, m, 1, t) /\ FirstShown(d, Listing(d, l[1])) = l[t]
    BY <1>3, <2>1
  <2> QED
    BY <1>4, <1>12, <2>2 DEF l
<1>15. p \in Spots
  BY <1>2, <1>12, <1>14 DEF Marked
<1>16. Follows(Across(d), w, p, N)
  BY <1>15, ListFromFollows DEF w, N
<1>17. /\ n \in Nat /\ n >= 1 /\ w[1] = p
       /\ \A k \in 2 .. n : w[k - 1] \in Places /\ w[k] = Iterate(d, w[k - 1])
       /\ w[n] \in Out \/ n = N + 1
  BY <1>6, <1>8, <1>16 DEF Follows, IsList
<1>18. DOMAIN w = 1 .. n
  BY <1>16 DEF Follows, IsList
<1> HIDE DEF n
<1>19. ASSUME NEW k \in 2 .. n, NEW s \in V, w[k - 1] = l[s]
       PROVE  \E t : Marked(V, m, s + 1, t) /\ IF t = m THEN w[k] \in Out ELSE w[k] = l[t]
  <2>1. s + 1 \in 2 .. m /\ s + 1 \in 1 .. m /\ (s + 1) - 1 = s
    BY <1>2, <1>10
  <2>2. NextEntry(d, l[s]) = l[s + 1]
    BY <1>12, <2>1
  <2>3. PICK t : Marked(V, m, s + 1, t) /\ FirstShown(d, Listing(d, l[s + 1])) = l[t]
    BY <1>3, <2>1
  <2>4. w[k] = Skipped(l[s + 1], l[t])
    BY <1>7, <1>17, <1>19, <2>2, <2>3
  <2>5. t # m => l[t] \in Places
    BY <1>2, <2>1, <2>3 DEF Marked
  <2>6. IF t = m THEN w[k] \in Out ELSE w[k] = l[t]
    BY <1>2, <2>4, <2>5, SpotsAre DEF Skipped
  <2> QED
    BY <2>3, <2>6
<1>20. /\ V \in SUBSET (1 .. m - 1) /\ \A v \in 1 .. m - 1 : l[v] \notin Out
       /\ \A k \in 2 .. n : w[k - 1] \notin Out
       /\ w[n] \in Out \/ n >= m
  BY <1>2, <1>8, <1>10, <1>12, <1>17, SpotsAre
<1>21. \E t : Marked(V, m, 1, t) /\ w[1] = l[t]
  BY <1>14, <1>17
<1> HIDE DEF Out
<1>22. /\ \A k \in 1 .. n : w[k] \notin Out => \E v \in V : w[k] = l[v]
       /\ \A v \in V : \E k \in 1 .. n : w[k] = l[v]
       /\ \A i, j \in 1 .. n : i # j => w[i] # w[j]
  <2>1. Meets(w, n, l, m, V, Out)
    BY <1>2, <1>17, <1>19, <1>20, <1>21 DEF Meets
  <2> QED
    BY ONLY <2>1, MarkedMet
<1>23. ToSet(w) = {w[k] : k \in 1 .. n}
  BY <1>18 DEF ToSet
<1>24. InDirectory(d, Root) = {l[v] : v \in V}
  <2>1. ASSUME NEW q \in ToSet(l), q \in Places, ~Hidden(Entry(d, q)) PROVE \E v \in V : q = l[v]
    <3>1. PICK i \in 1 .. m : q = l[i]
      BY <1>13, <2>1 DEF ToSet
    <3>2. i # m
      BY <1>2, <2>1, <3>1, SpotsAre DEF Out
    <3>3. i \in V
      BY <1>2, <1>9, <2>1, <3>1, <3>2
    <3> QED
      BY <3>1, <3>3
  <2>2. ASSUME NEW v \in V PROVE l[v] \in ToSet(l) /\ l[v] \in Places /\ ~Hidden(Entry(d, l[v]))
    <3>1. v \in 1 .. m - 1 /\ v \in 1 .. m
      BY <1>2, <1>10
    <3> QED
      BY <1>2, <1>10, <1>13, <3>1 DEF ToSet
  <2> QED
    BY <1>11, <2>1, <2>2
<1>25. \A v \in V : l[v] \notin Out
  BY <1>10, <1>20
<1>26. ToSet(w) \ Out = InDirectory(d, Root)
  <2> HIDE DEF V
  <2> QED
    BY <1>22, <1>23, <1>24, <1>25
\* fat_iterate runs off the end only over deleted entries.
<1>27. ASSUME w[n] = Lost, l[m] # Lost PROVE m > 1 /\ Hidden(Entry(d, l[m - 1]))
  <2>1. l[m] = End
    BY <1>2, <1>27 DEF Out
  <2>2. \A t \in 1 .. m : t # m => l[t] \in Places /\ l[t] # Lost /\ l[t] # End
    <3>1. \A t \in 1 .. m : t # m => t \in 1 .. m - 1
      BY <1>2
    <3> QED
      BY <1>2, <3>1, SpotsAre
  <2>3. n # 1
    <3> SUFFICES ASSUME n = 1 PROVE FALSE
      OBVIOUS
    <3>1. PICK t : Marked(V, m, 1, t) /\ w[1] = l[t]
      BY <1>21
    <3> QED
      BY <1>27, <2>2, <3>1 DEF Marked
  <2>4. n \in 2 .. n /\ n - 1 \in 1 .. n
    BY <1>17, <2>3
  <2>5. PICK s \in V : w[n - 1] = l[s]
    BY <1>20, <1>22, <2>4
  <2>6. s + 1 \in 1 .. m /\ s + 1 \in 2 .. m /\ (s + 1) - 1 = s
    BY <1>2, <1>10
  <2>7. NextEntry(d, l[s]) = l[s + 1]
    BY <1>12, <2>6
  <2>8. PICK t : Marked(V, m, s + 1, t) /\ FirstShown(d, Listing(d, l[s + 1])) = l[t]
    BY <1>3, <2>6
  <2>9. Skipped(l[s + 1], l[t]) = Lost
    BY <1>7, <1>17, <1>27, <2>4, <2>5, <2>7, <2>8
  <2>10. t \in s + 1 .. m /\ \A j \in s + 1 .. t - 1 : j \notin V
    BY <2>8 DEF Marked
  <2>11. t = m
    <3>1. t \in 1 .. m
      BY <1>2, <2>6, <2>10
    <3> QED
      BY <2>2, <2>9, <3>1 DEF Skipped
  <2>12. s + 1 # m
    <3>1. <<0, 0>> # <<0, 1>>
      OBVIOUS
    <3>2. End # Lost
      BY <3>1 DEF End, Lost
    <3> QED
      BY <2>1, <2>9, <2>11, <3>2 DEF Skipped
  <2>13. m - 1 \in s + 1 .. t - 1 /\ m - 1 \in 1 .. m - 1
    BY <1>2, <2>6, <2>11, <2>12
  <2> QED
    BY <1>2, <1>10, <2>10, <2>13
<1> QED
  BY <1>18, <1>22, <1>26, <1>27 DEF w, p, l, o, m, n, Out

\* On a disk of any size, after whatever calls and crashes: main()'s walk, which asks fat_get_child
\* once and then fat_iterate until there is nothing left, shows every entry of the root directory,
\* in whichever of its clusters it lies, and shows none of them twice. It runs off the end of a
\* directory only if that is full or its last entry is a deleted one.
THEOREM ListsWhole == Spec => []ListingWhole
<1>1. StateInv => ListingWhole
  BY RootShown DEF StateInv, ListingWhole, Last
<1> QED
  BY <1>1, StatesKept, PTL
=============================================================================
