------------------------ MODULE Multitasking_proofs ------------------------
(***************************************************************************)
(* Proofs about Multitasking, for any set of control blocks, any boot      *)
(* script and any signals.                                                 *)
(***************************************************************************)
EXTENDS Multitasking, SequenceTheorems, TLAPS

LEMMA RemoveAtFacts ==
  ASSUME NEW S, NEW s \in Seq(S), NEW i \in 1..Len(s)
  PROVE  /\ RemoveAt(s, i) \in Seq(S)
         /\ Len(RemoveAt(s, i)) = Len(s) - 1
         /\ \A k \in 1..(Len(s) - 1) :
              RemoveAt(s, i)[k] = IF k < i THEN s[k] ELSE s[k + 1]
<1> DEFINE a == SubSeq(s, 1, i - 1)
           b == SubSeq(s, i + 1, Len(s))
<1>0. Len(s) \in Nat /\ i \in Nat /\ \A k \in 1..Len(s) : s[k] \in S
  BY LenProperties, ElementOfSeq
<1>1. a \in Seq(S) /\ Len(a) = i - 1 /\ \A k \in 1..(i - 1) : a[k] = s[k]
  <2>1. 1 \in Int /\ i - 1 \in Int /\ \A k \in 1..(i - 1) : s[k] \in S
    BY <1>0
  <2> QED BY <1>0, <2>1, SubSeqProperties
<1>2. b \in Seq(S) /\ Len(b) = Len(s) - i /\ \A k \in 1..(Len(s) - i) : b[k] = s[i + k]
  <2>1. i + 1 \in Int /\ Len(s) \in Int /\ \A k \in (i + 1)..Len(s) : s[k] \in S
    BY <1>0
  <2>2. /\ b \in Seq(S)
        /\ Len(b) = IF i + 1 <= Len(s) THEN Len(s) - (i + 1) + 1 ELSE 0
        /\ \A k \in 1..(Len(s) - (i + 1) + 1) : b[k] = s[i + 1 + k - 1]
    BY <2>1, SubSeqProperties
  <2> QED BY <1>0, <2>2
<1> HIDE DEF a, b
<1>3. /\ a \o b \in Seq(S)
      /\ Len(a \o b) = Len(a) + Len(b)
      /\ \A k \in 1..(Len(a) + Len(b)) :
           (a \o b)[k] = IF k <= Len(a) THEN a[k] ELSE b[k - Len(a)]
  BY <1>1, <1>2, ConcatProperties
<1>4. Len(a) + Len(b) = Len(s) - 1
  BY <1>0, <1>1, <1>2
<1>5. ASSUME NEW k \in 1..(Len(s) - 1)
      PROVE  (a \o b)[k] = IF k < i THEN s[k] ELSE s[k + 1]
  <2>1. CASE k < i
    BY <1>0, <1>1, <1>3, <1>4, <2>1
  <2>2. CASE ~(k < i)
    <3>1. k - Len(a) \in 1..(Len(s) - i) /\ i + (k - Len(a)) = k + 1 /\ ~(k <= Len(a))
      BY <1>0, <1>1, <2>2
    <3> QED BY <1>0, <1>2, <1>3, <1>4, <2>2, <3>1
  <2> QED BY <2>1, <2>2
<1> QED BY <1>3, <1>4, <1>5 DEF RemoveAt, a, b

-----------------------------------------------------------------------------
(***************************************************************************)
(* The inductive invariant.  SchedulerConsistent needs to know that the    *)
(* block append_process is about to list is not listed yet, which rests on *)
(* creations being kept apart although a tick may fall between any two of  *)
(* their steps.                                                            *)
(***************************************************************************)
Unlisted == {"alloc", "append"}
Creating == Unlisted \union {"start", "config", "resume"}

ChildrenApart ==
  /\ \A p \in Proc : th[p].pc \in Creating => th[p].child \in Proc
  /\ \A p \in Proc : th[p].pc \in Unlisted =>
       /\ Listed(p)
       /\ pcb[th[p].child].mem = "allocated"
       /\ ~Listed(th[p].child)
  /\ \A p, q \in Proc :
       /\ th[p].pc \in Unlisted /\ th[q].pc \in Unlisted
       /\ th[p].child = th[q].child
       => p = q

IndInv == TypeOK /\ SchedulerConsistent /\ ListedIsAllocated /\ ChildrenApart

LEMMA ListFacts ==
  ASSUME TypeOK
  PROVE  /\ Len(procs) \in Nat
         /\ DOMAIN procs = 1..Len(procs)
         /\ \A i \in DOMAIN procs : procs[i] \in Proc
BY LenProperties, ElementOfSeq DEF TypeOK

(***************************************************************************)
(* What the updates of a control block and of a thread's place do to the   *)
(* fields the invariant is about.                                          *)
(***************************************************************************)
LEMMA SaveFacts ==
  ASSUME NEW r \in Pcbs, NEW s \in BOOLEAN, NEW a \in Proc
  PROVE  LET v == [r EXCEPT !.intr = s, !.active = a]
         IN  v \in Pcbs /\ v.mem = r.mem
BY Zenon DEF Pcbs

LEMMA KilledFacts ==
  ASSUME NEW r \in Pcbs, NEW b \in BOOLEAN
  PROVE  LET v == [r EXCEPT !.killed = b]
         IN  v \in Pcbs /\ v.mem = r.mem /\ v.pid = r.pid
BY Zenon DEF Pcbs

LEMMA FreedFacts ==
  ASSUME NEW r \in Pcbs
  PROVE  [r EXCEPT !.killed = TRUE, !.mem = "freed"] \in Pcbs
BY Zenon DEF Pcbs

LEMMA ForkFacts ==
  ASSUME NEW r \in Pcbs, NEW parent \in Pcbs, NEW a \in Proc
  PROVE  LET v == [r EXCEPT !.system = parent.system, !.active = a,
                            !.kill = parent.kill, !.killed = FALSE]
         IN  v \in Pcbs /\ v.mem = r.mem
BY Zenon DEF Pcbs

LEMMA ConfigFacts ==
  ASSUME NEW r \in Pcbs, NEW k
  PROVE  LET v == [r EXCEPT
                     !.system = r.system \/ k \in {"dispatchd", "videod", "zombie"},
                     !.kill = IF k \in {"dispatchd", "zombie"} THEN "force_alive"
                              ELSE r.kill]
         IN  v \in Pcbs /\ v.mem = r.mem
BY Zenon DEF Pcbs

LEMMA ReturnFacts ==
  ASSUME NEW t \in Threads
  PROVE  Return(t) \in Threads /\ Return(t).pc \notin Creating
BY Zenon DEF Threads, Return, Creating, Unlisted

\* The initial state satisfies the invariant.
LEMMA InitInd == Init => IndInv
<1> SUFFICES ASSUME Init PROVE IndInv
  OBVIOUS
<1>1. procs \in Seq(Proc) /\ Len(procs) = 1 /\ DOMAIN procs = {1} /\ procs[1] = Init0
  <2>1. procs = <<Init0>>
    BY DEF Init
  <2> QED BY <2>1, Init0InProc
<1>2. TypeOK
  BY <1>1, Init0InProc
     DEF TypeOK, Init, Pcbs, Threads, FreshPcb, FreshThread, Kinds, Daemons
<1>3. SchedulerConsistent /\ ListedIsAllocated
  BY <1>1, Init0InProc DEF SchedulerConsistent, ListedIsAllocated, Listed, Init, FreshPcb
<1>4. ChildrenApart
  BY <1>1, Init0InProc DEF ChildrenApart, Init, FreshThread, Creating, Unlisted
<1> QED BY <1>2, <1>3, <1>4 DEF IndInv

\* A step that leaves the list alone and starts no creation.
LEMMA QuietStep ==
  ASSUME IndInv, TypeOK',
         UNCHANGED <<procs, proc_step, proc_count, current_process>>,
         \A p \in Proc : pcb'[p].mem = pcb[p].mem,
         \A p \in Proc : /\ th'[p].pc \in Creating =>
                              th[p].pc \in Creating /\ th'[p].child = th[p].child
                         /\ th'[p].pc \in Unlisted => th[p].pc \in Unlisted
  PROVE  IndInv'
<1>1. SchedulerConsistent' /\ ListedIsAllocated'
  BY ListFacts DEF IndInv, SchedulerConsistent, ListedIsAllocated, Listed
<1>2. \A p \in Proc : th'[p].pc \in Unlisted =>
         /\ th[p].pc \in Unlisted
         /\ th'[p].child = th[p].child
         /\ th[p].child \in Proc
  BY DEF IndInv, ChildrenApart, Creating
<1>3. ChildrenApart'
  BY <1>2 DEF IndInv, ChildrenApart, Listed
<1> QED BY <1>1, <1>3 DEF IndInv

\* A switch moves proc_step and current_process together, to a listed process.
LEMMA SwitchTaskInd ==
  ASSUME IndInv, NEW saved \in BOOLEAN, SwitchTask(saved), UNCHANGED Local
  PROVE  IndInv'
<1>1. CASE proc_count = 1
  BY <1>1, QuietStep DEF SwitchTask, Local, sched, IndInv, TypeOK
<1>2. CASE proc_count # 1
  <2>1. /\ pcb' \in [Proc -> Pcbs]
        /\ \A p \in Proc : pcb'[p].mem = pcb[p].mem
        /\ UNCHANGED <<procs, proc_count>>
    <3>1. SaveContext(saved) /\ UNCHANGED <<procs, proc_count>>
      BY <1>2 DEF SwitchTask
    <3>2. current_process \in Proc /\ active_process \in Proc /\ pcb \in [Proc -> Pcbs]
      BY DEF IndInv, TypeOK
    <3>3. PICK v \in Pcbs : /\ v.mem = pcb[current_process].mem
                            /\ pcb' = [pcb EXCEPT ![current_process] = v]
      BY <3>1, <3>2, SaveFacts, Zenon DEF SaveContext
    <3> QED BY <3>1, <3>2, <3>3
  <2>2. CASE NotKilled(pcb) = {}
    <3>1. TypeOK'
      BY <1>2, <2>1, <2>2 DEF SwitchTask, Local, IndInv, TypeOK
    <3> QED BY <1>2, <2>1, <2>2, <3>1, QuietStep DEF SwitchTask, Local
  <2>3. CASE NotKilled(pcb) # {}
    <3>1. PICK i \in DOMAIN procs : Dispatch(procs[i], pcb')
      BY <1>2, <2>3 DEF SwitchTask, NotKilled
    <3>2. procs[i] \in Proc /\ UNCHANGED mode
      BY <1>2, <2>3, ListFacts DEF SwitchTask, IndInv
    <3>3. TypeOK'
      BY <2>1, <3>1, <3>2 DEF Dispatch, Local, IndInv, TypeOK, Pcbs
    <3>4. SchedulerConsistent' /\ ListedIsAllocated'
      BY <2>1, <3>1, <3>2, ListFacts
         DEF Dispatch, IndInv, SchedulerConsistent, ListedIsAllocated, Listed
    <3>5. ChildrenApart'
      BY <2>1, ListFacts DEF Local, IndInv, ChildrenApart, Listed, Creating
    <3> QED BY <3>3, <3>4, <3>5 DEF IndInv
  <2> QED BY <2>2, <2>3
<1> QED BY <1>1, <1>2

\* Unlinking node i: who is listed afterwards, and that i's process no longer is.
LEMMA UnlinkFacts ==
  ASSUME IndInv, NEW i \in DOMAIN procs, procs' = RemoveAt(procs, i)
  PROVE  /\ procs' \in Seq(Proc)
         /\ Len(procs') = Len(procs) - 1
         /\ Len(procs) \in Nat \ {0}
         /\ \A k \in DOMAIN procs' : \E j \in DOMAIN procs \ {i} : procs'[k] = procs[j]
         /\ \A j \in DOMAIN procs \ {i} : \E k \in DOMAIN procs' : procs'[k] = procs[j]
         /\ \A k, m \in DOMAIN procs' : procs'[k] = procs'[m] => k = m
<1> DEFINE n == Len(procs)
           Old(k) == IF k < i THEN k ELSE k + 1
<1>1. n \in Nat /\ DOMAIN procs = 1..n /\ i \in 1..n /\ procs \in Seq(Proc)
  BY ListFacts DEF IndInv, TypeOK
<1>2. /\ procs' \in Seq(Proc)
      /\ Len(procs') = n - 1
      /\ \A k \in 1..(n - 1) : procs'[k] = IF k < i THEN procs[k] ELSE procs[k + 1]
  BY <1>1, RemoveAtFacts
<1>3. DOMAIN procs' = 1..(n - 1)
  BY <1>2, LenProperties
<1>4. \A k \in 1..(n - 1) : Old(k) \in (1..n) \ {i} /\ procs'[k] = procs[Old(k)]
  BY <1>1, <1>2
<1>5. ASSUME NEW j \in (1..n) \ {i} PROVE \E k \in 1..(n - 1) : procs'[k] = procs[j]
  <2>1. CASE j < i
    <3>1. j \in 1..(n - 1) /\ procs'[j] = procs[j]
      BY <1>1, <1>2, <2>1
    <3> QED BY <3>1
  <2>2. CASE j > i
    <3>1. j - 1 \in 1..(n - 1) /\ ~(j - 1 < i) /\ (j - 1) + 1 = j
      BY <1>1, <2>2
    <3>2. procs'[j - 1] = procs[j]
      BY <1>2, <3>1
    <3> QED BY <3>1, <3>2
  <2> QED BY <1>1, <2>1, <2>2
<1>6. ASSUME NEW k \in 1..(n - 1), NEW m \in 1..(n - 1), procs'[k] = procs'[m]
      PROVE  k = m
  <2>1. Old(k) = Old(m)
    BY <1>1, <1>4, <1>6 DEF IndInv, SchedulerConsistent
  <2> QED BY <1>1, <2>1
<1>7. \A k \in DOMAIN procs' : \E j \in DOMAIN procs \ {i} : procs'[k] = procs[j]
  BY <1>1, <1>3, <1>4
<1>8. \A j \in DOMAIN procs \ {i} : \E k \in DOMAIN procs' : procs'[k] = procs[j]
  BY <1>1, <1>3, <1>5
<1>9. \A k, m \in DOMAIN procs' : procs'[k] = procs'[m] => k = m
  BY <1>3, <1>6
<1>10. Len(procs) \in Nat \ {0}
  BY <1>1
<1> QED BY <1>2, <1>7, <1>8, <1>9, <1>10

\* What is left of the invariant's last part when a listed process disappears,
\* for threads th' that create at most what they created before.
LEMMA UnlinkApart ==
  ASSUME IndInv, NEW i \in DOMAIN procs, procs' = RemoveAt(procs, i),
         \A p \in Proc : p # procs[i] => pcb'[p].mem = pcb[p].mem,
         \A p \in Proc : th'[p].pc \in Creating => th'[p] = th[p],
         th'[procs[i]].pc \notin Creating
  PROVE  ChildrenApart'
<1>1. /\ \A k \in DOMAIN procs' : \E j \in DOMAIN procs \ {i} : procs'[k] = procs[j]
      /\ \A j \in DOMAIN procs \ {i} : \E k \in DOMAIN procs' : procs'[k] = procs[j]
  BY UnlinkFacts
<1>2. \A q : Listed(q)' => Listed(q)
  BY <1>1 DEF Listed
<1>3. \A q : Listed(q) /\ q # procs[i] => Listed(q)'
  BY <1>1 DEF Listed
<1>4. ASSUME NEW p \in Proc, th'[p].pc \in Unlisted
      PROVE  /\ th'[p] = th[p] /\ th[p].pc \in Unlisted
             /\ p # procs[i] /\ th[p].child \in Proc /\ th[p].child # procs[i]
             /\ Listed(p) /\ pcb[th[p].child].mem = "allocated" /\ ~Listed(th[p].child)
  BY <1>4 DEF IndInv, ChildrenApart, Creating, Listed
<1>5. (\A p \in Proc : th[p].pc \in Creating => th[p].child \in Proc)'
  BY DEF IndInv, ChildrenApart
<1>6. ASSUME NEW p \in Proc, th'[p].pc \in Unlisted
      PROVE  /\ Listed(p)'
             /\ pcb'[th'[p].child].mem = "allocated"
             /\ ~(Listed(th[p].child)')
  BY <1>2, <1>3, <1>4, <1>6
<1>7. \A p \in Proc : th'[p].pc \in Unlisted => th'[p] = th[p]
  BY <1>4
<1>8. (\A p \in Proc : th[p].pc \in Unlisted =>
         /\ Listed(p)
         /\ pcb[th[p].child].mem = "allocated"
         /\ ~Listed(th[p].child))'
  BY <1>6, <1>7 DEF Listed
<1>9. (\A p, q \in Proc :
         /\ th[p].pc \in Unlisted /\ th[q].pc \in Unlisted
         /\ th[p].child = th[q].child
         => p = q)'
  BY <1>4 DEF IndInv, ChildrenApart
<1> QED BY <1>5, <1>8, <1>9 DEF ChildrenApart

\* The end of a process, of whichever node kill found for the pid.
LEMMA KillNodeInd ==
  ASSUME IndInv, NEW i \in DOMAIN procs,
         NEW blocks \in [Proc -> Pcbs],
         \A p \in Proc : blocks[p].mem = pcb[p].mem /\ blocks[p].pid = pcb[p].pid,
         KillNode(i, blocks), UNCHANGED <<pid_top, daemon, boot>>
  PROVE  IndInv'
<1> DEFINE p == procs[i]
<1>0. p \in Proc /\ current_process \in Proc /\ procs \in Seq(Proc)
  BY ListFacts DEF IndInv, TypeOK
<1>1. FreshThread(p) \in Threads /\ FreshThread(p).pc \notin Creating
  BY <1>0 DEF FreshThread, Threads, Creating, Unlisted
<1>2. ASSUME Unlink(i, blocks)
      PROVE  /\ procs' = RemoveAt(procs, i)
             /\ pcb' \in [Proc -> Pcbs]
             /\ \A q \in Proc : q # p => pcb'[q] = blocks[q]
             /\ proc_count' = Len(procs') /\ proc_count' \in Nat
             /\ ListedIsAllocated'
             /\ (\A k, m \in DOMAIN procs : procs[k] = procs[m] => k = m)'
  <2>1. /\ procs' = RemoveAt(procs, i)
        /\ proc_count' = proc_count - 1
        /\ pcb' = [blocks EXCEPT ![p] = [blocks[p] EXCEPT !.killed = TRUE, !.mem = "freed"]]
    BY <1>2 DEF Unlink
  <2>2. pcb' \in [Proc -> Pcbs] /\ \A q \in Proc : q # p => pcb'[q] = blocks[q]
    <3>1. PICK v \in Pcbs : pcb' = [blocks EXCEPT ![p] = v]
      BY <1>0, <2>1, FreedFacts, Zenon
    <3> QED BY <1>0, <3>1
  <2>3. proc_count' = Len(procs') /\ proc_count' \in Nat
    BY <2>1, UnlinkFacts DEF IndInv, SchedulerConsistent
  <2>4. \A k \in DOMAIN procs' : \E j \in DOMAIN procs \ {i} : procs'[k] = procs[j]
    BY <2>1, UnlinkFacts
  <2>5. \A j \in DOMAIN procs \ {i} : procs[j] # p /\ procs[j] \in Proc
    BY ListFacts DEF IndInv, SchedulerConsistent
  <2>6. ListedIsAllocated'
    BY <2>2, <2>4, <2>5 DEF ListedIsAllocated, IndInv
  <2> QED BY <2>1, <2>2, <2>3, <2>6, UnlinkFacts
<1>3. CASE /\ blocks[p].pid # blocks[current_process].pid
           /\ Unlink(i, blocks)
           /\ th' = [th EXCEPT ![p] = FreshThread(p)]
           /\ UNCHANGED <<proc_step, current_process, active_process, intr, mode>>
  <2>1. TypeOK'
    BY <1>0, <1>1, <1>2, <1>3, UnlinkFacts DEF IndInv, TypeOK
  <2>2. Listed(current_process)'
    <3>1. PICK j \in DOMAIN procs : procs[j] = current_process
      BY DEF IndInv, SchedulerConsistent, Listed
    <3>2. j # i
      BY <1>3, <3>1
    <3> QED BY <1>2, <1>3, <3>1, <3>2, UnlinkFacts DEF Listed
  <2>3. SchedulerConsistent'
    BY <1>2, <1>3, <2>2 DEF IndInv, SchedulerConsistent
  <2>4. ChildrenApart'
    BY <1>0, <1>1, <1>2, <1>3, UnlinkApart DEF IndInv, TypeOK
  <2> QED BY <1>2, <1>3, <2>1, <2>3, <2>4 DEF IndInv
<1>4. CASE /\ mode' = "hung" /\ intr' = FALSE
           /\ pcb' = [blocks EXCEPT ![p].killed = TRUE]
           /\ UNCHANGED <<sched, th>>
  <2>1. PICK v \in Pcbs : v.mem = blocks[p].mem /\ pcb' = [blocks EXCEPT ![p] = v]
    BY <1>0, <1>4, KilledFacts, Zenon
  <2>2. pcb' \in [Proc -> Pcbs] /\ \A q \in Proc : pcb'[q].mem = pcb[q].mem
    BY <1>0, <2>1
  <2>3. TypeOK'
    BY <1>4, <2>2 DEF sched, IndInv, TypeOK
  <2> QED BY <1>4, <2>2, <2>3, QuietStep DEF sched
<1>5. CASE /\ Unlink(i, blocks)
           /\ \E j \in NotKilled(blocks) \ {i} : Dispatch(procs[j], blocks)
           /\ th' = [th EXCEPT ![current_process].pc = "stale", ![p] = FreshThread(p)]
           /\ UNCHANGED mode
  <2>1. PICK j \in DOMAIN procs \ {i} : Dispatch(procs[j], blocks)
    BY <1>5 DEF NotKilled
  <2>2. procs[j] \in Proc
    BY ListFacts DEF IndInv
  <2>3. /\ th' \in [Proc -> Threads]
        /\ th'[p].pc \notin Creating
        /\ \A q \in Proc : th'[q].pc \in Creating => th'[q] = th[q]
    <3>1. th' = [[th EXCEPT ![current_process] = [th[current_process] EXCEPT !.pc = "stale"]]
                   EXCEPT ![p] = FreshThread(p)]
      BY <1>5, Zenon
    <3>2. PICK v \in Threads :
             /\ v.pc = "stale"
             /\ th' = [[th EXCEPT ![current_process] = v] EXCEPT ![p] = FreshThread(p)]
      <4>1. th[current_process] \in Threads
        BY <1>0 DEF IndInv, TypeOK
      <4>2. LET v == [th[current_process] EXCEPT !.pc = "stale"]
            IN  v \in Threads /\ v.pc = "stale"
        BY <4>1, Zenon DEF Threads
      <4> QED BY <3>1, <4>2, Zenon
    <3> QED BY <1>0, <1>1, <3>2 DEF IndInv, TypeOK, Creating, Unlisted
  <2>4. TypeOK'
    <3>1. procs' \in Seq(Proc)
      BY <1>2, <1>5, UnlinkFacts
    <3>2. blocks[procs[j]].active \in Proc /\ blocks[procs[j]].intr \in BOOLEAN
      BY <2>2 DEF Pcbs
    <3> QED BY <1>2, <1>5, <2>1, <2>2, <2>3, <3>1, <3>2 DEF Dispatch, IndInv, TypeOK
  <2>5. Listed(current_process)'
    BY <1>2, <1>5, <2>1, UnlinkFacts DEF Dispatch, Listed
  <2>6. SchedulerConsistent'
    BY <1>2, <1>5, <2>1, <2>5 DEF Dispatch, SchedulerConsistent
  <2>7. ChildrenApart'
    BY <1>2, <1>5, <2>3, UnlinkApart
  <2> QED BY <1>2, <1>5, <2>4, <2>6, <2>7 DEF IndInv
<1> QED BY <1>3, <1>4, <1>5 DEF KillNode

\* alloc_process hands out a block that is neither listed nor being created.
LEMMA AllocProcessInd ==
  ASSUME IndInv, NEW k \in Kinds, AllocProcess(k)
  PROVE  IndInv'
<1> DEFINE p == CHOOSE q \in Proc : pcb[q].mem = "unused"
           t == [th[current_process] EXCEPT !.pc = "alloc", !.home = Me.pc, !.child = p]
<1>1. p \in Proc /\ pcb[p].mem = "unused"
  BY DEF AllocProcess
<1>2. current_process \in Proc /\ pid_top \in Nat
  BY DEF IndInv, TypeOK
<1>3. FreshPcb(p, k, pid_top) \in Pcbs /\ FreshPcb(p, k, pid_top).mem = "allocated"
  BY <1>1, <1>2 DEF FreshPcb, Pcbs
<1>4. /\ pcb' = [pcb EXCEPT ![p] = FreshPcb(p, k, pid_top)]
      /\ th' = [th EXCEPT ![current_process] = t]
      /\ UNCHANGED <<sched, pid_top, daemon, intr, mode>>
      /\ boot' \in Nat
  BY DEF AllocProcess, Creates, IndInv, TypeOK
<1>5. t \in Threads /\ t.child = p
  <2>1. Me \in Threads /\ Me.pc \in {"run", "syscall", "handler"}
    BY <1>2 DEF AllocProcess, Creates, IndInv, TypeOK, Me
  <2> QED BY <1>1, <2>1, Zenon DEF Threads, Me
<1> HIDE DEF p, t
<1>6. TypeOK'
  BY <1>1, <1>2, <1>3, <1>4, <1>5 DEF sched, IndInv, TypeOK
<1>7. \A i \in DOMAIN procs : procs[i] \in Proc /\ procs[i] # p
  BY <1>1, ListFacts DEF IndInv, ListedIsAllocated
<1>8. SchedulerConsistent' /\ ListedIsAllocated'
  BY <1>1, <1>4, <1>7 DEF sched, IndInv, TypeOK, SchedulerConsistent, ListedIsAllocated, Listed
<1>9. ChildrenApart'
  <2>1. \A q \in Proc : q # current_process => th'[q] = th[q]
    BY <1>4 DEF IndInv, TypeOK
  <2>2. th'[current_process].child = p
    BY <1>2, <1>4, <1>5 DEF IndInv, TypeOK
  <2>3. \A q \in Proc : q # p => pcb'[q] = pcb[q]
    BY <1>4 DEF IndInv, TypeOK
  <2>4. pcb'[p].mem = "allocated"
    BY <1>1, <1>3, <1>4 DEF IndInv, TypeOK
  <2>5. \A q \in Proc : th[q].pc \in Unlisted =>
          th[q].child \in Proc /\ th[q].child # p
    BY <1>1 DEF IndInv, ChildrenApart, Creating
  <2>6. procs' = procs /\ ~Listed(p)
    BY <1>4, <1>7 DEF sched, Listed
  <2>7. (\A q \in Proc : th[q].pc \in Creating => th[q].child \in Proc)'
    BY <1>1, <2>1, <2>2 DEF IndInv, ChildrenApart
  <2>8. (\A q \in Proc : th[q].pc \in Unlisted =>
           /\ Listed(q)
           /\ pcb[th[q].child].mem = "allocated"
           /\ ~Listed(th[q].child))'
    BY <2>1, <2>2, <2>3, <2>4, <2>5, <2>6, <1>4
       DEF IndInv, ChildrenApart, Listed, SchedulerConsistent, sched
  <2>9. (\A q, r \in Proc :
           /\ th[q].pc \in Unlisted /\ th[r].pc \in Unlisted
           /\ th[q].child = th[r].child
           => q = r)'
    BY <2>1, <2>2, <2>5 DEF IndInv, ChildrenApart
  <2> QED BY <2>7, <2>8, <2>9 DEF ChildrenApart
<1> QED BY <1>6, <1>8, <1>9 DEF IndInv

\* append_process lists the child of the current process.
LEMMA AppendProcessInd ==
  ASSUME IndInv, AppendProcess
  PROVE  IndInv'
<1> DEFINE c == th[current_process].child
           n == Len(procs)
           t == [th[current_process] EXCEPT !.pc =
                   IF pcb[c].kind = "zombie" THEN "config" ELSE "start"]
<1>1. PICK here \in DOMAIN procs : procs[here] = current_process
  BY DEF IndInv, SchedulerConsistent, Listed
<1>2. th[current_process].pc = "append" /\ current_process \in Proc
  BY DEF AppendProcess, Me, IndInv, TypeOK
<1>3. c \in Proc /\ pcb[c].mem = "allocated" /\ \A i \in DOMAIN procs : procs[i] # c
  BY <1>2 DEF IndInv, ChildrenApart, Creating, Unlisted, Listed
<1>4. /\ procs' = Append(procs, c)
      /\ proc_count' = proc_count + 1
      /\ th' = [th EXCEPT ![current_process] = t]
      /\ UNCHANGED <<proc_step, current_process, active_process, pid_top, pcb,
                     daemon, boot, intr, mode>>
  BY DEF AppendProcess, Me, Child
<1>5. t \in Threads /\ t.child = c /\ t.pc \notin Unlisted
  <2>1. th[current_process] \in Threads
    BY <1>2 DEF IndInv, TypeOK
  <2> QED BY <2>1, Zenon DEF Threads, Unlisted
<1> HIDE DEF c, t
<1>6. /\ procs' \in Seq(Proc) /\ DOMAIN procs' = 1..(n + 1) /\ Len(procs') = n + 1
      /\ procs'[n + 1] = c /\ \A i \in 1..n : procs'[i] = procs[i]
      /\ n \in Nat /\ DOMAIN procs = 1..n
  BY <1>3, <1>4, ListFacts DEF IndInv, TypeOK
<1>7. TypeOK'
  BY <1>2, <1>4, <1>5, <1>6 DEF IndInv, TypeOK
<1>8. ListedIsAllocated'
  BY <1>3, <1>4, <1>6 DEF IndInv, ListedIsAllocated
<1>9. SchedulerConsistent'
  <2>1. \A i, j \in 1..(n + 1) : procs'[i] = procs'[j] => i = j
    BY <1>3, <1>6 DEF IndInv, SchedulerConsistent
  <2>2. procs'[here] = current_process' /\ here \in DOMAIN procs'
    BY <1>1, <1>4, <1>6
  <2> QED BY <1>4, <1>6, <2>1, <2>2 DEF IndInv, SchedulerConsistent, Listed
<1>10. ChildrenApart'
  <2>1. th'[current_process] = t /\ \A q \in Proc : q # current_process => th'[q] = th[q]
    BY <1>2, <1>4 DEF IndInv, TypeOK
  <2>2. \A q : Listed(q)' <=> Listed(q) \/ q = c
    BY <1>6 DEF Listed
  <2>3. ASSUME NEW q \in Proc, th'[q].pc \in Unlisted
        PROVE  /\ th'[q] = th[q] /\ th[q].pc \in Unlisted
               /\ th[q].child # c
               /\ Listed(q) /\ pcb[th[q].child].mem = "allocated" /\ ~Listed(th[q].child)
    <3>1. q # current_process /\ th'[q] = th[q]
      BY <1>5, <2>1, <2>3
    <3>2. th[q].child # c
      BY <1>2, <2>3, <3>1 DEF IndInv, ChildrenApart, Unlisted, c
    <3> QED BY <2>3, <3>1, <3>2 DEF IndInv, ChildrenApart
  <2>4. (\A q \in Proc : th[q].pc \in Creating => th[q].child \in Proc)'
    BY <1>3, <1>5, <2>1 DEF IndInv, ChildrenApart
  <2>5. (\A q \in Proc : th[q].pc \in Unlisted =>
           /\ Listed(q)
           /\ pcb[th[q].child].mem = "allocated"
           /\ ~Listed(th[q].child))'
    <3>1. ASSUME NEW q \in Proc, th'[q].pc \in Unlisted
          PROVE  /\ Listed(q)'
                 /\ pcb'[th'[q].child].mem = "allocated"
                 /\ \A l \in DOMAIN procs' : procs'[l] # th'[q].child
      BY <1>4, <1>6, <2>2, <2>3, <3>1 DEF Listed
    <3> QED BY <3>1 DEF Listed
  <2>6. (\A q, r \in Proc :
           /\ th[q].pc \in Unlisted /\ th[r].pc \in Unlisted
           /\ th[q].child = th[r].child
           => q = r)'
    BY <2>3 DEF IndInv, ChildrenApart
  <2> QED BY <2>4, <2>5, <2>6 DEF ChildrenApart
<1> QED BY <1>7, <1>8, <1>9, <1>10 DEF IndInv

(***************************************************************************)
(* The steps that neither list, unlist nor switch: they change at most one *)
(* control block, without freeing it, and the place of the running code.   *)
(***************************************************************************)
LEMMA LocalStep ==
  ASSUME IndInv,
         UNCHANGED <<procs, proc_step, proc_count, current_process, boot>>,
         \/ pcb' = pcb
         \/ \E p \in Proc, v \in Pcbs :
               v.mem = pcb[p].mem /\ pcb' = [pcb EXCEPT ![p] = v],
         \/ th' = th
         \/ \E t \in Threads :
               /\ th' = [th EXCEPT ![current_process] = t]
               /\ t.pc \in Creating => Me.pc \in Creating /\ t.child = Me.child
               /\ t.pc \in Unlisted => Me.pc \in Unlisted,
         active_process' \in Proc, pid_top' \in Nat,
         daemon' \in [Daemons -> Proc \union {None}],
         intr' \in BOOLEAN, mode' \in {"up", "panic", "hung"}
  PROVE  IndInv'
<1>1. pcb' \in [Proc -> Pcbs] /\ \A p \in Proc : pcb'[p].mem = pcb[p].mem
  BY DEF IndInv, TypeOK
<1>2. /\ th' \in [Proc -> Threads]
      /\ \A p \in Proc : /\ th'[p].pc \in Creating =>
                              th[p].pc \in Creating /\ th'[p].child = th[p].child
                         /\ th'[p].pc \in Unlisted => th[p].pc \in Unlisted
  BY DEF IndInv, TypeOK, Me
<1>3. TypeOK'
  BY <1>1, <1>2 DEF IndInv, TypeOK
<1> QED BY <1>1, <1>2, <1>3, QuietStep

\* The record updates of those steps.
LEMMA PcFacts ==
  ASSUME NEW t \in Threads,
         NEW c \in {"run", "syscall", "enabled", "sending", "handler", "idle",
                    "stale", "alloc", "append", "start", "config", "resume"}
  PROVE  LET v == [t EXCEPT !.pc = c]
         IN  v \in Threads /\ v.pc = c /\ v.child = t.child
BY Zenon DEF Threads

LEMMA HandlerFacts ==
  ASSUME NEW t \in Threads, NEW n \in Proc \union {None}, NEW a \in Proc,
         NEW c \in {"handler", "sending"}
  PROVE  LET v == [t EXCEPT !.pc = c, !.node = n, !.me = a]
         IN  v \in Threads /\ v.pc = c
BY Zenon DEF Threads

LEMMA HandledFacts ==
  ASSUME NEW t \in Threads
  PROVE  LET v == [t EXCEPT !.pc = "run", !.node = None]
         IN  v \in Threads /\ v.pc = "run"
BY Zenon DEF Threads

LEMMA SentFacts ==
  ASSUME NEW t \in Threads
  PROVE  LET v == [t EXCEPT !.pc = "run", !.node = None, !.iret = TRUE]
         IN  v \in Threads /\ v.pc = "run"
BY Zenon DEF Threads

LEMMA NodeFacts ==
  ASSUME NEW t \in Threads, NEW n \in Proc \union {None}
  PROVE  LET v == [t EXCEPT !.node = n]
         IN  v \in Threads /\ v.pc = t.pc
BY Zenon DEF Threads

LEMMA GateFacts ==
  ASSUME NEW t \in Threads, NEW c \in {"run", "syscall"}, NEW b \in BOOLEAN
  PROVE  LET v == [t EXCEPT !.pc = c, !.iret = b]
         IN  v \in Threads /\ v.pc = c
BY Zenon DEF Threads

LEMMA StorePidTopInd ==
  ASSUME IndInv, StorePidTop
  PROVE  IndInv'
<1>1. /\ current_process \in Proc /\ Me \in Threads /\ Me.pc = "alloc"
      /\ th[current_process] = Me
  BY DEF StorePidTop, IndInv, TypeOK, Me
<1>2. Child \in Proc /\ pcb[Child].pid + 1 \in Nat
  <2>1. Child \in Proc
    BY <1>1 DEF IndInv, ChildrenApart, Creating, Unlisted, Child
  <2> QED BY <2>1 DEF IndInv, TypeOK, Pcbs
<1>3. PICK t \in Threads : /\ t.pc = "append" /\ t.child = Me.child
                           /\ th' = [th EXCEPT ![current_process] = t]
  <2>1. th' = [th EXCEPT ![current_process] = [Me EXCEPT !.pc = "append"]]
    BY Zenon DEF StorePidTop, Me
  <2> QED BY <1>1, <2>1, PcFacts, Zenon
<1> QED BY <1>1, <1>2, <1>3, LocalStep
        DEF StorePidTop, sched, IndInv, TypeOK, Creating, Unlisted

LEMMA StartProcessInd ==
  ASSUME IndInv, StartProcess
  PROVE  IndInv'
<1>1. /\ current_process \in Proc /\ Me \in Threads /\ Me.pc = "start"
      /\ th[current_process] = Me
  BY DEF StartProcess, IndInv, TypeOK, Me
<1>2. Child \in Proc /\ pcb[Child] \in Pcbs /\ pcb[current_process] \in Pcbs
  BY <1>1 DEF IndInv, TypeOK, ChildrenApart, Creating, Child
<1>3. \E v \in Pcbs : v.mem = pcb[Child].mem /\ pcb' = [pcb EXCEPT ![Child] = v]
  <2>1. CASE pcb[Child].kind = "program"
    <3>1. pcb' = [pcb EXCEPT ![Child] = [pcb[Child] EXCEPT !.killed = TRUE]]
      BY <2>1, Zenon DEF StartProcess
    <3> QED BY <1>2, <3>1, KilledFacts, Zenon
  <2>2. CASE pcb[Child].kind = "fork"
    <3>1. pcb' = [pcb EXCEPT ![Child] =
             [pcb[Child] EXCEPT !.system = pcb[current_process].system,
                                !.active = Child,
                                !.kill = pcb[current_process].kill,
                                !.killed = FALSE]]
      BY <2>2 DEF StartProcess, Forked
    <3> QED BY <1>2, <3>1, ForkFacts, Zenon
  <2>3. CASE pcb[Child].kind \notin Programs
    <3>1. pcb' = [pcb EXCEPT ![Child] = [pcb[Child] EXCEPT !.killed = FALSE]]
      BY <2>3 DEF StartProcess, Programs
    <3> QED BY <1>2, <3>1, KilledFacts, Zenon
  <2> QED BY <2>1, <2>2, <2>3 DEF Programs
<1>4. \E t \in Threads : /\ th' = [th EXCEPT ![current_process] = t]
                         /\ t.pc \in Creating => t.child = Me.child
                         /\ t.pc \notin Unlisted
  <2>1. CASE pcb[Child].kind = "program"
    <3>1. CASE Me.home = "handler"
      <4>1. th' = [th EXCEPT ![current_process] = [Me EXCEPT !.pc = "resume"]]
        BY <1>1, <2>1, <3>1, Zenon DEF StartProcess
      <4> QED BY <1>1, <4>1, PcFacts, Zenon DEF Unlisted
    <3>2. CASE Me.home # "handler"
      <4>1. th' = [th EXCEPT ![current_process] = Return(Me)]
        BY <1>1, <2>1, <3>2, Zenon DEF StartProcess
      <4> QED BY <1>1, <4>1, ReturnFacts DEF Creating
    <3> QED BY <3>1, <3>2
  <2>2. CASE pcb[Child].kind = "fork"
    <3>1. th' = [th EXCEPT ![current_process] = Return(Me)]
      BY <1>1, <2>2 DEF StartProcess
    <3> QED BY <1>1, <3>1, ReturnFacts DEF Creating
  <2>3. CASE pcb[Child].kind \notin Programs
    <3>1. th' = [th EXCEPT ![current_process] = [Me EXCEPT !.pc = "config"]]
      BY <1>1, <2>3 DEF StartProcess, Programs
    <3> QED BY <1>1, <3>1, PcFacts, Zenon DEF Unlisted
  <2> QED BY <2>1, <2>2, <2>3 DEF Programs
<1>5. /\ UNCHANGED <<procs, proc_step, proc_count, current_process, boot>>
      /\ active_process' \in Proc /\ pid_top' \in Nat
      /\ daemon' \in [Daemons -> Proc \union {None}]
      /\ intr' \in BOOLEAN /\ mode' \in {"up", "panic", "hung"}
  BY DEF StartProcess, sched, IndInv, TypeOK
<1>6. Me.pc \in Creating
  BY <1>1 DEF Creating
<1> QED BY <1>2, <1>3, <1>4, <1>5, <1>6, LocalStep

LEMMA ConfigProcessInd ==
  ASSUME IndInv, ConfigProcess
  PROVE  IndInv'
<1>1. /\ current_process \in Proc /\ Me \in Threads /\ Me.pc = "config"
      /\ th[current_process] = Me
  BY DEF ConfigProcess, IndInv, TypeOK, Me
<1>2. Child \in Proc /\ pcb[Child] \in Pcbs
  BY <1>1 DEF IndInv, TypeOK, ChildrenApart, Creating, Child
<1>3. \E v \in Pcbs : v.mem = pcb[Child].mem /\ pcb' = [pcb EXCEPT ![Child] = v]
  <2> DEFINE k == pcb[Child].kind
  <2>1. pcb' = [pcb EXCEPT ![Child] =
          [pcb[Child] EXCEPT
             !.system = pcb[Child].system \/ k \in {"dispatchd", "videod", "zombie"},
             !.kill = IF k \in {"dispatchd", "zombie"} THEN "force_alive"
                      ELSE pcb[Child].kill]]
    BY Zenon DEF ConfigProcess
  <2> HIDE DEF k
  <2> QED BY <1>2, <2>1, ConfigFacts, Zenon
<1>4. \E t \in Threads : /\ th' = [th EXCEPT ![current_process] = t]
                         /\ t.pc \notin Creating
  <2>1. th' = [th EXCEPT ![current_process] = Return(Me)]
    BY <1>1 DEF ConfigProcess
  <2> QED BY <1>1, <2>1, ReturnFacts
<1>5. /\ UNCHANGED <<procs, proc_step, proc_count, current_process, boot>>
      /\ active_process' \in Proc /\ pid_top' \in Nat
      /\ daemon' \in [Daemons -> Proc \union {None}]
      /\ intr' \in BOOLEAN /\ mode' \in {"up", "panic", "hung"}
  BY <1>2 DEF ConfigProcess, sched, IndInv, TypeOK
<1> QED BY <1>2, <1>3, <1>4, <1>5, LocalStep DEF Creating

LEMMA ResumeProgramInd ==
  ASSUME IndInv, ResumeProgram
  PROVE  IndInv'
<1>1. current_process \in Proc /\ Me \in Threads /\ th[current_process] = Me
  BY DEF IndInv, TypeOK, Me
<1>2. \/ pcb' = pcb
      \/ \E p \in Proc, v \in Pcbs :
           v.mem = pcb[p].mem /\ pcb' = [pcb EXCEPT ![p] = v]
  <2>1. SUFFICES ASSUME NEW i \in DOMAIN procs,
                        pcb' = [pcb EXCEPT ![procs[i]].killed = FALSE]
                 PROVE  \E p \in Proc, v \in Pcbs :
                          v.mem = pcb[p].mem /\ pcb' = [pcb EXCEPT ![p] = v]
    BY DEF ResumeProgram
  <2>2. procs[i] \in Proc /\ pcb[procs[i]] \in Pcbs
    BY ListFacts DEF IndInv, TypeOK
  <2> QED BY <2>1, <2>2, KilledFacts, Zenon
<1>3. \E t \in Threads : /\ th' = [th EXCEPT ![current_process] = t]
                         /\ t.pc \notin Creating
  <2>1. th' = [th EXCEPT ![current_process] = Return(Me)]
    BY <1>1 DEF ResumeProgram
  <2> QED BY <1>1, <2>1, ReturnFacts
<1>4. /\ UNCHANGED <<procs, proc_step, proc_count, current_process, boot>>
      /\ active_process' \in Proc /\ pid_top' \in Nat
      /\ daemon' \in [Daemons -> Proc \union {None}]
      /\ intr' \in BOOLEAN /\ mode' \in {"up", "panic", "hung"}
  BY DEF ResumeProgram, sched, IndInv, TypeOK
<1> QED BY <1>2, <1>3, <1>4, LocalStep DEF Creating

LEMMA LaunchProgramInd ==
  ASSUME IndInv, LaunchProgram
  PROVE  IndInv'
<1>1. PICK i \in DOMAIN procs : pcb' = [pcb EXCEPT ![procs[i]].killed = FALSE]
  BY DEF LaunchProgram
<1>2. procs[i] \in Proc /\ pcb[procs[i]] \in Pcbs
  BY ListFacts DEF IndInv, TypeOK
<1>3. \E p \in Proc, v \in Pcbs :
         v.mem = pcb[p].mem /\ pcb' = [pcb EXCEPT ![p] = v]
  BY <1>1, <1>2, KilledFacts, Zenon
<1> QED BY <1>3, LocalStep DEF LaunchProgram, sched, IndInv, TypeOK

LEMMA DaemonStepInd ==
  ASSUME IndInv, DaemonPause \/ \E d \in Daemons : Wake(d)
  PROVE  IndInv'
<1>1. PICK d \in Daemons, b \in BOOLEAN :
         /\ daemon[d] # None
         /\ pcb' = [pcb EXCEPT ![daemon[d]].killed = b]
  BY DEF DaemonPause, Wake
<1>2. daemon[d] \in Proc /\ pcb[daemon[d]] \in Pcbs
  BY <1>1 DEF IndInv, TypeOK
<1>3. \E p \in Proc, v \in Pcbs :
         v.mem = pcb[p].mem /\ pcb' = [pcb EXCEPT ![p] = v]
  BY <1>1, <1>2, KilledFacts, Zenon
<1> QED BY <1>3, LocalStep DEF DaemonPause, Wake, Local, sched, IndInv, TypeOK

LEMMA RetireInd ==
  ASSUME IndInv, Retire
  PROVE  IndInv'
<1>1. Init0 \in Proc /\ pcb[Init0] \in Pcbs /\ th[Init0] \in Threads /\ current_process = Init0
  BY Init0InProc DEF Retire, IndInv, TypeOK
<1>2. \E p \in Proc, v \in Pcbs :
         v.mem = pcb[p].mem /\ pcb' = [pcb EXCEPT ![p] = v]
  <2>1. pcb' = [pcb EXCEPT ![Init0] = [pcb[Init0] EXCEPT !.killed = TRUE]]
    BY Zenon DEF Retire
  <2> QED BY <1>1, <2>1, KilledFacts, Zenon
<1>3. \E t \in Threads : /\ th' = [th EXCEPT ![current_process] = t]
                         /\ t.pc \notin Creating
  <2>1. th' = [th EXCEPT ![Init0] = [th[Init0] EXCEPT !.pc = "idle"]]
    BY Zenon DEF Retire
  <2>2. PICK t \in Threads : t.pc = "idle" /\ th' = [th EXCEPT ![Init0] = t]
    BY <1>1, <2>1, PcFacts, Zenon
  <2> QED BY <1>1, <2>2 DEF Creating, Unlisted
<1> QED BY <1>2, <1>3, LocalStep DEF Retire, sched, IndInv, TypeOK, Creating

\* The broadcast, the system call gate and send_event move the thread, nothing else.
LEMMA ThreadStepInd ==
  ASSUME IndInv,
         \/ BroadcastStart \/ BroadcastNext \/ EnterSyscall \/ EnableInSyscall
         \/ LeaveSyscall \/ SendEvent \/ SendEventDone
  PROVE  IndInv'
<1>1. /\ current_process \in Proc /\ active_process \in Proc /\ intr \in BOOLEAN
      /\ Me \in Threads /\ th[current_process] = Me /\ Me.me \in Proc /\ Me.iret \in BOOLEAN
  BY DEF IndInv, TypeOK, Me, Threads
<1>2. procs[1] \in Proc
  BY ListFacts DEF IndInv, SchedulerConsistent, Listed
<1>3. \A n \in NextNode(Me.node) : n \in Proc \union {None}
  <2>1. ASSUME Listed(Me.node), PositionOf(Me.node) # Len(procs)
        PROVE  procs[PositionOf(Me.node) + 1] \in Proc
    <3>1. PositionOf(Me.node) \in DOMAIN procs
      BY <2>1 DEF Listed, PositionOf
    <3>2. PositionOf(Me.node) + 1 \in DOMAIN procs
      BY <2>1, <3>1, ListFacts DEF IndInv
    <3> QED BY <3>2, ListFacts DEF IndInv
  <2> QED BY <2>1 DEF NextNode
<1>4. /\ \E t \in Threads : /\ th' = [th EXCEPT ![current_process] = t]
                            /\ t.pc \notin Creating
      /\ active_process' \in Proc /\ intr' \in BOOLEAN
  <2>1. CASE BroadcastStart
    <3>1. th' = [th EXCEPT ![current_process] =
                   [Me EXCEPT !.pc = "handler", !.node = procs[1], !.me = active_process]]
      BY <1>1, <2>1, Zenon DEF BroadcastStart
    <3>2. PICK t \in Threads : t.pc = "handler" /\ th' = [th EXCEPT ![current_process] = t]
      BY <1>1, <1>2, <3>1, HandlerFacts, Zenon
    <3> QED BY <1>1, <1>2, <2>1, <3>2 DEF BroadcastStart, Creating, Unlisted
  <2>2. CASE BroadcastNext
    <3>1. PICK n \in NextNode(Me.node) :
             IF n = None
             THEN /\ th' = [th EXCEPT ![current_process] =
                              [Me EXCEPT !.pc = "run", !.node = None]]
                  /\ active_process' = Me.me
             ELSE /\ th' = [th EXCEPT ![current_process] = [Me EXCEPT !.node = n]]
                  /\ active_process' = n
      BY <1>1, <2>2, Zenon DEF BroadcastNext
    <3>2. n \in Proc \union {None} /\ Me.pc = "handler" /\ intr' = intr
      BY <1>3, <2>2 DEF BroadcastNext
    <3>3. active_process' \in Proc
      BY <1>1, <3>1, <3>2
    <3>4. PICK t \in Threads : /\ t.pc \in {"run", "handler"}
                               /\ th' = [th EXCEPT ![current_process] = t]
      <4>1. CASE n = None
        BY <1>1, <3>1, <4>1, HandledFacts, Zenon
      <4>2. CASE n # None
        <5>1. th' = [th EXCEPT ![current_process] = [Me EXCEPT !.node = n]]
          BY <3>1, <4>2, Zenon
        <5>2. PICK v \in Threads : v.pc = Me.pc /\ th' = [th EXCEPT ![current_process] = v]
          BY <1>1, <3>2, <5>1, NodeFacts, Zenon
        <5> QED BY <3>2, <5>2
      <4> QED BY <4>1, <4>2
    <3> QED BY <1>1, <3>2, <3>3, <3>4 DEF Creating, Unlisted
  <2>3. CASE EnterSyscall
    <3>1. PICK flag \in {intr, TRUE} :
             th' = [th EXCEPT ![current_process] =
                      [Me EXCEPT !.pc = "syscall", !.iret = flag]]
      BY <1>1, <2>3, Zenon DEF EnterSyscall
    <3>2. PICK t \in Threads : t.pc = "syscall" /\ th' = [th EXCEPT ![current_process] = t]
      BY <1>1, <3>1, GateFacts, Zenon
    <3> QED BY <1>1, <2>3, <3>2 DEF EnterSyscall, sched, Creating, Unlisted
  <2>4. CASE LeaveSyscall
    <3>1. th' = [th EXCEPT ![current_process] = [Me EXCEPT !.pc = "run", !.iret = TRUE]]
      BY <1>1, <2>4, Zenon DEF LeaveSyscall
    <3>2. PICK t \in Threads : t.pc = "run" /\ th' = [th EXCEPT ![current_process] = t]
      BY <1>1, <3>1, GateFacts, Zenon
    <3> QED BY <1>1, <2>4, <3>2 DEF LeaveSyscall, sched, Creating, Unlisted
  <2>5. CASE EnableInSyscall
    <3>1. th' = [th EXCEPT ![current_process] = [Me EXCEPT !.pc = "enabled"]]
      BY <1>1, <2>5, Zenon DEF EnableInSyscall
    <3>2. PICK t \in Threads : t.pc = "enabled" /\ th' = [th EXCEPT ![current_process] = t]
      BY <1>1, <3>1, PcFacts, Zenon
    <3> QED BY <1>1, <2>5, <3>2 DEF EnableInSyscall, sched, Creating, Unlisted
  <2>6. CASE SendEvent
    <3>1. PICK i \in DOMAIN procs :
             /\ active_process' = procs[i] /\ intr' = intr
             /\ th' = [th EXCEPT ![current_process] =
                  [Me EXCEPT !.pc = "sending", !.node = procs[i], !.me = active_process]]
      BY <1>1, <2>6, Zenon DEF SendEvent
    <3>2. procs[i] \in Proc
      BY ListFacts DEF IndInv
    <3>3. PICK t \in Threads : t.pc = "sending" /\ th' = [th EXCEPT ![current_process] = t]
      BY <1>1, <3>1, <3>2, HandlerFacts, Zenon
    <3> QED BY <1>1, <3>1, <3>2, <3>3 DEF Creating, Unlisted
  <2>7. CASE SendEventDone
    <3>1. th' = [th EXCEPT ![current_process] =
                   [Me EXCEPT !.pc = "run", !.node = None, !.iret = TRUE]]
      BY <1>1, <2>7, Zenon DEF SendEventDone
    <3>2. PICK t \in Threads : t.pc = "run" /\ th' = [th EXCEPT ![current_process] = t]
      BY <1>1, <3>1, SentFacts, Zenon
    <3> QED BY <1>1, <2>7, <3>2 DEF SendEventDone, Creating, Unlisted
  <2> QED BY <2>1, <2>2, <2>3, <2>4, <2>5, <2>6, <2>7
<1>5. /\ UNCHANGED <<procs, proc_step, proc_count, current_process, boot>>
      /\ pcb' = pcb /\ pid_top' \in Nat
      /\ daemon' \in [Daemons -> Proc \union {None}]
      /\ mode' \in {"up", "panic", "hung"}
  BY DEF BroadcastStart, BroadcastNext, EnterSyscall, EnableInSyscall, LeaveSyscall,
         SendEvent, SendEventDone, sched, IndInv, TypeOK
<1> QED BY <1>4, <1>5, LocalStep DEF Creating

\* The three ways to end a process: it exits, it faults, it is killed.
LEMMA ExitInd ==
  ASSUME IndInv, Exit
  PROVE  IndInv'
<1>1. PICK i \in DOMAIN procs : KillNode(i, pcb)
  BY DEF Exit, KillSelf
<1>2. pcb \in [Proc -> Pcbs] /\ UNCHANGED <<pid_top, daemon, boot>>
  BY DEF Exit, IndInv, TypeOK
<1> QED BY <1>1, <1>2, KillNodeInd

LEMMA PausedBlocks ==
  ASSUME IndInv, NEW b \in BOOLEAN, NEW p \in Proc
  PROVE  LET blocks == [pcb EXCEPT ![p].killed = b]
         IN  /\ blocks \in [Proc -> Pcbs]
             /\ \A q \in Proc : blocks[q].mem = pcb[q].mem /\ blocks[q].pid = pcb[q].pid
             /\ \E v \in Pcbs : v.mem = pcb[p].mem /\ blocks = [pcb EXCEPT ![p] = v]
<1> DEFINE blocks == [pcb EXCEPT ![p].killed = b]
<1>1. pcb \in [Proc -> Pcbs]
  BY DEF IndInv, TypeOK
<1>2. PICK v \in Pcbs : /\ v.mem = pcb[p].mem /\ v.pid = pcb[p].pid
                        /\ blocks = [pcb EXCEPT ![p] = v]
  BY <1>1, KilledFacts, Zenon
<1> HIDE DEF blocks
<1>3. /\ blocks \in [Proc -> Pcbs]
      /\ \A q \in Proc : blocks[q].mem = pcb[q].mem /\ blocks[q].pid = pcb[q].pid
  BY <1>1, <1>2
<1> QED BY <1>2, <1>3, Zenon DEF blocks

LEMMA HandleExceptionInd ==
  ASSUME IndInv, HandleException
  PROVE  IndInv'
<1> DEFINE blocks == [pcb EXCEPT ![current_process].killed = TRUE]
<1>0. current_process \in Proc
  BY DEF IndInv, TypeOK
<1>1. /\ blocks \in [Proc -> Pcbs]
      /\ \A q \in Proc : blocks[q].mem = pcb[q].mem /\ blocks[q].pid = pcb[q].pid
      /\ \E v \in Pcbs : /\ v.mem = pcb[current_process].mem
                         /\ blocks = [pcb EXCEPT ![current_process] = v]
  BY <1>0, PausedBlocks, Zenon
<1>2. /\ \/ /\ mode' = "panic" /\ intr' = FALSE
            /\ pcb' = blocks
            /\ UNCHANGED <<sched, th>>
         \/ KillSelf(blocks)
      /\ UNCHANGED <<pid_top, daemon, boot>>
  BY Zenon DEF HandleException
<1> HIDE DEF blocks
<1>3. CASE KillSelf(blocks)
  <2>1. PICK i \in DOMAIN procs : KillNode(i, blocks)
    BY <1>3 DEF KillSelf
  <2> QED BY <1>1, <1>2, <2>1, KillNodeInd
<1>4. CASE /\ mode' = "panic" /\ intr' = FALSE
           /\ pcb' = blocks
           /\ UNCHANGED <<sched, th>>
  BY <1>0, <1>1, <1>2, <1>4, LocalStep DEF sched, IndInv, TypeOK
<1> QED BY <1>2, <1>3, <1>4

LEMMA KillInd ==
  ASSUME IndInv, NEW pid \in Int, NEW sig \in Signals, Kill(pid, sig)
  PROVE  IndInv'
<1>1. UNCHANGED <<pid_top, daemon, boot>> /\ pcb \in [Proc -> Pcbs]
  BY DEF Kill, IndInv, TypeOK
<1>2. \/ \E i \in DOMAIN procs : KillNode(i, pcb)
      \/ /\ intr' = FALSE /\ UNCHANGED <<sched, th, mode>>
         /\ \/ pcb' = pcb
            \/ \E i \in DOMAIN procs, b \in BOOLEAN :
                 pcb' = [pcb EXCEPT ![procs[i]].killed = b]
  BY Zenon DEF Kill
<1>3. CASE \E i \in DOMAIN procs : KillNode(i, pcb)
  BY <1>1, <1>3, KillNodeInd
<1>4. CASE /\ intr' = FALSE /\ UNCHANGED <<sched, th, mode>>
           /\ \/ pcb' = pcb
              \/ \E i \in DOMAIN procs, b \in BOOLEAN :
                   pcb' = [pcb EXCEPT ![procs[i]].killed = b]
  <2>1. \/ pcb' = pcb
        \/ \E p \in Proc, v \in Pcbs :
             v.mem = pcb[p].mem /\ pcb' = [pcb EXCEPT ![p] = v]
    <3>1. SUFFICES ASSUME NEW i \in DOMAIN procs, NEW b \in BOOLEAN,
                          pcb' = [pcb EXCEPT ![procs[i]].killed = b]
                   PROVE  \E p \in Proc, v \in Pcbs :
                            v.mem = pcb[p].mem /\ pcb' = [pcb EXCEPT ![p] = v]
      BY <1>4
    <3>2. procs[i] \in Proc /\ pcb[procs[i]] \in Pcbs
      BY ListFacts DEF IndInv, TypeOK
    <3> QED BY <3>1, <3>2, KilledFacts, Zenon
  <2> QED BY <1>1, <1>4, <2>1, LocalStep DEF sched, IndInv, TypeOK
<1> QED BY <1>2, <1>3, <1>4

\* Every step preserves the invariant.
LEMMA NextInd == IndInv /\ [Next]_vars => IndInv'
<1> SUFFICES ASSUME IndInv, [Next]_vars PROVE IndInv'
  OBVIOUS
<1>1. CASE \E k \in Kinds : AllocProcess(k)
  BY <1>1, AllocProcessInd
<1>2. CASE StorePidTop
  BY <1>2, StorePidTopInd
<1>3. CASE AppendProcess
  BY <1>3, AppendProcessInd
<1>4. CASE StartProcess
  BY <1>4, StartProcessInd
<1>5. CASE ConfigProcess
  BY <1>5, ConfigProcessInd
<1>6. CASE ResumeProgram
  BY <1>6, ResumeProgramInd
<1>7. CASE Tick
  BY <1>7, SwitchTaskInd DEF Tick
<1>8. CASE Yield
  BY <1>8, SwitchTaskInd DEF Yield, IndInv, TypeOK
<1>9. CASE DaemonPause \/ \E d \in Daemons : Wake(d)
  BY <1>9, DaemonStepInd
<1>10. CASE \/ BroadcastStart \/ BroadcastNext \/ EnterSyscall \/ EnableInSyscall
            \/ LeaveSyscall \/ SendEvent \/ SendEventDone
  BY <1>10, ThreadStepInd
<1>11. CASE \E pid \in -1..Cardinality(Proc), sig \in Signals : Kill(pid, sig)
  BY <1>11, KillInd
<1>12. CASE Exit
  BY <1>12, ExitInd
<1>13. CASE Retire
  BY <1>13, RetireInd
<1>14. CASE HandleException
  BY <1>14, HandleExceptionInd
<1>15. CASE LaunchProgram
  BY <1>15, LaunchProgramInd
<1>16. CASE UNCHANGED vars
  BY <1>16, QuietStep DEF vars, sched, IndInv, TypeOK
<1> QED BY <1>1, <1>2, <1>3, <1>4, <1>5, <1>6, <1>7, <1>8, <1>9, <1>10, <1>11,
           <1>12, <1>13, <1>14, <1>15, <1>16 DEF Next

\* The invariant holds of every behaviour (multitasking.c).
THEOREM Inductive == Spec => []IndInv
<1>1. Init => IndInv
  BY InitInd
<1>2. IndInv /\ [Next]_vars => IndInv'
  BY NextInd
<1> QED BY <1>1, <1>2, PTL DEF Spec

\* Every variable of the scheduler keeps its type (the tables and pointers of
\* multitasking.c), whatever the processes do.
THEOREM TypeCorrect == Spec => []TypeOK
<1>1. IndInv => TypeOK
  BY DEF IndInv
<1> QED BY <1>1, Inductive, PTL

\* proc_step, current_process, proc_count and the list never disagree, and no
\* block is listed twice (append_process, kill, switch_task).
THEOREM SchedulerCorrect == Spec => []SchedulerConsistent
<1>1. IndInv => SchedulerConsistent
  BY DEF IndInv
<1> QED BY <1>1, Inductive, PTL

\* The list never holds a freed block, hence kill frees a block once
\* (cleanup_process).
THEOREM ListedAllocated == Spec => []ListedIsAllocated
<1>1. IndInv => ListedIsAllocated
  BY DEF IndInv
<1> QED BY <1>1, Inductive, PTL

(***************************************************************************)
(* The CPU never goes to a paused process.                                 *)
(***************************************************************************)
LEMMA SavedNotKilled ==
  ASSUME NEW r \in Pcbs, NEW s \in BOOLEAN, NEW a \in Proc
  PROVE  LET v == [r EXCEPT !.intr = s, !.active = a]
         IN  v \in Pcbs /\ v.killed = r.killed
BY Zenon DEF Pcbs

LEMMA SwitchRuns ==
  ASSUME IndInv, NEW saved \in BOOLEAN, SwitchTask(saved),
         current_process' # current_process
  PROVE  ~pcb'[current_process'].killed
<1>1. /\ SaveContext(saved)
      /\ \E i \in NotKilled(pcb) : Dispatch(procs[i], pcb')
  BY DEF SwitchTask, sched
<1>2. PICK i \in DOMAIN procs : ~pcb[procs[i]].killed /\ Dispatch(procs[i], pcb')
  BY <1>1 DEF NotKilled
<1>3. /\ procs[i] \in Proc /\ current_process' = procs[i]
      /\ current_process \in Proc /\ active_process \in Proc /\ pcb \in [Proc -> Pcbs]
  BY <1>2, ListFacts DEF Dispatch, IndInv, TypeOK
<1>4. PICK v \in Pcbs : /\ v.killed = pcb[current_process].killed
                        /\ pcb' = [pcb EXCEPT ![current_process] = v]
  BY <1>1, <1>3, SavedNotKilled, Zenon DEF SaveContext
<1> QED BY <1>2, <1>3, <1>4

LEMMA KillNodeRuns ==
  ASSUME IndInv, NEW i \in DOMAIN procs, NEW blocks \in [Proc -> Pcbs],
         KillNode(i, blocks), current_process' # current_process
  PROVE  ~pcb'[current_process'].killed
<1>1. /\ Unlink(i, blocks)
      /\ \E j \in NotKilled(blocks) \ {i} : Dispatch(procs[j], blocks)
  BY DEF KillNode, sched
<1>2. PICK j \in DOMAIN procs \ {i} :
         ~blocks[procs[j]].killed /\ current_process' = procs[j]
  BY <1>1 DEF NotKilled, Dispatch
<1>3. procs[j] \in Proc /\ procs[j] # procs[i]
  BY <1>2, ListFacts DEF IndInv, SchedulerConsistent
<1>4. pcb'[procs[j]] = blocks[procs[j]]
  BY <1>1, <1>3, Zenon DEF Unlink
<1> QED BY <1>2, <1>4

\* get_next_step's choice: whoever gives the CPU up, and however (yield, the
\* timer, kill, an exception), it goes to a process that is not paused.
THEOREM PausedNotScheduled == Spec => NeverSchedulePaused
<1> DEFINE A == current_process' # current_process => ~pcb'[current_process'].killed
<1>1. ASSUME IndInv, [Next]_vars PROVE A
  <2> SUFFICES ASSUME current_process' # current_process
               PROVE  ~pcb'[current_process'].killed
    OBVIOUS
  <2>1. \/ Tick \/ Yield \/ Exit \/ HandleException
        \/ \E pid \in -1..Cardinality(Proc), sig \in Signals : Kill(pid, sig)
    BY <1>1 DEF Next, vars, sched, AllocProcess, StorePidTop, AppendProcess,
                StartProcess, ConfigProcess, ResumeProgram, LaunchProgram,
                DaemonPause, Wake, BroadcastStart, BroadcastNext, EnterSyscall,
                EnableInSyscall, LeaveSyscall, SendEvent, SendEventDone, Retire
  <2>2. CASE Tick \/ Yield
    BY <1>1, <2>2, SwitchRuns DEF Tick, Yield, IndInv, TypeOK
  <2>3. CASE Exit \/ \E pid \in -1..Cardinality(Proc), sig \in Signals : Kill(pid, sig)
    <3>1. PICK i \in DOMAIN procs : KillNode(i, pcb)
      BY <2>3 DEF Exit, KillSelf, Kill, sched
    <3> QED BY <1>1, <3>1, KillNodeRuns DEF IndInv, TypeOK
  <2>4. CASE HandleException
    <3>1. current_process \in Proc
      BY <1>1 DEF IndInv, TypeOK
    <3>2. PICK i \in DOMAIN procs :
             KillNode(i, [pcb EXCEPT ![current_process].killed = TRUE])
      BY <2>4, Zenon DEF HandleException, KillSelf, sched
    <3>3. [pcb EXCEPT ![current_process].killed = TRUE] \in [Proc -> Pcbs]
      BY <1>1, <3>1, PausedBlocks, Zenon
    <3> QED BY <1>1, <3>2, <3>3, KillNodeRuns
  <2> QED BY <2>1, <2>2, <2>3, <2>4
<1>2. IndInv /\ [Next]_vars => A
  BY <1>1
<1> HIDE DEF A
<1>3. Spec => [][A]_vars
  BY <1>2, Inductive, PTL DEF Spec
<1> QED BY <1>3 DEF NeverSchedulePaused, A

=============================================================================
