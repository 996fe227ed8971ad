-------------------------- MODULE Execution_proofs --------------------------
(***************************************************************************)
(* What the running process runs with, and that there is one, for any set  *)
(* of blocks.  The interrupt flag belongs to the process that runs (when   *)
(* kill() is called as the kernel calls it, kill(-1, 9): its early         *)
(* returns, which other arguments reach, leave interrupts disabled).  So   *)
(* does the active process, for any signals.  And get_next_step finds      *)
(* somebody to run while no videod died, unless a program pauses others.   *)
(***************************************************************************)
EXTENDS Multitasking_proofs

-----------------------------------------------------------------------------
(***************************************************************************)
(* The interrupt flag.                                                     *)
(***************************************************************************)

\* The stretches of a process that run with interrupts disabled.
Within(t) == {"syscall", "sending"} \intersect {t.pc, t.home} # {}

\* A process that is not running will resume with the flag its place calls for; a
\* system call returns with interrupts enabled; a process is creating another one,
\* or it has none to return to; and a block that was never used is fresh.
FlagInv ==
  /\ \A p \in Proc :
       p # current_process /\ pcb[p].mem # "freed" /\ th[p].pc # "stale" =>
         (pcb[p].intr <=> ~Within(th[p]))
  /\ \A p \in Proc : th[p].iret = TRUE
  /\ \A p \in Proc : th[p].pc \notin Creating \union {"stale"} => th[p].home = "run"
  /\ \A p \in Proc : pcb[p].mem = "unused" => th[p].pc = "run"
  /\ InterruptFlagOwned

LEMMA FreshFacts ==
  ASSUME NEW p
  PROVE  LET t == FreshThread(p)
         IN  t.pc = "run" /\ t.home = "run" /\ t.iret = TRUE /\ ~Within(t)
BY DEF FreshThread, Within

\* The updates of a block and of a thread, for the fields the flag depends on.
LEMMA BlockFacts ==
  ASSUME NEW r \in Pcbs, NEW b \in BOOLEAN, NEW a \in Proc
  PROVE  /\ LET v == [r EXCEPT !.intr = b, !.active = a]
            IN  v \in Pcbs /\ v.intr = b /\ v.mem = r.mem
         /\ LET v == [r EXCEPT !.killed = b]
            IN  v \in Pcbs /\ v.intr = r.intr /\ v.mem = r.mem
         /\ LET v == [r EXCEPT !.killed = TRUE, !.mem = "freed"]
            IN  v \in Pcbs /\ v.mem = "freed"
BY Zenon DEF Pcbs

LEMMA StaleFacts ==
  ASSUME NEW t \in Threads
  PROVE  LET v == [t EXCEPT !.pc = "stale"]
         IN  v \in Threads /\ v.pc = "stale" /\ v.iret = t.iret
BY Zenon DEF Threads

LEMMA InitFlag == Init => FlagInv
<1> SUFFICES ASSUME Init PROVE FlagInv
  OBVIOUS
<1>1. \A p \in Proc : th[p] = FreshThread(p)
  BY DEF Init
<1>2. ASSUME NEW p \in Proc, p # current_process
      PROVE  pcb[p].intr = TRUE
  BY <1>2 DEF Init, FreshPcb
<1>3. Me = FreshThread(current_process) /\ intr = TRUE
  BY <1>1, Init0InProc DEF Init, Me
<1> QED
  BY <1>1, <1>2, <1>3, FreshFacts DEF FlagInv, InterruptFlagOwned, Within

\* A step of the running process that leaves the others alone.
LEMMA OwnStep ==
  ASSUME IndInv, IndInv', FlagInv, current_process' = current_process,
         \A p \in Proc : pcb'[p].mem = pcb[p].mem,
         \A p \in Proc \ {current_process} : th'[p] = th[p] /\ pcb'[p].intr = pcb[p].intr,
         LET t == th'[current_process]
         IN  /\ t.iret = TRUE
             /\ t.pc \notin Creating \union {"stale"} => t.home = "run"
             /\ mode' = "up" /\ t.pc # "stale" => (intr' <=> ~Within(t))
  PROVE  FlagInv'
<1>1. current_process \in Proc /\ pcb[current_process].mem = "allocated"
  BY DEF IndInv, TypeOK, SchedulerConsistent, ListedIsAllocated, Listed
<1>2. InterruptFlagOwned'
  BY <1>1 DEF InterruptFlagOwned, Me, Within
<1> QED
  BY <1>1, <1>2 DEF FlagInv

\* switch_task saves the flag of the process it takes the CPU from and resumes
\* the next one with its own.
LEMMA SwitchTaskFlag ==
  ASSUME IndInv, IndInv', FlagInv, mode = "up", NEW saved \in BOOLEAN, saved <=> intr,
         SwitchTask(saved), th' = th
  PROVE  FlagInv'
<1> DEFINE cur == current_process
<1>0. /\ cur \in Proc /\ pcb[cur].mem = "allocated" /\ active_process \in Proc
      /\ pcb \in [Proc -> Pcbs] /\ Me = th[cur]
  BY DEF IndInv, TypeOK, SchedulerConsistent, ListedIsAllocated, Listed, Me
<1>1. CASE proc_count = 1
  <2>1. UNCHANGED <<sched, pcb, intr, mode>>
    BY <1>1 DEF SwitchTask
  <2> QED BY <2>1 DEF FlagInv, InterruptFlagOwned, Me, sched
<1>2. CASE proc_count # 1
  <2>1. PICK v \in Pcbs : /\ v.intr = saved /\ v.mem = pcb[cur].mem
                          /\ pcb' = [pcb EXCEPT ![cur] = v]
    <3>1. pcb' = [pcb EXCEPT ![cur] = [pcb[cur] EXCEPT !.intr = saved, !.active = active_process]]
      BY <1>2, Zenon DEF SwitchTask, SaveContext
    <3>2. pcb[cur] \in Pcbs
      BY <1>0
    <3> HIDE DEF cur
    <3>3. active_process \in Proc /\ saved \in BOOLEAN
      BY <1>0
    <3>4. LET v == [pcb[cur] EXCEPT !.intr = saved, !.active = active_process]
          IN  v \in Pcbs /\ v.intr = saved /\ v.mem = pcb[cur].mem
      BY <3>2, <3>3, Zenon DEF Pcbs
    <3> QED BY <3>1, <3>4, Zenon
  <2>2. /\ pcb'[cur].intr = saved
        /\ \A p \in Proc : pcb'[p].mem = pcb[p].mem
        /\ \A p \in Proc \ {cur} : pcb'[p] = pcb[p]
    BY <1>0, <2>1
  <2>3. Me.pc # "stale" => (saved <=> ~Within(Me))
    BY DEF FlagInv, InterruptFlagOwned, Within
  <2>4. \A p \in Proc : pcb'[p].mem # "freed" /\ th[p].pc # "stale" =>
          (pcb'[p].intr <=> ~Within(th[p]))
    BY <1>0, <2>2, <2>3 DEF FlagInv
  <2>5. InterruptFlagOwned'
    <3>1. CASE mode' = "hung"
      BY <3>1 DEF InterruptFlagOwned
    <3>2. CASE mode' # "hung"
      <4>1. PICK i \in DOMAIN procs : Dispatch(procs[i], pcb')
        BY <1>2, <3>2 DEF SwitchTask, NotKilled
      <4>2. procs[i] \in Proc /\ pcb[procs[i]].mem = "allocated"
        BY ListFacts DEF IndInv, ListedIsAllocated
      <4>3. current_process' = procs[i] /\ intr' = pcb'[procs[i]].intr
        BY <4>1 DEF Dispatch
      <4> QED BY <2>2, <2>4, <4>2, <4>3 DEF InterruptFlagOwned, Me, Within
    <3> QED BY <3>1, <3>2
  <2>6. \A p \in Proc : pcb'[p].mem = "unused" => th[p].pc = "run"
    BY <2>2 DEF FlagInv
  <2> QED BY <2>4, <2>5, <2>6 DEF FlagInv
<1> QED BY <1>1, <1>2

\* kill(-1, 9): the caller never goes on, whichever process was taken for it.
LEMMA KillSelfFlag ==
  ASSUME IndInv, IndInv', FlagInv, NEW blocks \in [Proc -> Pcbs], KillSelf(blocks),
         \A p \in Proc : /\ blocks[p].mem = pcb[p].mem /\ blocks[p].pid = pcb[p].pid
                         /\ blocks[p].intr = pcb[p].intr
  PROVE  FlagInv'
<1> DEFINE cur == current_process
<1>1. PICK i \in DOMAIN procs : FoundAt(pcb[cur].pid, i) /\ KillNode(i, blocks)
  BY DEF KillSelf
<1> DEFINE p == procs[i]
<1>2. /\ cur \in Proc /\ p \in Proc /\ th \in [Proc -> Threads] /\ pcb[cur].mem = "allocated"
  BY ListFacts DEF IndInv, TypeOK, SchedulerConsistent, ListedIsAllocated, Listed
<1>3. blocks[p].pid = blocks[cur].pid
  BY <1>1, <1>2 DEF FoundAt
<1>4. CASE /\ mode' = "hung" /\ pcb' = [blocks EXCEPT ![p].killed = TRUE]
           /\ UNCHANGED <<sched, th>>
  <2>1. PICK v \in Pcbs : /\ v.mem = blocks[p].mem /\ v.intr = blocks[p].intr
                          /\ pcb' = [blocks EXCEPT ![p] = v]
    <3>1. pcb' = [blocks EXCEPT ![p] = [blocks[p] EXCEPT !.killed = TRUE]]
      BY <1>4, Zenon
    <3>2. blocks[p] \in Pcbs
      BY <1>2
    <3> QED BY <1>2, <3>1, <3>2, BlockFacts, Zenon
  <2>2. \A q \in Proc : pcb'[q].mem = pcb[q].mem /\ pcb'[q].intr = pcb[q].intr
    BY <1>2, <2>1
  <2> QED BY <1>2, <1>4, <2>2, OwnStep DEF sched, FlagInv
<1>5. CASE /\ Unlink(i, blocks)
           /\ \E j \in NotKilled(blocks) \ {i} : Dispatch(procs[j], blocks)
           /\ th' = [th EXCEPT ![cur].pc = "stale", ![p] = FreshThread(p)]
           /\ UNCHANGED mode
  <2>1. PICK j \in DOMAIN procs \ {i} : Dispatch(procs[j], blocks)
    BY <1>5 DEF NotKilled
  <2>2. /\ procs[j] \in Proc /\ procs[j] # p /\ pcb[procs[j]].mem = "allocated"
        /\ current_process' = procs[j] /\ intr' = blocks[procs[j]].intr
    BY <2>1, ListFacts DEF Dispatch, IndInv, SchedulerConsistent, ListedIsAllocated
  <2>3. /\ pcb'[p].mem = "freed"
        /\ \A q \in Proc \ {p} : pcb'[q] = blocks[q]
    <3>1. PICK v \in Pcbs : v.mem = "freed" /\ pcb' = [blocks EXCEPT ![p] = v]
      <4>1. pcb' = [blocks EXCEPT ![p] = [blocks[p] EXCEPT !.killed = TRUE, !.mem = "freed"]]
        BY <1>5, Zenon DEF Unlink
      <4>2. blocks[p] \in Pcbs
        BY <1>2
      <4> QED BY <1>2, <4>1, <4>2, BlockFacts, Zenon
    <3> QED BY <1>2, <3>1
  <2>4. /\ th'[p] = FreshThread(p)
        /\ cur # p => th'[cur].pc = "stale" /\ th'[cur].iret = th[cur].iret
        /\ \A q \in Proc \ {p, cur} : th'[q] = th[q]
    <3>1. PICK t \in Threads :
             /\ t.pc = "stale" /\ t.iret = th[cur].iret
             /\ th' = [[th EXCEPT ![cur] = t] EXCEPT ![p] = FreshThread(p)]
      <4>1. th' = [[th EXCEPT ![cur] = [th[cur] EXCEPT !.pc = "stale"]] EXCEPT ![p] = FreshThread(p)]
        BY <1>5, Zenon
      <4>2. th[cur] \in Threads
        BY <1>2
      <4> QED BY <4>1, <4>2, StaleFacts, Zenon
    <3> QED BY <1>2, <3>1
  <2>5. \A q \in Proc : q # current_process' /\ pcb'[q].mem # "freed" /\ th'[q].pc # "stale" =>
          (pcb'[q].intr <=> ~Within(th'[q]))
    BY <2>3, <2>4 DEF FlagInv
  <2>6. InterruptFlagOwned'
    <3>1. CASE procs[j] = cur
      BY <2>2, <2>4, <3>1 DEF InterruptFlagOwned, Me
    <3>2. CASE procs[j] # cur
      BY <2>2, <2>4, <3>2 DEF InterruptFlagOwned, Me, FlagInv, Within
    <3> QED BY <3>1, <3>2
  <2>7. ASSUME NEW q \in Proc PROVE th'[q].iret = TRUE
    <3>1. CASE q = p
      BY <2>4, <3>1, FreshFacts
    <3>2. CASE q # p
      <4>1. th'[q].iret = th[q].iret
        BY <2>4, <3>2
      <4> QED BY <4>1 DEF FlagInv
    <3> QED BY <3>1, <3>2
  <2>8. ASSUME NEW q \in Proc, th'[q].pc \notin Creating \union {"stale"}
        PROVE  th'[q].home = "run"
    <3>1. CASE q = p
      BY <2>4, <3>1, FreshFacts
    <3>2. CASE q # p
      <4>1. th'[q] = th[q]
        BY <2>4, <2>8, <3>2
      <4> QED BY <2>8, <4>1 DEF FlagInv
    <3> QED BY <3>1, <3>2
  <2>9. ASSUME NEW q \in Proc, pcb'[q].mem = "unused" PROVE th'[q].pc = "run"
    <3>1. q # p
      BY <2>3, <2>9
    <3>2. pcb[q].mem = "unused"
      BY <2>3, <2>9, <3>1
    <3>3. th'[q] = th[q]
      BY <1>2, <2>4, <3>1, <3>2
    <3> QED BY <3>2, <3>3 DEF FlagInv
  <2> QED BY <2>5, <2>6, <2>7, <2>8, <2>9 DEF FlagInv
<1> QED BY <1>1, <1>3, <1>4, <1>5 DEF KillNode

\* Nothing but switch_task writes the flag a process resumes with.
SameFlags == \A p \in Proc : pcb'[p].mem = pcb[p].mem /\ pcb'[p].intr = pcb[p].intr

LEMMA KilledSameFlags ==
  ASSUME IndInv, NEW p \in Proc, NEW b \in BOOLEAN, pcb' = [pcb EXCEPT ![p].killed = b]
  PROVE  SameFlags
<1>1. pcb \in [Proc -> Pcbs] /\ pcb[p] \in Pcbs
  BY DEF IndInv, TypeOK
<1>2. PICK v \in Pcbs : v.intr = pcb[p].intr /\ v.mem = pcb[p].mem /\ pcb' = [pcb EXCEPT ![p] = v]
  <2>1. pcb' = [pcb EXCEPT ![p] = [pcb[p] EXCEPT !.killed = b]]
    BY Zenon
  <2>2. LET v == [pcb[p] EXCEPT !.killed = b]
        IN  v \in Pcbs /\ v.intr = pcb[p].intr /\ v.mem = pcb[p].mem
    BY <1>1, Zenon DEF Pcbs
  <2> QED BY <2>1, <2>2, Zenon
<1> QED BY <1>1, <1>2 DEF SameFlags

\* The steps of the running process that change its place and the flag only.
LEMMA PlaceStep ==
  ASSUME IndInv, IndInv', FlagInv, SameFlags, current_process' = current_process,
         NEW t, th' = [th EXCEPT ![current_process] = t], t.iret = TRUE,
         t.pc \notin Creating \union {"stale"} => t.home = "run",
         mode' = "up" /\ t.pc # "stale" => (intr' <=> ~Within(t))
  PROVE  FlagInv'
<1>1. current_process \in Proc /\ th \in [Proc -> Threads]
  BY DEF IndInv, TypeOK
<1>2. th'[current_process] = t /\ \A p \in Proc \ {current_process} : th'[p] = th[p]
  BY <1>1
<1> QED BY <1>2, OwnStep DEF SameFlags

\* The steps that do not even change the place.
LEMMA StayStep ==
  ASSUME IndInv, IndInv', FlagInv, SameFlags, UNCHANGED <<current_process, th>>,
         \/ UNCHANGED <<intr, mode>>
         \/ mode' # "up"
         \/ Me.pc = "run" /\ intr' = TRUE
  PROVE  FlagInv'
<1>1. /\ Me = th[current_process] /\ Me.iret = TRUE
      /\ Me.pc \notin Creating \union {"stale"} => Me.home = "run"
  BY DEF IndInv, TypeOK, FlagInv, Me
<1>2. mode' = "up" /\ Me.pc # "stale" => (intr' <=> ~Within(Me))
  BY <1>1 DEF FlagInv, InterruptFlagOwned, Within, Creating, Unlisted
<1> QED BY <1>1, <1>2, OwnStep DEF SameFlags

\* The steps of a creation: its end returns to where it was begun.
LEMMA CreationStep ==
  ASSUME IndInv, IndInv', FlagInv, SameFlags, mode = "up",
         UNCHANGED <<current_process, intr, mode>>,
         Me.pc \in Creating,
         \/ \E c \in Creating : th' = [th EXCEPT ![current_process] = [Me EXCEPT !.pc = c]]
         \/ th' = [th EXCEPT ![current_process] = Return(Me)]
  PROVE  FlagInv'
<1>1. /\ current_process \in Proc /\ Me \in Threads /\ Me.iret = TRUE
      /\ intr <=> ~Within(Me)
  BY DEF IndInv, TypeOK, Me, FlagInv, InterruptFlagOwned, Within, Creating, Unlisted
<1>2. ASSUME NEW c \in Creating, th' = [th EXCEPT ![current_process] = [Me EXCEPT !.pc = c]]
      PROVE  FlagInv'
  <2>1. LET v == [Me EXCEPT !.pc = c]
        IN  v.pc = c /\ v.home = Me.home /\ v.iret = Me.iret
    BY <1>1, Zenon DEF Threads
  <2>2. PICK v : /\ v.pc = c /\ v.home = Me.home /\ v.iret = Me.iret
                 /\ th' = [th EXCEPT ![current_process] = v]
    BY <1>2, <2>1, Zenon
  <2>3. Within(v) <=> Within(Me)
    BY <2>2 DEF Within, Creating, Unlisted
  <2> QED BY <1>1, <2>2, <2>3, PlaceStep
<1>3. CASE th' = [th EXCEPT ![current_process] = Return(Me)]
  <2>1. LET v == Return(Me)
        IN  v.pc = Me.home /\ v.home = "run" /\ v.iret = Me.iret
    BY <1>1, Zenon DEF Threads, Return
  <2>2. PICK v : /\ v.pc = Me.home /\ v.home = "run" /\ v.iret = Me.iret
                 /\ th' = [th EXCEPT ![current_process] = v]
    BY <1>3, <2>1, Zenon
  <2>3. Within(v) <=> Within(Me)
    BY <2>2 DEF Within, Creating, Unlisted
  <2> QED BY <1>1, <2>2, <2>3, PlaceStep
<1> QED BY <1>2, <1>3

\* A new block has the flag process_thumb enables.
LEMMA AllocProcessFlag ==
  ASSUME IndInv, IndInv', FlagInv, NEW k \in Kinds, AllocProcess(k)
  PROVE  FlagInv'
<1> DEFINE p == CHOOSE q \in Proc : pcb[q].mem = "unused"
           cur == current_process
<1>1. p \in Proc /\ pcb[p].mem = "unused"
  BY DEF AllocProcess
<1>2. /\ cur \in Proc /\ Me \in Threads /\ Me = th[cur] /\ pcb[cur].mem = "allocated"
      /\ pcb \in [Proc -> Pcbs] /\ th \in [Proc -> Threads]
  BY DEF IndInv, TypeOK, SchedulerConsistent, ListedIsAllocated, Listed, Me
<1>3. Me.pc \in {"run", "syscall", "handler"} /\ mode = "up"
  BY DEF AllocProcess, Creates
<1>4. /\ pcb' = [pcb EXCEPT ![p] = FreshPcb(p, k, pid_top)]
      /\ th' = [th EXCEPT ![cur] = [Me EXCEPT !.pc = "alloc", !.home = Me.pc, !.child = p]]
      /\ UNCHANGED <<sched, intr, mode>>
  BY Zenon DEF AllocProcess, Me
<1>5. FreshPcb(p, k, pid_top).intr = TRUE /\ FreshPcb(p, k, pid_top).mem = "allocated"
  BY DEF FreshPcb
<1> HIDE DEF p, cur
<1>6. PICK v : /\ v.pc = "alloc" /\ v.home = Me.pc /\ v.iret = Me.iret
               /\ th' = [th EXCEPT ![cur] = v]
  <2>1. LET v == [Me EXCEPT !.pc = "alloc", !.home = Me.pc, !.child = p]
        IN  v.pc = "alloc" /\ v.home = Me.pc /\ v.iret = Me.iret
    BY <1>2, Zenon DEF Threads
  <2> QED BY <1>4, <2>1, Zenon
<1>7. /\ pcb'[p].intr = TRUE /\ pcb'[p].mem = "allocated" /\ p # cur
      /\ \A q \in Proc \ {p} : pcb'[q] = pcb[q]
      /\ th'[cur] = v /\ \A q \in Proc \ {cur} : th'[q] = th[q]
      /\ cur' = cur
  BY <1>1, <1>2, <1>4, <1>5, <1>6 DEF sched, cur
<1>8. Within(v) <=> Within(Me)
  <2>1. Me.home = "run"
    BY <1>2, <1>3 DEF FlagInv, Creating, Unlisted, cur
  <2> QED BY <1>3, <1>6, <2>1 DEF Within
<1>9. ~Within(th[p])
  BY <1>1 DEF FlagInv, Within, Creating, Unlisted
<1>10. InterruptFlagOwned'
  BY <1>2, <1>3, <1>4, <1>6, <1>7, <1>8 DEF FlagInv, InterruptFlagOwned, Me, Within, cur
<1>11. \A q \in Proc : q # cur' /\ pcb'[q].mem # "freed" /\ th'[q].pc # "stale" =>
         (pcb'[q].intr <=> ~Within(th'[q]))
  BY <1>7, <1>9 DEF FlagInv, cur
<1>12. \A q \in Proc : /\ th'[q].iret = TRUE
                       /\ th'[q].pc \notin Creating \union {"stale"} => th'[q].home = "run"
                       /\ pcb'[q].mem = "unused" => th'[q].pc = "run"
  BY <1>2, <1>6, <1>7 DEF FlagInv, Creating, Unlisted
<1> QED BY <1>10, <1>11, <1>12 DEF FlagInv, cur

-----------------------------------------------------------------------------
(***************************************************************************)
(* One lemma per action, or per group of actions.                          *)
(***************************************************************************)
\* A block that a creation or a configuration overwrites keeps its flag.
LEMMA ReplacedSameFlags ==
  ASSUME IndInv, NEW p \in Proc, NEW v, pcb' = [pcb EXCEPT ![p] = v],
         v.mem = pcb[p].mem, v.intr = pcb[p].intr
  PROVE  SameFlags
BY DEF SameFlags, IndInv, TypeOK

\* The running process moves to c and its system call, if it is in one, returns with f.
Moved(c, f) ==
  \E t : /\ th' = [th EXCEPT ![current_process] = t]
         /\ t.pc = c /\ t.home = Me.home /\ t.iret = f

LEMMA MovedPc ==
  ASSUME Me \in Threads, NEW c,
         th' = [th EXCEPT ![current_process] = [Me EXCEPT !.pc = c]]
  PROVE  Moved(c, Me.iret)
<1> DEFINE v == [Me EXCEPT !.pc = c]
<1>1. v.pc = c /\ v.home = Me.home /\ v.iret = Me.iret
  BY Zenon DEF Threads
<1> QED BY <1>1, Zenon DEF Moved

LEMMA MovedNode ==
  ASSUME Me \in Threads, NEW n,
         th' = [th EXCEPT ![current_process] = [Me EXCEPT !.node = n]]
  PROVE  Moved(Me.pc, Me.iret)
<1> DEFINE v == [Me EXCEPT !.node = n]
<1>1. v.pc = Me.pc /\ v.home = Me.home /\ v.iret = Me.iret
  BY Zenon DEF Threads
<1> QED BY <1>1, Zenon DEF Moved

LEMMA MovedBack ==
  ASSUME Me \in Threads, NEW c, NEW n,
         th' = [th EXCEPT ![current_process] = [Me EXCEPT !.pc = c, !.node = n]]
  PROVE  Moved(c, Me.iret)
<1> DEFINE v == [Me EXCEPT !.pc = c, !.node = n]
<1>1. v.pc = c /\ v.home = Me.home /\ v.iret = Me.iret
  BY Zenon DEF Threads
<1> QED BY <1>1, Zenon DEF Moved

LEMMA MovedOut ==
  ASSUME Me \in Threads, NEW c, NEW n, NEW a,
         th' = [th EXCEPT ![current_process] = [Me EXCEPT !.pc = c, !.node = n, !.me = a]]
  PROVE  Moved(c, Me.iret)
<1> DEFINE v == [Me EXCEPT !.pc = c, !.node = n, !.me = a]
<1>1. v.pc = c /\ v.home = Me.home /\ v.iret = Me.iret
  BY Zenon DEF Threads
<1> QED BY <1>1, Zenon DEF Moved

LEMMA MovedGate ==
  ASSUME Me \in Threads, NEW c, NEW f,
         th' = [th EXCEPT ![current_process] = [Me EXCEPT !.pc = c, !.iret = f]]
  PROVE  Moved(c, f)
<1> DEFINE v == [Me EXCEPT !.pc = c, !.iret = f]
<1>1. v.pc = c /\ v.home = Me.home /\ v.iret = f
  BY Zenon DEF Threads
<1> QED BY <1>1, Zenon DEF Moved

LEMMA MovedDone ==
  ASSUME Me \in Threads, NEW c, NEW n, NEW f,
         th' = [th EXCEPT ![current_process] = [Me EXCEPT !.pc = c, !.node = n, !.iret = f]]
  PROVE  Moved(c, f)
<1> DEFINE v == [Me EXCEPT !.pc = c, !.node = n, !.iret = f]
<1>1. v.pc = c /\ v.home = Me.home /\ v.iret = f
  BY Zenon DEF Threads
<1> QED BY <1>1, Zenon DEF Moved

LEMMA MyPlace ==
  ASSUME IndInv, FlagInv, mode = "up"
  PROVE  /\ current_process \in Proc /\ Me \in Threads /\ Me = th[current_process]
         /\ Me.iret = TRUE
         /\ Me.pc # "stale" => (intr <=> ~Within(Me))
         /\ Me.pc \notin Creating \union {"stale"} => Me.home = "run"
BY DEF IndInv, TypeOK, Me, FlagInv, InterruptFlagOwned, Within

LEMMA CreationFlag ==
  ASSUME IndInv, IndInv', FlagInv, StorePidTop \/ AppendProcess
  PROVE  FlagInv'
<1>1. CASE StorePidTop
  <2>1. /\ SameFlags /\ mode = "up" /\ UNCHANGED <<current_process, intr, mode>>
        /\ Me.pc \in Creating
    BY <1>1 DEF StorePidTop, sched, SameFlags, Creating, Unlisted
  <2>2. th' = [th EXCEPT ![current_process] = [Me EXCEPT !.pc = "append"]]
    BY <1>1, Zenon DEF StorePidTop, Me
  <2>3. "append" \in Creating
    BY DEF Creating, Unlisted
  <2> QED BY <2>1, <2>2, <2>3, CreationStep
<1>2. CASE AppendProcess
  <2>1. /\ SameFlags /\ mode = "up" /\ UNCHANGED <<current_process, intr, mode>>
        /\ Me.pc \in Creating
    BY <1>2 DEF AppendProcess, SameFlags, Creating, Unlisted
  <2> DEFINE c == IF pcb[Child].kind = "zombie" THEN "config" ELSE "start"
  <2>2. th' = [th EXCEPT ![current_process] = [Me EXCEPT !.pc = c]]
    BY <1>2, Zenon DEF AppendProcess, Me
  <2>3. c \in Creating
    BY DEF Creating
  <2> QED BY <2>1, <2>2, <2>3, CreationStep
<1> QED BY <1>1, <1>2

LEMMA ForkConfigFacts ==
  ASSUME NEW r \in Pcbs, NEW s, NEW a, NEW k, NEW b
  PROVE  /\ LET v == [r EXCEPT !.system = s, !.active = a, !.kill = k, !.killed = b]
            IN  v.mem = r.mem /\ v.intr = r.intr
         /\ LET v == [r EXCEPT !.system = s, !.kill = k]
            IN  v.mem = r.mem /\ v.intr = r.intr
BY Zenon DEF Pcbs

LEMMA StartProcessFlag ==
  ASSUME IndInv, IndInv', FlagInv, StartProcess
  PROVE  FlagInv'
<1>1. /\ current_process \in Proc /\ Me \in Threads /\ Me.pc = "start"
      /\ th[current_process] = Me
  BY DEF StartProcess, IndInv, TypeOK, Me
<1>2. Child \in Proc /\ pcb[Child] \in Pcbs
  BY <1>1 DEF IndInv, TypeOK, ChildrenApart, Creating, Child
<1>3. /\ mode = "up" /\ UNCHANGED <<current_process, intr, mode>>
      /\ Me.pc \in Creating /\ {"resume", "config"} \subseteq Creating
  BY <1>1 DEF StartProcess, sched, Creating
<1>4. SameFlags
  <2>1. CASE pcb[Child].kind = "fork"
    <3>1. pcb' = [pcb EXCEPT ![Child] =
             [pcb[Child] EXCEPT !.system = pcb[current_process].system,
                                !.active = Child,
                                !.kill = pcb[current_process].kill,
                                !.killed = FALSE]]
      BY <2>1 DEF StartProcess, Forked
    <3>2. LET v == [pcb[Child] EXCEPT !.system = pcb[current_process].system,
                                      !.active = Child,
                                      !.kill = pcb[current_process].kill,
                                      !.killed = FALSE]
          IN  v.mem = pcb[Child].mem /\ v.intr = pcb[Child].intr
      BY <1>2, ForkConfigFacts
    <3> QED BY <1>2, <3>1, <3>2, ReplacedSameFlags, Zenon
  <2>2. CASE pcb[Child].kind # "fork"
    <3>1. \E b \in BOOLEAN : pcb' = [pcb EXCEPT ![Child].killed = b]
      BY <2>2, Zenon DEF StartProcess
    <3> QED BY <1>2, <3>1, KilledSameFlags
  <2> QED BY <2>1, <2>2
<1>5. \/ \E c \in Creating : th' = [th EXCEPT ![current_process] = [Me EXCEPT !.pc = c]]
      \/ th' = [th EXCEPT ![current_process] = Return(Me)]
  <2>1. \/ th' = [th EXCEPT ![current_process] = [Me EXCEPT !.pc = "resume"]]
        \/ th' = [th EXCEPT ![current_process] = [Me EXCEPT !.pc = "config"]]
        \/ th' = [th EXCEPT ![current_process] = Return(Me)]
    BY <1>1, Zenon DEF StartProcess
  <2> QED BY <1>3, <2>1
<1> QED BY <1>3, <1>4, <1>5, CreationStep

LEMMA ConfigProcessFlag ==
  ASSUME IndInv, IndInv', FlagInv, ConfigProcess
  PROVE  FlagInv'
<1>1. /\ current_process \in Proc /\ Me.pc = "config" /\ th[current_process] = Me
  BY DEF ConfigProcess, IndInv, TypeOK, Me
<1>2. Child \in Proc /\ pcb[Child] \in Pcbs
  BY <1>1 DEF IndInv, TypeOK, ChildrenApart, Creating, Child
<1>3. /\ mode = "up" /\ UNCHANGED <<current_process, intr, mode>> /\ Me.pc \in Creating
      /\ th' = [th EXCEPT ![current_process] = Return(Me)]
  BY <1>1 DEF ConfigProcess, sched, Creating
<1>4. SameFlags
  <2> DEFINE k == pcb[Child].kind
             system == pcb[Child].system \/ k \in {"dispatchd", "videod", "zombie"}
             kill == IF k \in {"dispatchd", "zombie"} THEN "force_alive" ELSE pcb[Child].kill
  <2>1. pcb' = [pcb EXCEPT ![Child] = [pcb[Child] EXCEPT !.system = system, !.kill = kill]]
    BY Zenon DEF ConfigProcess
  <2> HIDE DEF system, kill
  <2>2. LET v == [pcb[Child] EXCEPT !.system = system, !.kill = kill]
        IN  v.mem = pcb[Child].mem /\ v.intr = pcb[Child].intr
    BY <1>2, ForkConfigFacts
  <2> QED BY <1>2, <2>1, <2>2, ReplacedSameFlags, Zenon
<1> QED BY <1>3, <1>4, CreationStep

\* The pauses and wake-ups of any process by any other.
LEMMA PausesSameFlags ==
  ASSUME IndInv, \/ pcb' = pcb
                 \/ \E p \in Proc, b \in BOOLEAN : pcb' = [pcb EXCEPT ![p].killed = b]
  PROVE  SameFlags
<1>1. CASE pcb' = pcb
  BY <1>1 DEF SameFlags
<1>2. CASE \E p \in Proc, b \in BOOLEAN : pcb' = [pcb EXCEPT ![p].killed = b]
  BY <1>2, KilledSameFlags
<1> QED BY <1>1, <1>2

LEMMA ResumeProgramFlag ==
  ASSUME IndInv, IndInv', FlagInv, ResumeProgram
  PROVE  FlagInv'
<1>1. /\ mode = "up" /\ UNCHANGED <<current_process, intr, mode>> /\ Me.pc \in Creating
      /\ th' = [th EXCEPT ![current_process] = Return(Me)]
  BY DEF ResumeProgram, sched, Creating, Me
<1>2. SameFlags
  <2>1. \A i \in DOMAIN procs : procs[i] \in Proc
    BY ListFacts DEF IndInv
  <2> QED BY <2>1, PausesSameFlags DEF ResumeProgram
<1> QED BY <1>1, <1>2, CreationStep

LEMMA PauseFlag ==
  ASSUME IndInv, IndInv', FlagInv,
         LaunchProgram \/ DaemonPause \/ \E d \in Daemons : Wake(d)
  PROVE  FlagInv'
<1>1. UNCHANGED <<current_process, th>>
  BY DEF LaunchProgram, DaemonPause, Wake, Local, sched
<1>2. \/ UNCHANGED <<intr, mode>>
      \/ Me.pc = "run" /\ intr' = TRUE
  <2>1. CASE LaunchProgram
    BY <2>1 DEF LaunchProgram
  <2>2. CASE DaemonPause
    BY <2>2 DEF DaemonPause
  <2>3. CASE \E d \in Daemons : Wake(d)
    BY <2>3 DEF Wake
  <2> QED BY <2>1, <2>2, <2>3
<1>3. SameFlags
  <2>1. /\ \A i \in DOMAIN procs : procs[i] \in Proc
        /\ \A d \in Daemons : daemon[d] # None => daemon[d] \in Proc
    BY ListFacts DEF IndInv, TypeOK
  <2>2. \E p \in Proc, b \in BOOLEAN : pcb' = [pcb EXCEPT ![p].killed = b]
    BY <2>1, Zenon DEF LaunchProgram, DaemonPause, Wake
  <2> QED BY <2>2, PausesSameFlags
<1> QED BY <1>1, <1>2, <1>3, StayStep

LEMMA BroadcastFlag ==
  ASSUME IndInv, IndInv', FlagInv, BroadcastStart \/ BroadcastNext
  PROVE  FlagInv'
<1>1. /\ SameFlags /\ mode = "up" /\ UNCHANGED <<current_process, intr, mode>>
  BY DEF BroadcastStart, BroadcastNext, SameFlags
<1>2. /\ Me \in Threads /\ Me.pc \in {"run", "handler"} /\ Me.home = "run" /\ Me.iret = TRUE
      /\ intr = TRUE
  <2>1. Me.pc \in {"run", "handler"}
    BY DEF BroadcastStart, BroadcastNext
  <2>2. intr \in BOOLEAN
    BY DEF IndInv, TypeOK
  <2> QED BY <1>1, <2>1, <2>2, MyPlace DEF Creating, Unlisted, Within
<1>3. Moved("run", Me.iret) \/ Moved("handler", Me.iret)
  <2>1. CASE BroadcastStart
    <3>1. th' = [th EXCEPT ![current_process] =
                   [Me EXCEPT !.pc = "handler", !.node = procs[1], !.me = active_process]]
      BY <2>1, Zenon DEF BroadcastStart, Me
    <3> QED BY <1>2, <3>1, MovedOut, Zenon
  <2>2. CASE BroadcastNext
    <3>1. \/ th' = [th EXCEPT ![current_process] = [Me EXCEPT !.pc = "run", !.node = None]]
          \/ \E n : th' = [th EXCEPT ![current_process] = [Me EXCEPT !.node = n]]
      BY <2>2, Zenon DEF BroadcastNext, Me
    <3>2. Moved("run", Me.iret) \/ Moved(Me.pc, Me.iret)
      BY <1>2, <3>1, MovedBack, MovedNode, Zenon
    <3> QED BY <1>2, <3>2
  <2> QED BY <2>1, <2>2
<1>4. PICK t : /\ th' = [th EXCEPT ![current_process] = t]
               /\ t.pc \in {"run", "handler"} /\ t.home = "run" /\ t.iret = TRUE
  BY <1>2, <1>3 DEF Moved
<1>5. intr' = TRUE /\ ~Within(t)
  BY <1>1, <1>2, <1>4 DEF Within
<1> QED BY <1>1, <1>4, <1>5, PlaceStep DEF Creating, Unlisted

\* A system call: the flag follows the place, and the call returns with the flag
\* it was entered with, which was enabled.
LEMMA SyscallFlag ==
  ASSUME IndInv, IndInv', FlagInv,
         EnterSyscall \/ EnableInSyscall \/ LeaveSyscall \/ SendEvent \/ SendEventDone
  PROVE  FlagInv'
<1>1. /\ SameFlags /\ mode = "up" /\ UNCHANGED <<current_process, mode>>
  BY DEF EnterSyscall, EnableInSyscall, LeaveSyscall, SendEvent, SendEventDone,
         SameFlags, sched
<1>2. /\ Me \in Threads /\ Me.pc \in {"run", "syscall", "enabled", "sending"}
      /\ Me.home = "run" /\ Me.iret = TRUE /\ intr \in BOOLEAN
      /\ Me.pc = "run" => intr = TRUE
      /\ Me.pc \in {"syscall", "sending"} => intr = FALSE
  <2>1. Me.pc \in {"run", "syscall", "enabled", "sending"}
    BY DEF EnterSyscall, EnableInSyscall, LeaveSyscall, SendEvent, SendEventDone
  <2>2. intr \in BOOLEAN
    BY DEF IndInv, TypeOK
  <2> QED BY <1>1, <2>1, <2>2, MyPlace DEF Creating, Unlisted, Within
<1>3. \/ Moved("run", TRUE) /\ intr' = TRUE
      \/ Moved("enabled", TRUE) /\ intr' = TRUE
      \/ Moved("syscall", TRUE) /\ intr' = FALSE
      \/ Moved("sending", TRUE) /\ intr' = FALSE
  <2>1. CASE EnterSyscall
    <3>1. PICK flag \in {intr, TRUE} :
             th' = [th EXCEPT ![current_process] = [Me EXCEPT !.pc = "syscall", !.iret = flag]]
      BY <2>1, Zenon DEF EnterSyscall, Me
    <3>2. flag = TRUE /\ intr' = FALSE
      BY <1>2, <2>1, <3>1 DEF EnterSyscall
    <3> QED BY <1>2, <3>1, <3>2, MovedGate, Zenon
  <2>2. CASE EnableInSyscall
    <3>1. /\ th' = [th EXCEPT ![current_process] = [Me EXCEPT !.pc = "enabled"]]
          /\ intr' = TRUE
      BY <2>2, Zenon DEF EnableInSyscall, Me
    <3> QED BY <1>2, <3>1, MovedPc, Zenon
  <2>3. CASE LeaveSyscall
    <3>1. /\ th' = [th EXCEPT ![current_process] = [Me EXCEPT !.pc = "run", !.iret = TRUE]]
          /\ intr' = Me.iret
      BY <2>3, Zenon DEF LeaveSyscall, Me
    <3> QED BY <1>2, <3>1, MovedGate, Zenon
  <2>4. CASE SendEvent
    <3>1. PICK n : th' = [th EXCEPT ![current_process] =
                            [Me EXCEPT !.pc = "sending", !.node = n, !.me = active_process]]
      BY <2>4, Zenon DEF SendEvent, Me
    <3>2. intr' = FALSE
      BY <1>2, <2>4 DEF SendEvent
    <3> QED BY <1>2, <3>1, <3>2, MovedOut, Zenon
  <2>5. CASE SendEventDone
    <3>1. /\ th' = [th EXCEPT ![current_process] =
                      [Me EXCEPT !.pc = "run", !.node = None, !.iret = TRUE]]
          /\ intr' = Me.iret
      BY <2>5, Zenon DEF SendEventDone, Me
    <3> QED BY <1>2, <3>1, MovedDone, Zenon
  <2> QED BY <2>1, <2>2, <2>3, <2>4, <2>5
<1>4. PICK t : /\ th' = [th EXCEPT ![current_process] = t]
               /\ t.pc \in {"run", "syscall", "enabled", "sending"}
               /\ t.home = Me.home /\ t.iret = TRUE
               /\ intr' <=> t.pc \notin {"syscall", "sending"}
  BY <1>3 DEF Moved
<1>5. intr' <=> ~Within(t)
  BY <1>2, <1>4 DEF Within
<1> QED BY <1>1, <1>2, <1>4, <1>5, PlaceStep DEF Creating, Unlisted

LEMMA RetireFlag ==
  ASSUME IndInv, IndInv', FlagInv, Retire
  PROVE  FlagInv'
<1>1. /\ mode = "up" /\ Me.pc = "run" /\ current_process = Init0
      /\ UNCHANGED <<current_process, intr, mode>>
      /\ pcb' = [pcb EXCEPT ![Init0].killed = TRUE]
  BY DEF Retire, sched
<1>2. SameFlags
  BY <1>1, Init0InProc, PausesSameFlags
<1>3. /\ Me \in Threads /\ Me.home = "run" /\ Me.iret = TRUE
      /\ intr <=> ~Within(Me)
  BY <1>1, MyPlace DEF Creating, Unlisted
<1>4. Moved("idle", Me.iret)
  <2>1. th' = [th EXCEPT ![current_process] = [Me EXCEPT !.pc = "idle"]]
    BY <1>1, Zenon DEF Retire, Me
  <2> QED BY <1>3, <2>1, MovedPc
<1>5. PICK t : /\ th' = [th EXCEPT ![current_process] = t]
               /\ t.pc = "idle" /\ t.home = "run" /\ t.iret = TRUE
  BY <1>3, <1>4 DEF Moved
<1>6. intr' <=> ~Within(t)
  BY <1>1, <1>3, <1>5 DEF Within
<1> QED BY <1>1, <1>2, <1>5, <1>6, PlaceStep

LEMMA SwitchFlag ==
  ASSUME IndInv, IndInv', FlagInv, Tick \/ Yield
  PROVE  FlagInv'
<1>1. mode = "up" /\ th' = th /\ intr \in BOOLEAN
  BY DEF Tick, Yield, Local, IndInv, TypeOK
<1>2. (SwitchTask(TRUE) /\ intr) \/ SwitchTask(intr)
  BY DEF Tick, Yield
<1> QED BY <1>1, <1>2, SwitchTaskFlag

LEMMA ExitFlag ==
  ASSUME IndInv, IndInv', FlagInv, Exit
  PROVE  FlagInv'
<1>1. KillSelf(pcb) /\ pcb \in [Proc -> Pcbs]
  BY DEF Exit, IndInv, TypeOK
<1> QED BY <1>1, KillSelfFlag

\* An exception in a system process stops the machine; any other process is
\* paused and killed.
LEMMA HandleExceptionFlag ==
  ASSUME IndInv, IndInv', FlagInv, HandleException
  PROVE  FlagInv'
<1> DEFINE blocks == [pcb EXCEPT ![current_process].killed = TRUE]
<1>1. \/ /\ mode' = "panic" /\ pcb' = blocks /\ UNCHANGED <<sched, th>>
      \/ KillSelf(blocks)
  BY Zenon DEF HandleException
<1>2. current_process \in Proc /\ pcb[current_process] \in Pcbs /\ pcb \in [Proc -> Pcbs]
  BY DEF IndInv, TypeOK
<1>3. CASE mode' = "panic" /\ pcb' = blocks /\ UNCHANGED <<sched, th>>
  <2>1. SameFlags
    BY <1>2, <1>3, KilledSameFlags
  <2> QED BY <1>3, <2>1, StayStep DEF sched
<1>4. CASE KillSelf(blocks)
  <2>1. LET v == [pcb[current_process] EXCEPT !.killed = TRUE]
        IN  v.intr = pcb[current_process].intr
    BY <1>2, BlockFacts
  <2>2. blocks[current_process] = [pcb[current_process] EXCEPT !.killed = TRUE]
        /\ \A p \in Proc \ {current_process} : blocks[p] = pcb[p]
    BY <1>2, Zenon
  <2>3. \A p \in Proc : blocks[p].intr = pcb[p].intr
    BY <2>1, <2>2
  <2>4. /\ blocks \in [Proc -> Pcbs]
        /\ \A p \in Proc : blocks[p].mem = pcb[p].mem /\ blocks[p].pid = pcb[p].pid
    BY <1>2, PausedBlocks, Zenon
  <2> HIDE DEF blocks
  <2> QED BY <1>4, <2>3, <2>4, KillSelfFlag
<1> QED BY <1>1, <1>3, <1>4

LEMMA NextFlag ==
  ASSUME Signals = {}, IndInv, IndInv', FlagInv, [Next]_vars
  PROVE  FlagInv'
<1>1. CASE \E k \in Kinds : AllocProcess(k)
  BY <1>1, AllocProcessFlag
<1>2. CASE StorePidTop \/ AppendProcess
  BY <1>2, CreationFlag
<1>3. CASE StartProcess
  BY <1>3, StartProcessFlag
<1>4. CASE ConfigProcess
  BY <1>4, ConfigProcessFlag
<1>5. CASE ResumeProgram
  BY <1>5, ResumeProgramFlag
<1>6. CASE LaunchProgram \/ DaemonPause \/ \E d \in Daemons : Wake(d)
  BY <1>6, PauseFlag
<1>7. CASE Tick \/ Yield
  BY <1>7, SwitchFlag
<1>8. CASE BroadcastStart \/ BroadcastNext
  BY <1>8, BroadcastFlag
<1>9. CASE EnterSyscall \/ EnableInSyscall \/ LeaveSyscall \/ SendEvent \/ SendEventDone
  BY <1>9, SyscallFlag
<1>10. CASE Exit
  BY <1>10, ExitFlag
<1>11. CASE Retire
  BY <1>11, RetireFlag
<1>12. CASE HandleException
  BY <1>12, HandleExceptionFlag
<1>13. CASE UNCHANGED vars
  <2>1. SameFlags /\ UNCHANGED <<current_process, th, intr, mode>>
    BY <1>13 DEF vars, sched, SameFlags
  <2> QED BY <2>1, StayStep
<1> QED BY <1>1, <1>2, <1>3, <1>4, <1>5, <1>6, <1>7, <1>8, <1>9, <1>10, <1>11,
           <1>12, <1>13 DEF Next

\* Process code runs with interrupts disabled inside a system call that has not
\* enabled them and nowhere else (yield, switch_task, kill, the system call
\* gates), as long as kill is only called to end the caller or a faulting process.
THEOREM InterruptsOwned ==
  ASSUME Signals = {}
  PROVE  Spec => []InterruptFlagOwned
<1>1. Init => IndInv /\ FlagInv
  BY InitInd, InitFlag
<1>2. IndInv /\ FlagInv /\ [Next]_vars => (IndInv /\ FlagInv)'
  BY NextInd, NextFlag
<1>3. FlagInv => InterruptFlagOwned
  BY DEF FlagInv
<1> QED BY <1>1, <1>2, <1>3, PTL DEF Spec

-----------------------------------------------------------------------------
(***************************************************************************)
(* The active process.  A process that runs its own code has nothing in    *)
(* hand; one that is away in a handler remembers itself.  A fork must find *)
(* the child as it was created: it is made inside a system call, and       *)
(* nothing cuts that before it is done, kill and exceptions apart, which   *)
(* give it up.                                                             *)
(***************************************************************************)
\* In a handler that another process's event leads to, or creating one from there.
Away(t) == t.pc \in {"handler", "sending"} \/ (t.pc \in Creating /\ t.home = "handler")

Place(p, t) ==
  /\ t.pc # "stale" /\ ~Away(t) => t.node = None
  /\ Away(t) => t.me = p

\* Inside a system call that has not enabled interrupts nobody else gets the CPU
\* before the process gives it up, which it does not do while it creates another.
Uncut(p) ==
  /\ th[p].pc = "syscall" => IF p = current_process THEN ~intr ELSE ~pcb[p].intr
  /\ th[p].pc \in Creating /\ th[p].home = "syscall" => p = current_process /\ ~intr

\* The block that p is creating.
Newborn(p) ==
  th[p].pc \in Creating =>
    LET c == th[p].child IN
    /\ pcb[c].mem # "unused"
    /\ pcb[c].kind = "fork" => th[p].home = "syscall"
    /\ th[p].pc \in Unlisted \/ th[p].home = "syscall" => th[c].pc = "run"
    /\ th[p].pc \in Unlisted => pcb[c].active = c

\* ActiveRestored for one process.
Restored(p) ==
  th[p].pc # "stale" =>
    (IF p = current_process THEN active_process ELSE pcb[p].active)
      = IF th[p].node = None THEN p ELSE th[p].node

ActiveInv ==
  mode # "hung" =>
    /\ \A p \in Proc : Place(p, th[p])
    /\ \A p \in Proc : Uncut(p)
    /\ \A p \in Proc : Newborn(p)
    /\ \A p \in Proc : pcb[p].mem = "unused" => th[p].pc = "run"
    /\ \A p \in Proc : Listed(p) => Restored(p)

LEMMA RestoredIs ==
  ASSUME IndInv, ActiveInv
  PROVE  ActiveRestored
<1> SUFFICES ASSUME mode # "hung", NEW i \in DOMAIN procs
             PROVE  Restored(procs[i])
  BY DEF ActiveRestored, Restored
<1>1. procs[i] \in Proc /\ Listed(procs[i])
  BY ListFacts DEF IndInv, Listed
<1> QED
  BY <1>1 DEF ActiveInv

LEMMA InitActive == Init => ActiveInv
<1> SUFFICES ASSUME Init PROVE ActiveInv
  OBVIOUS
<1>1. \A p \in Proc : th[p].pc = "run" /\ th[p].home = "run" /\ th[p].node = None
  BY DEF Init, FreshThread
<1>2. ASSUME NEW p \in Proc, Listed(p) PROVE p = Init0
  <2>1. procs = <<Init0>>
    BY DEF Init
  <2> QED BY <1>2, <2>1 DEF Listed
<1>3. \A p \in Proc : Place(p, th[p]) /\ Uncut(p) /\ Newborn(p)
  BY <1>1 DEF Place, Away, Uncut, Newborn, Creating, Unlisted
<1>4. \A p \in Proc : Listed(p) => Restored(p)
  BY <1>1, <1>2 DEF Restored, Init
<1> QED
  BY <1>1, <1>3, <1>4 DEF ActiveInv

\* What every step but a switch, a creation and an end leaves of the blocks.
BlocksKeep ==
  \A p \in Proc :
    /\ pcb'[p].mem = pcb[p].mem /\ pcb'[p].kind = pcb[p].kind /\ pcb'[p].intr = pcb[p].intr
    /\ pcb'[p].active = pcb[p].active \/ (pcb'[p].active = p /\ th[p].pc = "run")

\* The place t the running process may go to.
Suits(t) ==
  /\ Place(current_process, t)
  /\ t.pc = "syscall" => ~intr'
  /\ t.pc \in Creating =>
       /\ Me.pc \in Creating /\ t.child = Me.child /\ t.home = Me.home
       /\ t.pc \in Unlisted => Me.pc \in Unlisted
       /\ t.home = "syscall" => ~intr'
  /\ t.pc # "stale" =>
       active_process' = IF t.node = None THEN current_process ELSE t.node

LEMMA OwnActive ==
  ASSUME IndInv, ActiveInv, mode = "up", current_process' = current_process,
         \A q \in Proc : Listed(q)' => Listed(q) \/ (Me.pc \in Unlisted /\ q = Child),
         BlocksKeep, NEW t, th' = [th EXCEPT ![current_process] = t], Suits(t)
  PROVE  ActiveInv'
<1> DEFINE cur == current_process
<1>1. /\ cur \in Proc /\ Me = th[cur] /\ Listed(cur) /\ pcb[cur].mem = "allocated"
      /\ th'[cur] = t /\ \A p \in Proc \ {cur} : th'[p] = th[p]
  BY DEF IndInv, TypeOK, SchedulerConsistent, ListedIsAllocated, Listed, Me
<1>2. /\ \A p \in Proc : Place(p, th[p]) /\ Uncut(p) /\ Newborn(p)
      /\ \A p \in Proc : pcb[p].mem = "unused" => th[p].pc = "run"
      /\ \A p \in Proc : Listed(p) => Restored(p)
  BY DEF ActiveInv
<1>3. \A p \in Proc : Place(p, th'[p])
  BY <1>1, <1>2 DEF Suits
<1>4. \A p \in Proc : Uncut(p)'
  <2>1. Uncut(cur)'
    BY <1>1 DEF Uncut, Suits
  <2>2. ASSUME NEW p \in Proc \ {cur} PROVE Uncut(p)'
    BY <1>1, <1>2 DEF Uncut, BlocksKeep
  <2> QED BY <2>1, <2>2
<1>5. \A p \in Proc : Newborn(p)'
  <2>1. ASSUME NEW p \in Proc, th'[p].pc \in Creating
        PROVE  /\ th[p].pc \in Creating /\ th'[p].child = th[p].child /\ th'[p].home = th[p].home
               /\ th'[p].pc \in Unlisted => th[p].pc \in Unlisted
               /\ th[p].child \in Proc
    <3>1. CASE p = cur
      BY <1>1, <2>1, <3>1 DEF Suits, IndInv, ChildrenApart
    <3>2. CASE p # cur
      BY <1>1, <2>1, <3>2 DEF IndInv, ChildrenApart
    <3> QED BY <3>1, <3>2
  <2>2. ASSUME NEW p \in Proc, th[p].pc \in Creating,
               th[p].pc \in Unlisted \/ th[p].home = "syscall"
        PROVE  th[p].child # cur
    <3>1. CASE th[p].pc \in Unlisted
      BY <1>1, <3>1 DEF IndInv, ChildrenApart
    <3>2. CASE th[p].home = "syscall"
      BY <1>1, <1>2, <2>2, <3>2 DEF Uncut, Newborn, Creating, Unlisted
    <3> QED BY <2>2, <3>1, <3>2
  <2> SUFFICES ASSUME NEW p \in Proc, th'[p].pc \in Creating
               PROVE  LET c == th'[p].child IN
                      /\ pcb'[c].mem # "unused"
                      /\ pcb'[c].kind = "fork" => th'[p].home = "syscall"
                      /\ th'[p].pc \in Unlisted \/ th'[p].home = "syscall" => th'[c].pc = "run"
                      /\ th'[p].pc \in Unlisted => pcb'[c].active = c
    BY DEF Newborn
  <2> DEFINE c == th[p].child
  <2>3. /\ th[p].pc \in Creating /\ th'[p].child = c /\ th'[p].home = th[p].home /\ c \in Proc
        /\ th'[p].pc \in Unlisted => th[p].pc \in Unlisted
    BY <2>1
  <2>4. pcb'[c].mem # "unused" /\ (pcb'[c].kind = "fork" => th'[p].home = "syscall")
    BY <1>2, <2>3 DEF Newborn, BlocksKeep
  <2>5. th'[p].pc \in Unlisted \/ th'[p].home = "syscall" => th'[c].pc = "run"
    BY <1>1, <1>2, <2>2, <2>3 DEF Newborn
  <2>6. th'[p].pc \in Unlisted => pcb'[c].active = c
    BY <1>2, <2>3 DEF Newborn, BlocksKeep
  <2> QED BY <2>3, <2>4, <2>5, <2>6
<1>6. \A p \in Proc : pcb'[p].mem = "unused" => th'[p].pc = "run"
  BY <1>1, <1>2 DEF BlocksKeep
<1>7. \A p \in Proc : Listed(p)' => Restored(p)'
  <2>1. Restored(cur)'
    BY <1>1 DEF Restored, Suits
  <2>2. ASSUME NEW p \in Proc \ {cur}, Listed(p) PROVE Restored(p)'
    <3>1. th[p].pc # "stale" => pcb[p].active = IF th[p].node = None THEN p ELSE th[p].node
      BY <1>2, <2>2 DEF Restored
    <3>2. CASE pcb'[p].active = pcb[p].active
      BY <1>1, <3>1, <3>2 DEF Restored
    <3>3. CASE pcb'[p].active = p /\ th[p].pc = "run"
      <4>1. th[p].node = None
        BY <1>2, <3>3 DEF Place, Away, Creating, Unlisted
      <4> QED BY <1>1, <3>3, <4>1 DEF Restored
    <3> QED BY <3>2, <3>3 DEF BlocksKeep
  <2>3. ASSUME NEW c \in Proc, c = Child, Me.pc \in Unlisted PROVE Restored(c)'
    <3>1. c # cur /\ th[c].pc = "run" /\ pcb[c].active = c
      BY <1>1, <1>2, <2>3 DEF Newborn, IndInv, ChildrenApart, Child, Creating, Unlisted
    <3>2. th[c].node = None
      BY <1>2, <3>1 DEF Place, Away, Creating, Unlisted
    <3> QED BY <1>1, <3>1, <3>2 DEF Restored, BlocksKeep
  <2> QED BY <2>1, <2>2, <2>3
<1> QED
  BY <1>3, <1>4, <1>5, <1>6, <1>7 DEF ActiveInv

\* switch_task saves the active process with the one it takes the CPU from.
LEMMA SwitchActive ==
  ASSUME IndInv, ActiveInv, mode = "up", NEW saved \in BOOLEAN, saved <=> intr,
         intr \/ Me.pc \notin Creating, SwitchTask(saved), th' = th
  PROVE  ActiveInv'
<1> DEFINE cur == current_process
<1>1. /\ cur \in Proc /\ Listed(cur) /\ pcb[cur].mem = "allocated" /\ Me = th[cur]
      /\ pcb \in [Proc -> Pcbs] /\ active_process \in Proc
  BY DEF IndInv, TypeOK, SchedulerConsistent, ListedIsAllocated, Listed, Me
<1>2. /\ \A p \in Proc : Place(p, th[p]) /\ Uncut(p) /\ Newborn(p)
      /\ \A p \in Proc : pcb[p].mem = "unused" => th[p].pc = "run"
      /\ \A p \in Proc : Listed(p) => Restored(p)
  BY DEF ActiveInv
<1>3. CASE proc_count = 1
  <2>1. UNCHANGED <<sched, pcb, intr, mode, th>>
    BY <1>3 DEF SwitchTask
  <2> QED
    BY <2>1 DEF ActiveInv, Place, Uncut, Newborn, Restored, Listed, sched
<1>4. CASE proc_count # 1 /\ mode' # "hung"
  <2>1. PICK v : /\ v.intr = saved /\ v.active = active_process
                 /\ v.mem = pcb[cur].mem /\ v.kind = pcb[cur].kind
                 /\ pcb' = [pcb EXCEPT ![cur] = v]
    <3>1. pcb' = [pcb EXCEPT ![cur] = [pcb[cur] EXCEPT !.intr = saved, !.active = active_process]]
      BY <1>4, Zenon DEF SwitchTask, SaveContext
    <3>2. pcb[cur] \in Pcbs
      BY <1>1
    <3> HIDE DEF cur
    <3>3. LET v == [pcb[cur] EXCEPT !.intr = saved, !.active = active_process]
          IN  /\ v.intr = saved /\ v.active = active_process
              /\ v.mem = pcb[cur].mem /\ v.kind = pcb[cur].kind
      BY <3>2, Zenon DEF Pcbs
    <3> QED BY <3>1, <3>3, Zenon
  <2>2. /\ pcb'[cur].intr = saved /\ pcb'[cur].active = active_process
        /\ \A p \in Proc : pcb'[p].mem = pcb[p].mem /\ pcb'[p].kind = pcb[p].kind
        /\ \A p \in Proc \ {cur} : pcb'[p] = pcb[p]
    BY <1>1, <2>1
  <2>3. PICK n \in Proc : /\ current_process' = n /\ active_process' = pcb'[n].active
                          /\ intr' = pcb'[n].intr
    <3>1. PICK i \in DOMAIN procs : Dispatch(procs[i], pcb')
      BY <1>4 DEF SwitchTask, NotKilled
    <3>2. procs[i] \in Proc
      BY ListFacts DEF IndInv
    <3> QED BY <3>1, <3>2 DEF Dispatch
  <2>4. \A p \in Proc : Listed(p)' <=> Listed(p)
    BY <1>4 DEF SwitchTask, Listed
  <2>5. \A p \in Proc : ~(th[p].pc \in Creating /\ th[p].home = "syscall")
    BY <1>1, <1>2 DEF Uncut
  <2>6. \A p \in Proc : th[p].pc = "syscall" => ~pcb'[p].intr
    BY <1>1, <1>2, <2>2 DEF Uncut
  <2>7. \A p \in Proc : Uncut(p)'
    BY <2>3, <2>5, <2>6 DEF Uncut
  <2>8. \A p \in Proc : Newborn(p)'
    <3> SUFFICES ASSUME NEW p \in Proc, th[p].pc \in Creating PROVE Newborn(p)'
      BY DEF Newborn
    <3>1. th[p].child \in Proc
      BY DEF IndInv, ChildrenApart
    <3>2. th[p].pc \in Unlisted => th[p].child # cur
      BY <1>1 DEF IndInv, ChildrenApart
    <3> QED BY <1>2, <2>2, <3>1, <3>2 DEF Newborn
  <2>9. \A p \in Proc : Listed(p)' => Restored(p)'
    <3>1. ASSUME NEW p \in Proc, Listed(p)
          PROVE  th[p].pc # "stale" => pcb'[p].active = IF th[p].node = None THEN p ELSE th[p].node
      BY <1>1, <1>2, <2>2, <3>1 DEF Restored
    <3> QED BY <2>3, <2>4, <3>1 DEF Restored
  <2>10. \A p \in Proc : Place(p, th[p])' /\ (pcb'[p].mem = "unused" => th'[p].pc = "run")
    BY <1>2, <2>2
  <2> QED BY <2>7, <2>8, <2>9, <2>10 DEF ActiveInv
<1>5. CASE mode' = "hung"
  BY <1>5 DEF ActiveInv
<1> QED BY <1>3, <1>4, <1>5

\* kill takes a process off the list, and its caller, if it named itself, does not go on.
LEMMA KillNodeActive ==
  ASSUME IndInv, ActiveInv, mode = "up", NEW i \in DOMAIN procs,
         NEW blocks \in [Proc -> Pcbs],
         \A p \in Proc : /\ blocks[p].mem = pcb[p].mem /\ blocks[p].kind = pcb[p].kind
                         /\ blocks[p].intr = pcb[p].intr /\ blocks[p].active = pcb[p].active,
         KillNode(i, blocks)
  PROVE  ActiveInv'
<1> DEFINE cur == current_process
           p == procs[i]
<1>1. /\ cur \in Proc /\ p \in Proc /\ Listed(cur) /\ Listed(p) /\ pcb[cur].mem = "allocated"
      /\ th \in [Proc -> Threads]
  BY ListFacts DEF IndInv, TypeOK, SchedulerConsistent, ListedIsAllocated, Listed
<1>2. /\ \A q \in Proc : Place(q, th[q]) /\ Uncut(q) /\ Newborn(q)
      /\ \A q \in Proc : pcb[q].mem = "unused" => th[q].pc = "run"
      /\ \A q \in Proc : Listed(q) => Restored(q)
  BY DEF ActiveInv
<1>3. CASE mode' = "hung"
  BY <1>3 DEF ActiveInv
<1>4. CASE mode' # "hung"
  <2>1. /\ Unlink(i, blocks)
        /\ \/ /\ p # cur
              /\ th' = [th EXCEPT ![p] = FreshThread(p)]
              /\ UNCHANGED <<current_process, active_process, intr>>
           \/ /\ \E j \in NotKilled(blocks) \ {i} : Dispatch(procs[j], blocks)
              /\ th' = [th EXCEPT ![cur].pc = "stale", ![p] = FreshThread(p)]
    BY <1>4 DEF KillNode
  <2>2. /\ pcb'[p].mem = "freed" /\ pcb'[p].kind = pcb[p].kind
        /\ \A q \in Proc \ {p} : pcb'[q] = blocks[q]
    <3>1. PICK v : /\ v.mem = "freed" /\ v.kind = blocks[p].kind
                   /\ pcb' = [blocks EXCEPT ![p] = v]
      <4>1. pcb' = [blocks EXCEPT ![p] = [blocks[p] EXCEPT !.killed = TRUE, !.mem = "freed"]]
        BY <2>1, Zenon DEF Unlink
      <4>2. blocks[p] \in Pcbs
        BY <1>1
      <4> HIDE DEF p
      <4>3. LET v == [blocks[p] EXCEPT !.killed = TRUE, !.mem = "freed"]
            IN  v.mem = "freed" /\ v.kind = blocks[p].kind
        BY <4>2, Zenon DEF Pcbs
      <4> QED BY <4>1, <4>3, Zenon
    <3> QED BY <1>1, <3>1
  <2>3. \A q \in Proc : Listed(q)' => Listed(q) /\ q # p
    <3>1. procs' = RemoveAt(procs, i)
      BY <2>1 DEF Unlink
    <3>2. \A k \in DOMAIN procs' : \E j \in DOMAIN procs \ {i} : procs'[k] = procs[j]
      BY <3>1, UnlinkFacts
    <3> QED BY <3>2 DEF Listed, IndInv, SchedulerConsistent
  <2>4. /\ th'[p] = FreshThread(p)
        /\ \A q \in Proc \ {p, cur} : th'[q] = th[q]
        /\ cur # p => \/ UNCHANGED <<current_process, active_process, intr>> /\ th'[cur] = th[cur]
                      \/ th'[cur].pc = "stale"
    <3>1. CASE th' = [th EXCEPT ![p] = FreshThread(p)] /\ p # cur
               /\ UNCHANGED <<current_process, active_process, intr>>
      BY <1>1, <3>1
    <3>2. CASE th' = [th EXCEPT ![cur].pc = "stale", ![p] = FreshThread(p)]
      <4>1. PICK t : /\ t.pc = "stale"
                     /\ th' = [[th EXCEPT ![cur] = t] EXCEPT ![p] = FreshThread(p)]
        <5>1. th' = [[th EXCEPT ![cur] = [th[cur] EXCEPT !.pc = "stale"]] EXCEPT ![p] = FreshThread(p)]
          BY <3>2, Zenon
        <5>2. th[cur] \in Threads
          BY <1>1
        <5> QED BY <5>1, <5>2, StaleFacts, Zenon
      <4> QED BY <1>1, <4>1
    <3> QED BY <2>1, <3>1, <3>2
  <2>5. /\ FreshThread(p).pc = "run" /\ FreshThread(p).node = None
        /\ \A q : Place(q, FreshThread(p))
    BY DEF FreshThread, Place, Away, Creating, Unlisted
  <2>6. \A q \in Proc : th'[q].pc \notin {"run", "stale"} => q # p /\ th'[q] = th[q]
    BY <2>4, <2>5
  <2>7. \/ UNCHANGED <<current_process, active_process, intr>> /\ p # cur /\ th'[cur] = th[cur]
        \/ /\ \E n \in Proc : /\ n # p /\ current_process' = n
                              /\ active_process' = blocks[n].active /\ intr' = blocks[n].intr
           /\ th'[cur].pc \in {"run", "stale"}
           /\ cur # p => th'[cur].pc = "stale"
    <3>1. CASE UNCHANGED <<current_process, active_process, intr>> /\ p # cur
               /\ th' = [th EXCEPT ![p] = FreshThread(p)]
      BY <1>1, <3>1
    <3>2. CASE /\ \E j \in NotKilled(blocks) \ {i} : Dispatch(procs[j], blocks)
               /\ th' = [th EXCEPT ![cur].pc = "stale", ![p] = FreshThread(p)]
      <4>1. PICK j \in DOMAIN procs \ {i} : Dispatch(procs[j], blocks)
        BY <3>2 DEF NotKilled
      <4>2. procs[j] \in Proc /\ procs[j] # p
        BY <4>1, ListFacts DEF IndInv, SchedulerConsistent
      <4>3. PICK t : /\ t.pc = "stale"
                     /\ th' = [[th EXCEPT ![cur] = t] EXCEPT ![p] = FreshThread(p)]
        <5>1. th' = [[th EXCEPT ![cur] = [th[cur] EXCEPT !.pc = "stale"]] EXCEPT ![p] = FreshThread(p)]
          BY <3>2, Zenon
        <5>2. th[cur] \in Threads
          BY <1>1
        <5> QED BY <5>1, <5>2, StaleFacts, Zenon
      <4>4. /\ th'[cur].pc \in {"run", "stale"}
            /\ cur # p => th'[cur].pc = "stale"
        BY <1>1, <2>5, <4>3
      <4>5. /\ current_process' = procs[j] /\ active_process' = blocks[procs[j]].active
            /\ intr' = blocks[procs[j]].intr
        BY <4>1 DEF Dispatch
      <4> QED BY <4>2, <4>4, <4>5
    <3> QED BY <2>1, <3>1, <3>2
  <2>8. \A q \in Proc : Place(q, th'[q])
    BY <1>2, <2>4, <2>5 DEF Place, Away, Creating, Unlisted
  <2>9. \A q \in Proc : Uncut(q)'
    <3> SUFFICES ASSUME NEW q \in Proc, th'[q].pc \notin {"run", "stale"} PROVE Uncut(q)'
      BY DEF Uncut, Creating, Unlisted
    <3>1. q # p /\ th'[q] = th[q] /\ pcb'[q].intr = pcb[q].intr
      BY <2>2, <2>6
    <3> QED BY <1>2, <2>7, <3>1 DEF Uncut
  <2>10. \A q \in Proc : Newborn(q)'
    <3> SUFFICES ASSUME NEW q \in Proc, th'[q].pc \in Creating PROVE Newborn(q)'
      BY DEF Newborn
    <3>1. q # p /\ th'[q] = th[q]
      BY <2>6 DEF Creating, Unlisted
    <3>2. th[q].child \in Proc
      BY <3>1 DEF IndInv, ChildrenApart
    <3>3. th[q].pc \in Unlisted => th[q].child # p /\ th[q].child # cur
      BY <1>1 DEF IndInv, ChildrenApart
    <3>4. ASSUME th[q].home = "syscall"
          PROVE  q = cur /\ th'[cur] = th[cur] /\ cur # p
      <4>1. q = cur
        BY <1>2, <3>1, <3>4 DEF Uncut
      <4> QED BY <3>1, <4>1
    <3>5. th[q].home = "syscall" => th[th[q].child].pc = "run"
      BY <1>2, <3>1 DEF Newborn
    <3>6. th[q].home = "syscall" => th'[th[q].child].pc = "run"
      <4>1. CASE th[q].child = p
        BY <2>4, <2>5, <4>1
      <4>2. CASE th[q].child # p
        BY <2>4, <3>2, <3>4, <3>5, <4>2
      <4> QED BY <4>1, <4>2
    <3>7. /\ pcb'[th[q].child].kind = pcb[th[q].child].kind
          /\ pcb[th[q].child].mem # "unused" => pcb'[th[q].child].mem # "unused"
      <4>1. CASE th[q].child = p
        BY <2>2, <4>1
      <4>2. CASE th[q].child # p
        BY <2>2, <3>2, <4>2
      <4> QED BY <4>1, <4>2
    <3>8. th[q].pc \in Unlisted =>
            /\ th'[th[q].child].pc = "run"
            /\ pcb'[th[q].child].active = th[q].child
      BY <1>2, <2>2, <2>4, <3>1, <3>2, <3>3 DEF Newborn
    <3>9. /\ pcb[th[q].child].mem # "unused"
          /\ pcb[th[q].child].kind = "fork" => th[q].home = "syscall"
      BY <1>2, <3>1 DEF Newborn
    <3> DEFINE c == th[q].child
    <3>10. /\ pcb'[c].mem # "unused"
           /\ pcb'[c].kind = "fork" => th[q].home = "syscall"
      BY <3>7, <3>9
    <3>11. /\ th[q].pc \in Unlisted \/ th[q].home = "syscall" => th'[c].pc = "run"
           /\ th[q].pc \in Unlisted => pcb'[c].active = c
      BY <3>6, <3>8
    <3> QED BY <3>1, <3>10, <3>11 DEF Newborn
  <2>11. ASSUME NEW q \in Proc, pcb'[q].mem = "unused" PROVE th'[q].pc = "run"
    <3>1. q # p /\ pcb[q].mem = "unused"
      BY <2>2, <2>11
    <3> QED BY <1>1, <1>2, <2>4, <3>1
  <2>12. ASSUME NEW q \in Proc, Listed(q)' PROVE Restored(q)'
    <3>1. q # p /\ Restored(q) /\ pcb'[q].active = pcb[q].active
      BY <1>2, <2>2, <2>3, <2>12
    <3>2. CASE q = cur /\ th'[cur].pc = "stale"
      BY <3>2 DEF Restored
    <3>3. CASE th'[q] = th[q] /\ (q = cur => current_process' = cur /\ active_process' = active_process)
      <4>1. CASE q = cur
        BY <3>1, <3>3, <4>1 DEF Restored
      <4>2. CASE q # cur
        BY <2>7, <3>1, <3>3, <4>2 DEF Restored
      <4> QED BY <4>1, <4>2
    <3> QED BY <2>4, <2>7, <3>1, <3>2, <3>3
  <2> QED BY <2>8, <2>9, <2>10, <2>11, <2>12 DEF ActiveInv
<1> QED BY <1>3, <1>4

LEMMA AllocActive ==
  ASSUME IndInv, IndInv', ActiveInv, NEW k \in Kinds, AllocProcess(k)
  PROVE  ActiveInv'
<1> DEFINE p == CHOOSE q \in Proc : pcb[q].mem = "unused"
           cur == current_process
<1>1. p \in Proc /\ pcb[p].mem = "unused"
  BY DEF AllocProcess
<1>2. /\ cur \in Proc /\ Me \in Threads /\ Me = th[cur] /\ pcb[cur].mem = "allocated"
      /\ Listed(cur) /\ pcb \in [Proc -> Pcbs] /\ th \in [Proc -> Threads]
  BY DEF IndInv, TypeOK, SchedulerConsistent, ListedIsAllocated, Listed, Me
<1>3. /\ Me.pc \in {"run", "syscall", "handler"} /\ mode = "up"
      /\ k = "fork" => Me.pc = "syscall"
  <2>1. boot < Len(BootScript) => BootScript[boot + 1] # "fork"
    <3>1. boot \in Nat /\ Len(BootScript) \in Nat
      BY BootScriptKinds, LenProperties DEF IndInv, TypeOK
    <3>2. boot < Len(BootScript) => boot + 1 \in 1..Len(BootScript)
      BY <3>1
    <3> QED BY <3>2, BootScriptKinds, ElementOfSeq
  <2> QED BY <2>1 DEF AllocProcess, Creates
<1>4. /\ pcb' = [pcb EXCEPT ![p] = FreshPcb(p, k, pid_top)]
      /\ th' = [th EXCEPT ![cur] = [Me EXCEPT !.pc = "alloc", !.home = Me.pc, !.child = p]]
      /\ UNCHANGED <<sched, intr, mode>>
  BY Zenon DEF AllocProcess, Me
<1>5. /\ FreshPcb(p, k, pid_top).mem = "allocated" /\ FreshPcb(p, k, pid_top).active = p
      /\ FreshPcb(p, k, pid_top).kind = k
  BY DEF FreshPcb
<1> HIDE DEF p, cur
<1>6. PICK v : /\ v.pc = "alloc" /\ v.home = Me.pc /\ v.child = p
               /\ v.node = Me.node /\ v.me = Me.me
               /\ th' = [th EXCEPT ![cur] = v]
  <2>1. LET v == [Me EXCEPT !.pc = "alloc", !.home = Me.pc, !.child = p]
        IN  /\ v.pc = "alloc" /\ v.home = Me.pc /\ v.child = p
            /\ v.node = Me.node /\ v.me = Me.me
    BY <1>2, Zenon DEF Threads
  <2> QED BY <1>4, <2>1, Zenon
<1>7. /\ pcb'[p].mem = "allocated" /\ pcb'[p].active = p /\ pcb'[p].kind = k /\ p # cur
      /\ \A q \in Proc \ {p} : pcb'[q] = pcb[q]
      /\ th'[cur] = v /\ \A q \in Proc \ {cur} : th'[q] = th[q]
      /\ cur' = cur
  BY <1>1, <1>2, <1>4, <1>5, <1>6 DEF sched, cur
<1>8. /\ \A q \in Proc : Place(q, th[q]) /\ Uncut(q) /\ Newborn(q)
      /\ \A q \in Proc : pcb[q].mem = "unused" => th[q].pc = "run"
      /\ \A q \in Proc : Listed(q) => Restored(q)
  BY <1>3 DEF ActiveInv
<1>9. ~Listed(p)
  BY <1>1 DEF IndInv, ListedIsAllocated, Listed
<1>10. /\ \A q \in Proc : Listed(q)' <=> Listed(q)
       /\ UNCHANGED <<current_process, active_process, intr>>
  BY <1>4 DEF sched, Listed
<1>11. \A q \in Proc : Place(q, th'[q])
  <2>1. Place(cur, v)
    BY <1>2, <1>3, <1>6, <1>8 DEF Place, Away, Creating, Unlisted
  <2> QED BY <1>7, <1>8, <2>1
<1>12. \A q \in Proc : Uncut(q)'
  <2>1. ASSUME NEW q \in Proc, q = cur PROVE Uncut(q)'
    BY <1>2, <1>3, <1>6, <1>7, <1>8, <1>10, <2>1 DEF Uncut, cur
  <2>2. ASSUME NEW q \in Proc \ {cur} PROVE Uncut(q)'
    <3>1. CASE q = p
      BY <1>1, <1>7, <1>8, <3>1 DEF Uncut, Creating, Unlisted
    <3>2. CASE q # p
      BY <1>7, <1>8, <1>10, <2>2, <3>2 DEF Uncut
    <3> QED BY <3>1, <3>2
  <2> QED BY <2>1, <2>2
<1>13. \A q \in Proc : Newborn(q)'
  <2>1. ASSUME NEW q \in Proc, q = cur PROVE Newborn(q)'
    BY <1>1, <1>3, <1>6, <1>7, <1>8, <2>1 DEF Newborn
  <2>2. ASSUME NEW q \in Proc \ {cur}, th[q].pc \in Creating PROVE Newborn(q)'
    <3>1. th'[q] = th[q] /\ th[q].child \in Proc
      BY <1>7, <2>2 DEF IndInv, ChildrenApart
    <3>2. q # cur => th[q].home # "syscall"
      BY <1>8, <2>2 DEF Uncut, cur
    <3>3. th[q].pc \in Unlisted => th[q].child # p /\ th[q].child # cur
      BY <1>1, <1>2, <2>2 DEF IndInv, ChildrenApart
    <3>4. /\ pcb[th[q].child].kind # "fork"
          /\ th[q].pc \in Unlisted => /\ th[th[q].child].pc = "run"
                                     /\ pcb[th[q].child].active = th[q].child
      BY <1>8, <2>2, <3>2 DEF Newborn
    <3>5. th[q].child # p
      BY <1>1, <1>8, <2>2 DEF Newborn
    <3> DEFINE c == th[q].child
    <3>6. pcb'[c] = pcb[c] /\ pcb[c].mem # "unused" /\ pcb[c].kind # "fork"
      BY <1>7, <1>8, <2>2, <3>1, <3>4, <3>5 DEF Newborn
    <3>7. th[q].pc \in Unlisted => th'[c].pc = "run" /\ pcb'[c].active = c
      BY <1>7, <3>1, <3>3, <3>4, <3>6
    <3> HIDE DEF c
    <3>8. th'[q].child = c /\ th'[q].home # "syscall" /\ th'[q].pc = th[q].pc
      BY <2>2, <3>1, <3>2 DEF c
    <3> QED BY <3>6, <3>7, <3>8 DEF Newborn
  <2> QED BY <1>7, <2>1, <2>2 DEF Newborn
<1>14. \A q \in Proc : pcb'[q].mem = "unused" => th'[q].pc = "run"
  BY <1>2, <1>7, <1>8
<1>15. \A q \in Proc : Listed(q) => Restored(q)'
  <2> SUFFICES ASSUME NEW q \in Proc, Listed(q) PROVE Restored(q)'
    OBVIOUS
  <2>1. q # p /\ pcb'[q] = pcb[q] /\ Restored(q)
    BY <1>7, <1>8, <1>9
  <2>2. CASE q = cur
    BY <1>2, <1>3, <1>6, <1>7, <1>10, <2>1, <2>2 DEF Restored, cur
  <2>3. CASE q # cur
    BY <1>7, <1>10, <2>1, <2>3 DEF Restored, cur
  <2> QED BY <2>2, <2>3
<1> QED
  BY <1>10, <1>11, <1>12, <1>13, <1>14, <1>15 DEF ActiveInv

-----------------------------------------------------------------------------
(* The steps of the running process. *)

LEMMA MyActive ==
  ASSUME IndInv, ActiveInv, mode = "up"
  PROVE  /\ current_process \in Proc /\ Me \in Threads /\ Me = th[current_process]
         /\ Place(current_process, Me) /\ Newborn(current_process)
         /\ Me.pc = "syscall" => ~intr
         /\ Me.pc \in Creating => Me.child \in Proc /\ (Me.home = "syscall" => ~intr)
         /\ Me.pc # "stale" =>
              active_process = IF Me.node = None THEN current_process ELSE Me.node
<1>1. current_process \in Proc /\ Me \in Threads /\ Me = th[current_process]
      /\ Listed(current_process)
  BY DEF IndInv, TypeOK, SchedulerConsistent, Me
<1>2. /\ Place(current_process, Me) /\ Newborn(current_process)
      /\ Uncut(current_process) /\ Restored(current_process)
  BY <1>1 DEF ActiveInv
<1> QED
  BY <1>1, <1>2 DEF Uncut, Restored, IndInv, ChildrenApart

LEMMA PlaceFacts ==
  ASSUME NEW t \in Threads, NEW c
  PROVE  LET v == [t EXCEPT !.pc = c]
         IN  /\ v.pc = c /\ v.home = t.home /\ v.child = t.child
             /\ v.node = t.node /\ v.me = t.me
BY Zenon DEF Threads

LEMMA KilledKeeps ==
  ASSUME IndInv, \/ pcb' = pcb
                 \/ \E p \in Proc, b \in BOOLEAN : pcb' = [pcb EXCEPT ![p].killed = b]
  PROVE  BlocksKeep
<1>1. CASE pcb' = pcb
  BY <1>1 DEF BlocksKeep
<1>2. ASSUME NEW p \in Proc, NEW b \in BOOLEAN, pcb' = [pcb EXCEPT ![p].killed = b]
      PROVE  BlocksKeep
  <2>1. pcb \in [Proc -> Pcbs] /\ pcb[p] \in Pcbs
    BY DEF IndInv, TypeOK
  <2>2. PICK v : /\ v.mem = pcb[p].mem /\ v.kind = pcb[p].kind
                 /\ v.intr = pcb[p].intr /\ v.active = pcb[p].active
                 /\ pcb' = [pcb EXCEPT ![p] = v]
    <3>1. pcb' = [pcb EXCEPT ![p] = [pcb[p] EXCEPT !.killed = b]]
      BY <1>2, Zenon
    <3>2. LET v == [pcb[p] EXCEPT !.killed = b]
          IN  /\ v.mem = pcb[p].mem /\ v.kind = pcb[p].kind
              /\ v.intr = pcb[p].intr /\ v.active = pcb[p].active
      BY <2>1, Zenon DEF Pcbs
    <3> QED BY <3>1, <3>2, Zenon
  <2> QED BY <2>1, <2>2 DEF BlocksKeep
<1> QED BY <1>1, <1>2

\* A creation goes on.
LEMMA CreatesOn ==
  ASSUME IndInv, ActiveInv, mode = "up", UNCHANGED <<current_process, active_process, intr>>,
         \A q \in Proc : Listed(q)' => Listed(q) \/ (Me.pc \in Unlisted /\ q = Child),
         BlocksKeep, Me.pc \in Creating, NEW c \in Creating, c \in Unlisted => Me.pc \in Unlisted,
         th' = [th EXCEPT ![current_process] = [Me EXCEPT !.pc = c]]
  PROVE  ActiveInv'
<1>1. PICK v : /\ v.pc = c /\ v.home = Me.home /\ v.child = Me.child
               /\ v.node = Me.node /\ v.me = Me.me
               /\ th' = [th EXCEPT ![current_process] = v]
  BY MyActive, PlaceFacts, Zenon
<1>2. Suits(v)
  BY <1>1, MyActive DEF Suits, Place, Away, Creating, Unlisted
<1> QED BY <1>1, <1>2, OwnActive

\* A creation is done, and its creator goes back to where it began it.
LEMMA CreatesNoMore ==
  ASSUME IndInv, ActiveInv, mode = "up",
         UNCHANGED <<procs, current_process, active_process, intr>>,
         BlocksKeep, Me.pc \in Creating,
         th' = [th EXCEPT ![current_process] = Return(Me)]
  PROVE  ActiveInv'
<1>1. PICK v : /\ v.pc = Me.home /\ v.node = Me.node /\ v.me = Me.me
               /\ th' = [th EXCEPT ![current_process] = v]
  <2>1. LET v == Return(Me)
        IN  v.pc = Me.home /\ v.node = Me.node /\ v.me = Me.me
    BY MyActive, Zenon DEF Threads, Return
  <2> QED BY <2>1, Zenon
<1>2. Me.home \in {"run", "syscall", "handler"}
  BY MyActive DEF Threads
<1>3. Suits(v)
  BY <1>1, <1>2, MyActive DEF Suits, Place, Away, Creating, Unlisted
<1> QED BY <1>1, <1>3, OwnActive DEF Listed

\* Any other step: the process stands at c, with n in hand and m for itself.
LEMMA StepsTo ==
  ASSUME IndInv, ActiveInv, mode = "up", UNCHANGED <<procs, current_process>>, BlocksKeep,
         NEW v, th' = [th EXCEPT ![current_process] = v],
         v.pc \notin Creating \union {"stale"},
         v.pc = "syscall" => ~intr',
         IF v.pc \in {"handler", "sending"} THEN v.me = current_process ELSE v.node = None,
         active_process' = IF v.node = None THEN current_process ELSE v.node
  PROVE  ActiveInv'
<1>1. Suits(v)
  BY DEF Suits, Place, Away
<1> QED BY <1>1, OwnActive DEF Listed

\* Nothing happens but a pause or a wake-up, or a refused call to kill.
LEMMA StaysActive ==
  ASSUME IndInv, ActiveInv, mode = "up",
         UNCHANGED <<procs, current_process, active_process, th>>, BlocksKeep,
         intr' = intr \/ intr' = FALSE \/ Me.pc = "run"
  PROVE  ActiveInv'
<1>1. th' = [th EXCEPT ![current_process] = Me]
  BY MyActive DEF IndInv, TypeOK
<1>2. Suits(Me)
  BY MyActive DEF Suits, Creating, Unlisted
<1> QED BY <1>1, <1>2, OwnActive DEF Listed

LEMMA CreationActive ==
  ASSUME IndInv, ActiveInv, StorePidTop \/ AppendProcess
  PROVE  ActiveInv'
<1>1. CASE StorePidTop
  <2>1. /\ mode = "up" /\ UNCHANGED <<procs, pcb, current_process, active_process, intr>>
        /\ Me.pc \in Creating /\ "append" \in Creating /\ Me.pc \in Unlisted
    BY <1>1 DEF StorePidTop, sched, Creating, Unlisted
  <2>2. th' = [th EXCEPT ![current_process] = [Me EXCEPT !.pc = "append"]]
    BY <1>1, Zenon DEF StorePidTop, Me
  <2> QED BY <2>1, <2>2, KilledKeeps, CreatesOn DEF Listed
<1>2. CASE AppendProcess
  <2> DEFINE c == IF pcb[Child].kind = "zombie" THEN "config" ELSE "start"
  <2>1. /\ mode = "up" /\ UNCHANGED <<pcb, current_process, active_process, intr>>
        /\ Me.pc \in Unlisted /\ procs' = Append(procs, Child)
    BY <1>2 DEF AppendProcess, Unlisted
  <2>2. th' = [th EXCEPT ![current_process] = [Me EXCEPT !.pc = c]]
    BY <1>2, Zenon DEF AppendProcess, Me
  <2>3. c \in Creating /\ c \notin Unlisted /\ Me.pc \in Creating
    BY <2>1 DEF Creating, Unlisted
  <2>4. \A q \in Proc : Listed(q)' => Listed(q) \/ (Me.pc \in Unlisted /\ q = Child)
    <3>1. procs \in Seq(Proc) /\ Child \in Proc
      BY <2>1, <2>3, MyActive, <1>2 DEF AppendProcess, IndInv, TypeOK, Child
    <3>2. \A i \in DOMAIN procs' : procs'[i] = Child \/ \E j \in DOMAIN procs : procs'[i] = procs[j]
      BY <2>1, <3>1, AppendProperties, LenProperties
    <3> QED BY <2>1, <3>2 DEF Listed
  <2> QED BY <2>1, <2>2, <2>3, <2>4, KilledKeeps, CreatesOn
<1> QED BY <1>1, <1>2

LEMMA StartProcessActive ==
  ASSUME IndInv, ActiveInv, StartProcess
  PROVE  ActiveInv'
<1>1. /\ mode = "up" /\ Me.pc = "start" /\ Me.pc \in Creating
      /\ UNCHANGED <<procs, current_process, active_process, intr>>
      /\ {"resume", "config"} \subseteq Creating \ Unlisted
  BY DEF StartProcess, sched, Creating, Unlisted
<1>2. /\ current_process \in Proc /\ Me = th[current_process]
      /\ Child \in Proc /\ pcb \in [Proc -> Pcbs]
  BY <1>1, MyActive DEF Child, IndInv, TypeOK
<1>3. BlocksKeep
  <2>1. CASE pcb[Child].kind = "fork"
    <3>1. th[Child].pc = "run"
      BY <1>1, <1>2, <2>1, MyActive DEF Newborn, Child
    <3>2. PICK v : /\ v.mem = pcb[Child].mem /\ v.kind = pcb[Child].kind
                   /\ v.intr = pcb[Child].intr /\ v.active = Child
                   /\ pcb' = [pcb EXCEPT ![Child] = v]
      <4>1. pcb' = [pcb EXCEPT ![Child] = Forked(Child)]
        BY <2>1 DEF StartProcess
      <4> DEFINE r == pcb[Child]
                 s == pcb[current_process].system
                 k == pcb[current_process].kill
                 c == Child
      <4>2. Forked(Child) = [r EXCEPT !.system = s, !.active = c, !.kill = k, !.killed = FALSE]
        BY DEF Forked
      <4>3. r \in Pcbs
        BY <1>2
      <4> HIDE DEF r, s, k, c
      <4>4. LET v == [r EXCEPT !.system = s, !.active = c, !.kill = k, !.killed = FALSE]
            IN  v.mem = r.mem /\ v.kind = r.kind /\ v.intr = r.intr /\ v.active = c
        BY <4>3, Zenon DEF Pcbs
      <4> QED BY <4>1, <4>2, <4>4, Zenon DEF r, c
    <3> QED BY <1>2, <3>1, <3>2 DEF BlocksKeep
  <2>2. CASE pcb[Child].kind # "fork"
    <3>1. \E b \in BOOLEAN : pcb' = [pcb EXCEPT ![Child].killed = b]
      BY <2>2, Zenon DEF StartProcess
    <3> QED BY <1>2, <3>1, KilledKeeps
  <2> QED BY <2>1, <2>2
<1>4. \/ th' = [th EXCEPT ![current_process] = [Me EXCEPT !.pc = "resume"]]
      \/ th' = [th EXCEPT ![current_process] = [Me EXCEPT !.pc = "config"]]
      \/ th' = [th EXCEPT ![current_process] = Return(Me)]
  BY <1>2, Zenon DEF StartProcess
<1>5. \A q \in Proc : Listed(q)' <=> Listed(q)
  BY <1>1 DEF Listed
<1> QED BY <1>1, <1>3, <1>4, <1>5, CreatesOn, CreatesNoMore

LEMMA ConfigProcessActive ==
  ASSUME IndInv, ActiveInv, ConfigProcess
  PROVE  ActiveInv'
<1>1. /\ mode = "up" /\ Me.pc = "config" /\ Me.pc \in Creating
      /\ UNCHANGED <<procs, current_process, active_process, intr>>
  BY DEF ConfigProcess, sched, Creating
<1>2. /\ Child \in Proc /\ pcb \in [Proc -> Pcbs]
  BY <1>1, MyActive DEF Child, IndInv, TypeOK
<1>3. BlocksKeep
  <2> DEFINE k == pcb[Child].kind
             system == pcb[Child].system \/ k \in {"dispatchd", "videod", "zombie"}
             kill == IF k \in {"dispatchd", "zombie"} THEN "force_alive" ELSE pcb[Child].kill
             r == pcb[Child]
  <2>1. pcb' = [pcb EXCEPT ![Child] = [r EXCEPT !.system = system, !.kill = kill]]
    BY Zenon DEF ConfigProcess
  <2>2. r \in Pcbs
    BY <1>2
  <2> HIDE DEF system, kill, r
  <2>3. LET v == [r EXCEPT !.system = system, !.kill = kill]
        IN  v.mem = r.mem /\ v.kind = r.kind /\ v.intr = r.intr /\ v.active = r.active
    BY <2>2, Zenon DEF Pcbs
  <2>4. PICK v : /\ v.mem = r.mem /\ v.kind = r.kind /\ v.intr = r.intr /\ v.active = r.active
                 /\ pcb' = [pcb EXCEPT ![Child] = v]
    BY <2>1, <2>3, Zenon
  <2> QED BY <1>2, <2>4 DEF BlocksKeep, r
<1>4. th' = [th EXCEPT ![current_process] = Return(Me)]
  BY DEF ConfigProcess, Me
<1> QED BY <1>1, <1>3, <1>4, CreatesNoMore

LEMMA ResumeProgramActive ==
  ASSUME IndInv, ActiveInv, ResumeProgram
  PROVE  ActiveInv'
<1>1. /\ mode = "up" /\ Me.pc \in Creating
      /\ UNCHANGED <<procs, current_process, active_process, intr>>
      /\ th' = [th EXCEPT ![current_process] = Return(Me)]
  BY DEF ResumeProgram, sched, Creating, Me
<1>2. \A i \in DOMAIN procs : procs[i] \in Proc
  BY ListFacts DEF IndInv
<1>3. BlocksKeep
  BY <1>2, KilledKeeps DEF ResumeProgram
<1> QED BY <1>1, <1>3, CreatesNoMore

LEMMA PauseActive ==
  ASSUME IndInv, ActiveInv, LaunchProgram \/ DaemonPause \/ \E d \in Daemons : Wake(d)
  PROVE  ActiveInv'
<1>1. mode = "up" /\ UNCHANGED <<procs, current_process, active_process, th>>
  BY DEF LaunchProgram, DaemonPause, Wake, Local, sched
<1>2. intr' = intr \/ Me.pc = "run"
  BY DEF LaunchProgram, DaemonPause, Wake
<1>3. BlocksKeep
  <2>1. /\ \A i \in DOMAIN procs : procs[i] \in Proc
        /\ \A d \in Daemons : daemon[d] # None => daemon[d] \in Proc
    BY ListFacts DEF IndInv, TypeOK
  <2>2. \E p \in Proc, b \in BOOLEAN : pcb' = [pcb EXCEPT ![p].killed = b]
    BY <2>1, Zenon DEF LaunchProgram, DaemonPause, Wake
  <2> QED BY <2>2, KilledKeeps
<1> QED BY <1>1, <1>2, <1>3, StaysActive

LEMMA BroadcastActive ==
  ASSUME IndInv, ActiveInv, BroadcastStart \/ BroadcastNext
  PROVE  ActiveInv'
<1>1. mode = "up" /\ UNCHANGED <<procs, current_process, pcb, intr>>
  BY DEF BroadcastStart, BroadcastNext
<1>2. BlocksKeep /\ Me \in Threads
  BY <1>1, KilledKeeps, MyActive
<1>3. procs[1] \in Proc
  BY ListFacts DEF IndInv, SchedulerConsistent, Listed
<1>4. CASE BroadcastStart
  <2>1. /\ Me.pc = "run" /\ active_process' = procs[1]
        /\ th' = [th EXCEPT ![current_process] =
                     [Me EXCEPT !.pc = "handler", !.node = procs[1], !.me = active_process]]
    BY <1>4, Zenon DEF BroadcastStart, Me
  <2>2. active_process = current_process
    BY <1>1, <2>1, MyActive DEF Place, Away, Creating, Unlisted
  <2>3. PICK v : /\ v.pc = "handler" /\ v.node = procs[1] /\ v.me = active_process
                 /\ th' = [th EXCEPT ![current_process] = v]
    <3>1. LET v == [Me EXCEPT !.pc = "handler", !.node = procs[1], !.me = active_process]
          IN  v.pc = "handler" /\ v.node = procs[1] /\ v.me = active_process
      BY <1>2, Zenon DEF Threads
    <3> QED BY <2>1, <3>1, Zenon
  <2> QED
    BY <1>1, <1>2, <1>3, <2>1, <2>2, <2>3, StepsTo, NoneNotProc DEF Creating, Unlisted
<1>5. CASE BroadcastNext
  <2>1. Me.pc = "handler" /\ Me.me = current_process
    BY <1>1, <1>5, MyActive DEF BroadcastNext, Place, Away
  <2>2. CASE /\ th' = [th EXCEPT ![current_process] = [Me EXCEPT !.pc = "run", !.node = None]]
             /\ active_process' = Me.me
    <3>1. LET v == [Me EXCEPT !.pc = "run", !.node = None]
          IN  v.pc = "run" /\ v.node = None
      BY <1>2, Zenon DEF Threads
    <3>2. PICK v : v.pc = "run" /\ v.node = None /\ th' = [th EXCEPT ![current_process] = v]
      BY <2>2, <3>1, Zenon
    <3> QED BY <1>1, <1>2, <2>1, <2>2, <3>2, StepsTo DEF Creating, Unlisted
  <2>3. ASSUME NEW n, n # None, active_process' = n,
               th' = [th EXCEPT ![current_process] = [Me EXCEPT !.node = n]]
        PROVE  ActiveInv'
    <3>1. LET v == [Me EXCEPT !.node = n]
          IN  v.pc = Me.pc /\ v.node = n /\ v.me = Me.me
      BY <1>2, Zenon DEF Threads
    <3>2. PICK v : /\ v.pc = Me.pc /\ v.node = n /\ v.me = Me.me
                   /\ th' = [th EXCEPT ![current_process] = v]
      BY <2>3, <3>1, Zenon
    <3> QED BY <1>1, <1>2, <2>1, <2>3, <3>2, StepsTo DEF Creating, Unlisted
  <2>4. \/ /\ th' = [th EXCEPT ![current_process] = [Me EXCEPT !.pc = "run", !.node = None]]
           /\ active_process' = Me.me
        \/ \E n : /\ n # None /\ active_process' = n
                  /\ th' = [th EXCEPT ![current_process] = [Me EXCEPT !.node = n]]
    BY <1>5, Zenon DEF BroadcastNext, Me
  <2> QED BY <2>2, <2>3, <2>4
<1> QED BY <1>4, <1>5

LEMMA SyscallActive ==
  ASSUME IndInv, ActiveInv, EnterSyscall \/ EnableInSyscall \/ LeaveSyscall
  PROVE  ActiveInv'
<1>1. mode = "up" /\ UNCHANGED <<procs, current_process, active_process, pcb>>
  BY DEF EnterSyscall, EnableInSyscall, LeaveSyscall, sched
<1>2. BlocksKeep /\ Me \in Threads
  BY <1>1, KilledKeeps, MyActive
<1>3. Me.node = None /\ active_process = current_process
  <2>1. Me.pc \in {"run", "syscall", "enabled"}
    BY DEF EnterSyscall, EnableInSyscall, LeaveSyscall
  <2> QED BY <1>1, <2>1, MyActive DEF Place, Away, Creating, Unlisted
<1>4. \E v : /\ th' = [th EXCEPT ![current_process] = v] /\ v.node = Me.node
             /\ v.pc \in {"run", "syscall", "enabled"} /\ (v.pc = "syscall" => intr' = FALSE)
  <2>1. CASE EnterSyscall
    <3>1. PICK b : th' = [th EXCEPT ![current_process] = [Me EXCEPT !.pc = "syscall", !.iret = b]]
      BY <2>1, Zenon DEF EnterSyscall, Me
    <3>2. LET v == [Me EXCEPT !.pc = "syscall", !.iret = b]
          IN  v.pc = "syscall" /\ v.node = Me.node
      BY <1>2, Zenon DEF Threads
    <3>3. PICK v : /\ v.pc = "syscall" /\ v.node = Me.node
                   /\ th' = [th EXCEPT ![current_process] = v]
      BY <3>1, <3>2, Zenon
    <3> QED BY <2>1, <3>3 DEF EnterSyscall
  <2>2. CASE EnableInSyscall
    <3>1. th' = [th EXCEPT ![current_process] = [Me EXCEPT !.pc = "enabled"]]
      BY <2>2, Zenon DEF EnableInSyscall, Me
    <3>2. PICK v : /\ v.pc = "enabled" /\ v.node = Me.node
                   /\ th' = [th EXCEPT ![current_process] = v]
      BY <1>2, <3>1, PlaceFacts, Zenon
    <3> QED BY <3>2
  <2>3. CASE LeaveSyscall
    <3>1. th' = [th EXCEPT ![current_process] = [Me EXCEPT !.pc = "run", !.iret = TRUE]]
      BY <2>3, Zenon DEF LeaveSyscall, Me
    <3>2. LET v == [Me EXCEPT !.pc = "run", !.iret = TRUE]
          IN  v.pc = "run" /\ v.node = Me.node
      BY <1>2, Zenon DEF Threads
    <3>3. PICK v : /\ v.pc = "run" /\ v.node = Me.node
                   /\ th' = [th EXCEPT ![current_process] = v]
      BY <3>1, <3>2, Zenon
    <3> QED BY <3>3
  <2> QED BY <2>1, <2>2, <2>3
<1> QED BY <1>1, <1>2, <1>3, <1>4, StepsTo DEF Creating, Unlisted

LEMMA SendEventActive ==
  ASSUME IndInv, ActiveInv, SendEvent \/ SendEventDone
  PROVE  ActiveInv'
<1>1. mode = "up" /\ UNCHANGED <<procs, current_process, pcb>>
  BY DEF SendEvent, SendEventDone
<1>2. BlocksKeep /\ Me \in Threads
  BY <1>1, KilledKeeps, MyActive
<1>3. CASE SendEvent
  <2>1. PICK i \in DOMAIN procs :
          /\ active_process' = procs[i]
          /\ th' = [th EXCEPT ![current_process] =
                       [Me EXCEPT !.pc = "sending", !.node = procs[i], !.me = active_process]]
    BY <1>3, Zenon DEF SendEvent, Me
  <2>2. procs[i] \in Proc /\ Me.pc = "syscall"
    BY <1>3, ListFacts DEF IndInv, SendEvent
  <2>3. active_process = current_process
    BY <1>1, <2>2, MyActive DEF Place, Away, Creating, Unlisted
  <2> DEFINE n == procs[i]
  <2>4. PICK v : /\ v.pc = "sending" /\ v.node = n /\ v.me = active_process
                 /\ th' = [th EXCEPT ![current_process] = v]
    <3>1. LET v == [Me EXCEPT !.pc = "sending", !.node = n, !.me = active_process]
          IN  v.pc = "sending" /\ v.node = n /\ v.me = active_process
      BY <1>2, Zenon DEF Threads
    <3> QED BY <2>1, <3>1, Zenon
  <2> QED
    BY <1>1, <1>2, <2>1, <2>2, <2>3, <2>4, StepsTo, NoneNotProc DEF Creating, Unlisted
<1>4. CASE SendEventDone
  <2>1. /\ Me.pc = "sending" /\ active_process' = Me.me
        /\ th' = [th EXCEPT ![current_process] =
                     [Me EXCEPT !.pc = "run", !.node = None, !.iret = TRUE]]
    BY <1>4, Zenon DEF SendEventDone, Me
  <2>2. Me.me = current_process
    BY <1>1, <2>1, MyActive DEF Place, Away
  <2>3. LET v == [Me EXCEPT !.pc = "run", !.node = None, !.iret = TRUE]
        IN  v.pc = "run" /\ v.node = None
    BY <1>2, Zenon DEF Threads
  <2>4. PICK v : v.pc = "run" /\ v.node = None /\ th' = [th EXCEPT ![current_process] = v]
    BY <2>1, <2>3, Zenon
  <2> QED BY <1>1, <1>2, <2>1, <2>2, <2>4, StepsTo DEF Creating, Unlisted
<1> QED BY <1>3, <1>4

LEMMA RetireActive ==
  ASSUME IndInv, ActiveInv, Retire
  PROVE  ActiveInv'
<1>1. /\ mode = "up" /\ Me.pc = "run" /\ current_process = Init0
      /\ UNCHANGED <<procs, current_process, active_process, intr>>
      /\ pcb' = [pcb EXCEPT ![Init0].killed = TRUE]
  BY DEF Retire, sched
<1>2. BlocksKeep
  BY <1>1, Init0InProc, KilledKeeps
<1>3. Me.node = None /\ active_process = current_process
  BY <1>1, MyActive DEF Place, Away, Creating, Unlisted
<1>4. th' = [th EXCEPT ![current_process] = [Me EXCEPT !.pc = "idle"]]
  BY <1>1, Zenon DEF Retire, Me
<1>5. PICK v : v.pc = "idle" /\ v.node = Me.node /\ th' = [th EXCEPT ![current_process] = v]
  BY <1>1, <1>4, MyActive, PlaceFacts, Zenon
<1> QED BY <1>1, <1>2, <1>3, <1>5, StepsTo DEF Creating, Unlisted

LEMMA CpuActive ==
  ASSUME IndInv, ActiveInv, Tick \/ Yield
  PROVE  ActiveInv'
<1>1. mode = "up" /\ th' = th /\ intr \in BOOLEAN
  BY DEF Tick, Yield, Local, IndInv, TypeOK
<1>2. \/ SwitchTask(TRUE) /\ intr
      \/ SwitchTask(intr) /\ Me.pc \notin Creating
  BY DEF Tick, Yield, Yielding, Creating, Unlisted
<1> QED BY <1>1, <1>2, SwitchActive

\* A block that is only paused.
LEMMA PausedFacts ==
  ASSUME IndInv, NEW p \in Proc
  PROVE  LET blocks == [pcb EXCEPT ![p].killed = TRUE]
         IN  /\ blocks \in [Proc -> Pcbs]
             /\ \A q \in Proc : /\ blocks[q].mem = pcb[q].mem /\ blocks[q].kind = pcb[q].kind
                                /\ blocks[q].intr = pcb[q].intr
                                /\ blocks[q].active = pcb[q].active
                                /\ blocks[q].pid = pcb[q].pid /\ blocks[q].system = pcb[q].system
                                /\ q # p => blocks[q].killed = pcb[q].killed
<1> DEFINE blocks == [pcb EXCEPT ![p].killed = TRUE]
           r == pcb[p]
<1>1. pcb \in [Proc -> Pcbs] /\ r \in Pcbs
  BY DEF IndInv, TypeOK
<1>2. blocks = [pcb EXCEPT ![p] = [r EXCEPT !.killed = TRUE]]
  BY Zenon
<1> HIDE DEF r, blocks
<1>3. LET v == [r EXCEPT !.killed = TRUE]
      IN  /\ v \in Pcbs
          /\ v.mem = r.mem /\ v.kind = r.kind /\ v.intr = r.intr /\ v.active = r.active
          /\ v.pid = r.pid /\ v.system = r.system
  BY <1>1, Zenon DEF Pcbs
<1>4. PICK v \in Pcbs : /\ v.mem = r.mem /\ v.kind = r.kind /\ v.intr = r.intr
                       /\ v.active = r.active /\ v.pid = r.pid /\ v.system = r.system
                       /\ blocks = [pcb EXCEPT ![p] = v]
  BY <1>2, <1>3, Zenon
<1>5. /\ blocks \in [Proc -> Pcbs]
      /\ \A q \in Proc : /\ blocks[q].mem = pcb[q].mem /\ blocks[q].kind = pcb[q].kind
                         /\ blocks[q].intr = pcb[q].intr
                         /\ blocks[q].active = pcb[q].active
                         /\ blocks[q].pid = pcb[q].pid /\ blocks[q].system = pcb[q].system
                         /\ q # p => blocks[q].killed = pcb[q].killed
  BY <1>1, <1>4 DEF r
<1> QED BY <1>5 DEF blocks

LEMMA EndActive ==
  ASSUME IndInv, ActiveInv, Exit \/ HandleException
  PROVE  ActiveInv'
<1> DEFINE blocks == [pcb EXCEPT ![current_process].killed = TRUE]
<1>1. /\ mode = "up" /\ current_process \in Proc /\ pcb \in [Proc -> Pcbs]
  BY DEF Exit, HandleException, IndInv, TypeOK
<1>2. CASE Exit
  BY <1>1, <1>2, KillNodeActive DEF Exit, KillSelf
<1>3. CASE HandleException
  <2>1. \/ /\ intr' = FALSE /\ pcb' = blocks /\ UNCHANGED <<sched, th>>
        \/ KillSelf(blocks)
    BY <1>3, Zenon DEF HandleException
  <2>2. CASE intr' = FALSE /\ pcb' = blocks /\ UNCHANGED <<sched, th>>
    <3>1. BlocksKeep
      BY <1>1, <2>2, KilledKeeps
    <3> QED BY <1>1, <2>2, <3>1, StaysActive DEF sched
  <2>3. CASE KillSelf(blocks)
    <3>1. /\ blocks \in [Proc -> Pcbs]
          /\ \A q \in Proc : /\ blocks[q].mem = pcb[q].mem /\ blocks[q].kind = pcb[q].kind
                             /\ blocks[q].intr = pcb[q].intr
                             /\ blocks[q].active = pcb[q].active
      BY <1>1, PausedFacts
    <3> HIDE DEF blocks
    <3> QED BY <1>1, <2>3, <3>1, KillNodeActive DEF KillSelf
  <2> QED BY <2>1, <2>2, <2>3
<1> QED BY <1>2, <1>3

LEMMA KillActive ==
  ASSUME IndInv, ActiveInv, NEW pid, NEW sig \in Signals, Kill(pid, sig)
  PROVE  ActiveInv'
<1>1. mode = "up" /\ pcb \in [Proc -> Pcbs]
  BY DEF Kill, IndInv, TypeOK
<1>2. \/ \E i \in DOMAIN procs : KillNode(i, pcb)
      \/ /\ intr' = FALSE /\ UNCHANGED <<sched, th, mode>>
         /\ \/ pcb' = pcb
            \/ \E i \in DOMAIN procs, b \in BOOLEAN : pcb' = [pcb EXCEPT ![procs[i]].killed = b]
  BY Zenon DEF Kill
<1>3. CASE \E i \in DOMAIN procs : KillNode(i, pcb)
  BY <1>1, <1>3, KillNodeActive
<1>4. CASE /\ intr' = FALSE /\ UNCHANGED <<sched, th, mode>>
           /\ \/ pcb' = pcb
              \/ \E i \in DOMAIN procs, b \in BOOLEAN : pcb' = [pcb EXCEPT ![procs[i]].killed = b]
  <2>1. BlocksKeep
    BY <1>4, ListFacts, KilledKeeps DEF IndInv
  <2> QED BY <1>1, <1>4, <2>1, StaysActive DEF sched
<1> QED BY <1>2, <1>3, <1>4

LEMMA NextActive ==
  ASSUME IndInv, IndInv', ActiveInv, [Next]_vars
  PROVE  ActiveInv'
<1>1. CASE \E k \in Kinds : AllocProcess(k)
  BY <1>1, AllocActive
<1>2. CASE StorePidTop \/ AppendProcess
  BY <1>2, CreationActive
<1>3. CASE StartProcess
  BY <1>3, StartProcessActive
<1>4. CASE ConfigProcess
  BY <1>4, ConfigProcessActive
<1>5. CASE ResumeProgram
  BY <1>5, ResumeProgramActive
<1>6. CASE LaunchProgram \/ DaemonPause \/ \E d \in Daemons : Wake(d)
  BY <1>6, PauseActive
<1>7. CASE Tick \/ Yield
  BY <1>7, CpuActive
<1>8. CASE BroadcastStart \/ BroadcastNext
  BY <1>8, BroadcastActive
<1>9. CASE EnterSyscall \/ EnableInSyscall \/ LeaveSyscall
  BY <1>9, SyscallActive
<1>10. CASE SendEvent \/ SendEventDone
  BY <1>10, SendEventActive
<1>11. CASE Exit \/ HandleException
  BY <1>11, EndActive
<1>12. CASE Retire
  BY <1>12, RetireActive
<1>13. CASE \E pid \in -1..Cardinality(Proc), sig \in Signals : Kill(pid, sig)
  BY <1>13, KillActive
<1>14. CASE UNCHANGED vars
  BY <1>14 DEF vars, sched, ActiveInv, Place, Uncut, Newborn, Restored, Listed
<1> QED BY <1>1, <1>2, <1>3, <1>4, <1>5, <1>6, <1>7, <1>8, <1>9, <1>10, <1>11,
           <1>12, <1>13, <1>14 DEF Next

\* Outside a handler a process finds itself as its active process, however often
\* it lost the CPU, whoever ends or faults, and however kill is called (yield,
\* switch_task, kill, broadcast_event_callback, send_event, multitasking_fork).
THEOREM ActiveProcessRestored == Spec => []ActiveRestored
<1>1. Init => IndInv /\ ActiveInv
  BY InitInd, InitActive
<1>2. IndInv /\ ActiveInv /\ [Next]_vars => (IndInv /\ ActiveInv)'
  BY NextInd, NextActive
<1>3. IndInv /\ ActiveInv => ActiveRestored
  BY RestoredIs
<1> QED BY <1>1, <1>2, <1>3, PTL DEF Spec

-----------------------------------------------------------------------------
(***************************************************************************)
(* Somebody can always run.  While main() creates the daemons it is main   *)
(* itself, afterwards a videod: a process that is a system process, so     *)
(* that exceptions stop the machine and do not kill it, that nobody        *)
(* pauses, and whose pid is its own, so that nobody is killed by mistake.  *)
(***************************************************************************)
VideodFreed == \E p \in Proc : pcb[p].kind = "videod" /\ pcb[p].mem = "freed"

Born(p) == pcb[p].mem # "unused"

Guard(g) ==
  /\ Listed(g) /\ ~pcb[g].killed /\ pcb[g].system /\ pcb[g].kind \in {"init", "videod"}
  /\ \A q \in Proc \ {g} : Born(q) => pcb[q].pid # pcb[g].pid
  /\ pid_top > pcb[g].pid
  /\ \A p \in Proc : th[p].pc = "alloc" => pcb[th[p].child].pid > pcb[g].pid

\* Before the first videod is ready main() alone creates processes, there are no
\* programs, and pids are handed out one after the other.
Booting ==
  /\ \A q \in Proc : Born(q) => pcb[q].kind \notin Programs
  /\ \A q \in Proc : pcb[q].kind = "videod" => ~pcb[q].system
  /\ \A p \in Proc : th[p].pc \in Creating => p = Init0 /\ th[p].home = "run"
  /\ th[Init0].pc \in {"run", "alloc", "append", "start", "config"}
  /\ \A p, q \in Proc : Born(p) /\ Born(q) /\ pcb[p].pid = pcb[q].pid => p = q
  /\ \A p \in Proc : Born(p) =>
       IF th[Init0].pc = "alloc" /\ p = th[Init0].child THEN pcb[p].pid = pid_top
       ELSE pcb[p].pid < pid_top
  /\ th[Init0].pc # "run" =>
       boot \in 1..Len(BootScript) /\ pcb[th[Init0].child].kind = BootScript[boot]
  /\ \A i \in 1..boot : BootScript[i] = "videod" => i = boot /\ th[Init0].pc # "run"

\* The videod that main() is creating waits for it, if it did not fault.
VideodWaits ==
  LET c == th[Init0].child IN
  th[Init0].pc \in {"start", "config"} /\ pcb[c].kind = "videod" /\ pcb[c].mem # "freed" =>
    Listed(c) /\ (th[Init0].pc = "config" => ~pcb[c].killed)

KindsStay ==
  /\ pcb[Init0].kind = "init" /\ Born(Init0)
  /\ \A d \in Daemons : daemon[d] # None => pcb[daemon[d]].kind = d /\ Born(daemon[d])

Watched ==
  \/ VideodFreed
  \/ Guard(Init0) /\ Booting /\ VideodWaits
  \/ \E v \in Proc : pcb[v].kind = "videod" /\ Guard(v)

LockInv == (mode = "up" => KindsStay /\ Watched) /\ NoLockup

\* What a step leaves of the blocks in any case, and what it must leave of a guard.
IdentitiesStay ==
  \A q \in Proc : /\ pcb'[q].mem = pcb[q].mem /\ pcb'[q].kind = pcb[q].kind
                  /\ pcb'[q].pid = pcb[q].pid

Steady(g) == IdentitiesStay /\ pcb'[g].system /\ ~pcb'[g].killed

LEMMA GuardFacts ==
  ASSUME IndInv, NEW g \in Proc, Guard(g)
  PROVE  /\ pcb[g].mem = "allocated" /\ current_process \in Proc
         /\ pcb[current_process].mem = "allocated" /\ Me = th[current_process] /\ Me \in Threads
         /\ \E i \in DOMAIN procs : procs[i] = g /\ i \in NotKilled(pcb)
<1>1. PICK i \in DOMAIN procs : procs[i] = g
  BY DEF Guard, Listed
<1>2. ~pcb[procs[i]].killed
  BY <1>1 DEF Guard
<1> QED
  BY <1>1, <1>2 DEF NotKilled, IndInv, ListedIsAllocated, SchedulerConsistent, Listed, TypeOK, Me

LEMMA GuardKeeps ==
  ASSUME IndInv, NEW g \in Proc, Guard(g), Steady(g), Listed(g) => Listed(g)',
         pid_top' > pcb[g].pid,
         \A p \in Proc : th'[p].pc = "alloc" => th[p].pc = "alloc" /\ th'[p].child = th[p].child
  PROVE  Guard(g)'
<1>1. \A p \in Proc : th[p].pc = "alloc" => th[p].child \in Proc
  BY DEF IndInv, ChildrenApart, Creating, Unlisted
<1>2. Listed(g)' /\ ~pcb'[g].killed /\ pcb'[g].system /\ pcb'[g].kind \in {"init", "videod"}
  BY DEF Guard, Steady, IdentitiesStay
<1>3. \A q \in Proc \ {g} : Born(q)' => pcb'[q].pid # pcb'[g].pid
  BY DEF Guard, Steady, IdentitiesStay, Born
<1>4. pcb'[g].pid = pcb[g].pid
  BY DEF Steady, IdentitiesStay
<1>5. \A p \in Proc : th'[p].pc = "alloc" => pcb'[th'[p].child].pid > pcb[g].pid
  BY <1>1 DEF Guard, Steady, IdentitiesStay
<1> QED BY <1>2, <1>3, <1>4, <1>5 DEF Guard

\* The steps that pause, wake or configure one block.
LEMMA PausesKeep ==
  ASSUME IndInv, NEW x \in Proc, NEW b \in BOOLEAN, pcb' = [pcb EXCEPT ![x].killed = b]
  PROVE  /\ IdentitiesStay
         /\ \A q \in Proc : pcb'[q].system = pcb[q].system
         /\ pcb'[x].killed = b /\ \A q \in Proc \ {x} : pcb'[q].killed = pcb[q].killed
<1>1. pcb \in [Proc -> Pcbs] /\ pcb[x] \in Pcbs
  BY DEF IndInv, TypeOK
<1>2. PICK v : /\ v.mem = pcb[x].mem /\ v.kind = pcb[x].kind /\ v.pid = pcb[x].pid
               /\ v.system = pcb[x].system /\ v.killed = b
               /\ pcb' = [pcb EXCEPT ![x] = v]
  <2>1. pcb' = [pcb EXCEPT ![x] = [pcb[x] EXCEPT !.killed = b]]
    BY Zenon
  <2>2. LET v == [pcb[x] EXCEPT !.killed = b]
        IN  /\ v.mem = pcb[x].mem /\ v.kind = pcb[x].kind /\ v.pid = pcb[x].pid
            /\ v.system = pcb[x].system /\ v.killed = b
    BY <1>1, Zenon DEF Pcbs
  <2> QED BY <2>1, <2>2, Zenon
<1> QED BY <1>1, <1>2 DEF IdentitiesStay

LEMMA StartKeeps ==
  ASSUME IndInv, StartProcess
  PROVE  /\ IdentitiesStay /\ Child \in Proc
         /\ \A q \in Proc \ {Child} : /\ pcb'[q].system = pcb[q].system
                                    /\ pcb'[q].killed = pcb[q].killed
         /\ pcb[Child].kind \notin Programs =>
              ~pcb'[Child].killed /\ pcb'[Child].system = pcb[Child].system
<1>1. /\ Child \in Proc /\ pcb \in [Proc -> Pcbs] /\ pcb[Child] \in Pcbs
  BY DEF StartProcess, Child, IndInv, TypeOK, ChildrenApart, Creating, Me
<1>2. CASE pcb[Child].kind = "fork"
  <2> DEFINE r == pcb[Child]
             s == pcb[current_process].system
             k == pcb[current_process].kill
             c == Child
  <2>1. pcb' = [pcb EXCEPT ![Child] = [r EXCEPT !.system = s, !.active = c, !.kill = k, !.killed = FALSE]]
    BY <1>2 DEF StartProcess, Forked
  <2>2. r \in Pcbs
    BY <1>1
  <2> HIDE DEF r, s, k, c
  <2>3. LET v == [r EXCEPT !.system = s, !.active = c, !.kill = k, !.killed = FALSE]
        IN  v.mem = r.mem /\ v.kind = r.kind /\ v.pid = r.pid
    BY <2>2, Zenon DEF Pcbs
  <2>4. PICK v : v.mem = r.mem /\ v.kind = r.kind /\ v.pid = r.pid /\ pcb' = [pcb EXCEPT ![Child] = v]
    BY <2>1, <2>3, Zenon
  <2> QED BY <1>1, <1>2, <2>4 DEF IdentitiesStay, Programs, r
<1>3. CASE pcb[Child].kind = "program"
  <2>1. pcb' = [pcb EXCEPT ![Child].killed = TRUE]
    BY <1>3 DEF StartProcess
  <2> QED BY <1>1, <1>3, <2>1, PausesKeep DEF Programs
<1>4. CASE pcb[Child].kind \notin Programs
  <2>1. pcb' = [pcb EXCEPT ![Child].killed = FALSE]
    BY <1>4, Zenon DEF StartProcess, Programs
  <2> QED BY <1>1, <2>1, PausesKeep
<1> QED BY <1>2, <1>3, <1>4 DEF Programs

LEMMA ConfigKeeps ==
  ASSUME IndInv, ConfigProcess
  PROVE  /\ IdentitiesStay /\ Child \in Proc
         /\ \A q \in Proc \ {Child} : pcb'[q].system = pcb[q].system
         /\ \A q \in Proc : pcb'[q].killed = pcb[q].killed
         /\ pcb'[Child].system =
              (pcb[Child].system \/ pcb[Child].kind \in {"dispatchd", "videod", "zombie"})
<1>1. /\ Child \in Proc /\ pcb \in [Proc -> Pcbs]
  BY DEF ConfigProcess, Child, IndInv, TypeOK, ChildrenApart, Creating, Me
<1> DEFINE k == pcb[Child].kind
           system == pcb[Child].system \/ k \in {"dispatchd", "videod", "zombie"}
           kill == IF k \in {"dispatchd", "zombie"} THEN "force_alive" ELSE pcb[Child].kill
           r == pcb[Child]
<1>2. pcb' = [pcb EXCEPT ![Child] = [r EXCEPT !.system = system, !.kill = kill]]
  BY Zenon DEF ConfigProcess
<1>3. r \in Pcbs
  BY <1>1
<1> HIDE DEF system, kill, r
<1>4. LET v == [r EXCEPT !.system = system, !.kill = kill]
      IN  /\ v.mem = r.mem /\ v.kind = r.kind /\ v.pid = r.pid /\ v.killed = r.killed
          /\ v.system = system
  BY <1>3, Zenon DEF Pcbs
<1>5. PICK v : /\ v.mem = r.mem /\ v.kind = r.kind /\ v.pid = r.pid /\ v.killed = r.killed
               /\ v.system = system /\ pcb' = [pcb EXCEPT ![Child] = v]
  BY <1>2, <1>4, Zenon
<1>6. pcb'[Child] = v /\ \A q \in Proc \ {Child} : pcb'[q] = pcb[q]
  BY <1>1, <1>5
<1>7. /\ IdentitiesStay
      /\ \A q \in Proc \ {Child} : pcb'[q].system = pcb[q].system
      /\ \A q \in Proc : pcb'[q].killed = pcb[q].killed
  BY <1>1, <1>5, <1>6 DEF IdentitiesStay, r
<1>8. pcb'[Child].system = system
  BY <1>5, <1>6
<1> QED BY <1>1, <1>7, <1>8 DEF system

LEMMA SwitchKeeps ==
  ASSUME IndInv, NEW saved \in BOOLEAN, SwitchTask(saved)
  PROVE  /\ IdentitiesStay
         /\ \A q \in Proc : pcb'[q].system = pcb[q].system /\ pcb'[q].killed = pcb[q].killed
         /\ procs' = procs
         /\ mode' = mode \/ (mode' = "hung" /\ NotKilled(pcb) = {})
<1> DEFINE cur == current_process
<1>1. cur \in Proc /\ pcb \in [Proc -> Pcbs] /\ active_process \in Proc /\ pcb[cur] \in Pcbs
  BY DEF IndInv, TypeOK
<1>2. CASE proc_count = 1
  BY <1>2 DEF SwitchTask, IdentitiesStay, sched
<1>3. CASE proc_count # 1
  <2> DEFINE r == pcb[cur]
  <2>1. pcb' = [pcb EXCEPT ![cur] = [r EXCEPT !.intr = saved, !.active = active_process]]
    BY <1>3, Zenon DEF SwitchTask, SaveContext
  <2>2. r \in Pcbs
    BY <1>1
  <2> HIDE DEF r, cur
  <2>3. LET v == [r EXCEPT !.intr = saved, !.active = active_process]
        IN  /\ v.mem = r.mem /\ v.kind = r.kind /\ v.pid = r.pid
            /\ v.system = r.system /\ v.killed = r.killed
    BY <2>2, Zenon DEF Pcbs
  <2>4. PICK v : /\ v.mem = r.mem /\ v.kind = r.kind /\ v.pid = r.pid
                 /\ v.system = r.system /\ v.killed = r.killed
                 /\ pcb' = [pcb EXCEPT ![cur] = v]
    BY <2>1, <2>3, Zenon
  <2>5. /\ IdentitiesStay
        /\ \A q \in Proc : pcb'[q].system = pcb[q].system /\ pcb'[q].killed = pcb[q].killed
    BY <1>1, <2>4 DEF IdentitiesStay, r
  <2>6. procs' = procs /\ (mode' = mode \/ (mode' = "hung" /\ NotKilled(pcb) = {}))
    BY <1>3 DEF SwitchTask
  <2> QED BY <2>5, <2>6
<1> QED BY <1>2, <1>3

\* The steps of the running process that create nothing.
Elsewhere ==
  \E t : th' = [th EXCEPT ![current_process] = t] /\ t.pc \notin Creating

LEMMA ElsewhereSteps ==
  ASSUME IndInv, \/ BroadcastStart \/ BroadcastNext \/ EnterSyscall \/ EnableInSyscall
                 \/ LeaveSyscall \/ SendEvent \/ SendEventDone
  PROVE  /\ Elsewhere /\ UNCHANGED <<procs, current_process, pid_top, pcb, daemon, boot, mode>>
         /\ \/ Me.pc = "run" /\ pcb[current_process].kind \in Programs \union {"dispatchd"}
            \/ Me.pc \in {"handler", "syscall", "enabled", "sending"}
<1>1. Me \in Threads
  BY DEF IndInv, TypeOK, Me
<1>2. /\ UNCHANGED <<procs, current_process, pid_top, pcb, daemon, boot, mode>>
      /\ \/ Me.pc = "run" /\ pcb[current_process].kind \in Programs \union {"dispatchd"}
         \/ Me.pc \in {"handler", "syscall", "enabled", "sending"}
  BY DEF BroadcastStart, BroadcastNext, EnterSyscall, EnableInSyscall, LeaveSyscall,
         SendEvent, SendEventDone, sched
<1>3. \E c \in {"handler", "run", "syscall", "enabled", "sending"} : \E f : Moved(c, f)
  <2>1. CASE BroadcastStart
    <3>1. th' = [th EXCEPT ![current_process] =
                   [Me EXCEPT !.pc = "handler", !.node = procs[1], !.me = active_process]]
      BY <2>1, Zenon DEF BroadcastStart, Me
    <3>2. Moved("handler", Me.iret)
      BY <1>1, <3>1, MovedOut
    <3> QED BY <3>2
  <2>2. CASE BroadcastNext
    <3>1. \/ th' = [th EXCEPT ![current_process] = [Me EXCEPT !.pc = "run", !.node = None]]
          \/ \E n : th' = [th EXCEPT ![current_process] = [Me EXCEPT !.node = n]]
      BY <2>2, Zenon DEF BroadcastNext, Me
    <3>2. Moved("run", Me.iret) \/ Moved(Me.pc, Me.iret)
      BY <1>1, <3>1, MovedBack, MovedNode, Zenon
    <3>3. Me.pc = "handler"
      BY <2>2 DEF BroadcastNext
    <3> QED BY <3>2, <3>3
  <2>3. CASE EnterSyscall
    <3>1. PICK b : th' = [th EXCEPT ![current_process] = [Me EXCEPT !.pc = "syscall", !.iret = b]]
      BY <2>3, Zenon DEF EnterSyscall, Me
    <3>2. Moved("syscall", b)
      BY <1>1, <3>1, MovedGate
    <3> QED BY <3>2
  <2>4. CASE EnableInSyscall
    <3>1. th' = [th EXCEPT ![current_process] = [Me EXCEPT !.pc = "enabled"]]
      BY <2>4, Zenon DEF EnableInSyscall, Me
    <3>2. Moved("enabled", Me.iret)
      BY <1>1, <3>1, MovedPc
    <3> QED BY <3>2
  <2>5. CASE LeaveSyscall
    <3>1. th' = [th EXCEPT ![current_process] = [Me EXCEPT !.pc = "run", !.iret = TRUE]]
      BY <2>5, Zenon DEF LeaveSyscall, Me
    <3>2. Moved("run", TRUE)
      BY <1>1, <3>1, MovedGate
    <3> QED BY <3>2
  <2>6. CASE SendEvent
    <3>1. PICK n : th' = [th EXCEPT ![current_process] =
                            [Me EXCEPT !.pc = "sending", !.node = n, !.me = active_process]]
      BY <2>6, Zenon DEF SendEvent, Me
    <3>2. Moved("sending", Me.iret)
      BY <1>1, <3>1, MovedOut
    <3> QED BY <3>2
  <2>7. CASE SendEventDone
    <3>1. th' = [th EXCEPT ![current_process] =
                   [Me EXCEPT !.pc = "run", !.node = None, !.iret = TRUE]]
      BY <2>7, Zenon DEF SendEventDone, Me
    <3>2. Moved("run", TRUE)
      BY <1>1, <3>1, MovedDone
    <3> QED BY <3>2
  <2> QED BY <2>1, <2>2, <2>3, <2>4, <2>5, <2>6, <2>7
<1>4. Elsewhere
  BY <1>3 DEF Moved, Elsewhere, Creating, Unlisted
<1> QED BY <1>2, <1>4

\* The running process stands at c, in a creation of k that it will return from to h.
Puts(c, h, k) ==
  \E t : /\ th' = [th EXCEPT ![current_process] = t]
         /\ t.pc = c /\ t.home = h /\ t.child = k

LEMMA PutsFacts ==
  ASSUME IndInv, NEW c, NEW h, NEW k, Puts(c, h, k)
  PROVE  LET cur == current_process IN
         /\ th'[cur].pc = c /\ th'[cur].home = h /\ th'[cur].child = k
         /\ \A q \in Proc \ {cur} : th'[q] = th[q]
BY DEF Puts, IndInv, TypeOK

LEMMA CreationPuts ==
  ASSUME IndInv
  PROVE  /\ StorePidTop => Puts("append", Me.home, Me.child)
         /\ AppendProcess =>
              Puts(IF pcb[Child].kind = "zombie" THEN "config" ELSE "start", Me.home, Me.child)
         /\ StartProcess =>
              \/ pcb[Child].kind \notin Programs /\ Puts("config", Me.home, Me.child)
              \/ /\ pcb[Child].kind \in Programs
                 /\ Puts("resume", Me.home, Me.child) \/ Puts(Me.home, "run", None)
         /\ ConfigProcess \/ ResumeProgram => Puts(Me.home, "run", None)
<1>1. Me \in Threads /\ Me = th[current_process]
  BY DEF IndInv, TypeOK, Me
<1>2. ASSUME NEW c, th' = [th EXCEPT ![current_process] = [Me EXCEPT !.pc = c]]
      PROVE  Puts(c, Me.home, Me.child)
  <2>1. LET v == [Me EXCEPT !.pc = c] IN v.pc = c /\ v.home = Me.home /\ v.child = Me.child
    BY <1>1, PlaceFacts
  <2> QED BY <1>2, <2>1, Zenon DEF Puts
<1>3. ASSUME th' = [th EXCEPT ![current_process] = Return(Me)]
      PROVE  Puts(Me.home, "run", None)
  <2>1. LET v == Return(Me) IN v.pc = Me.home /\ v.home = "run" /\ v.child = None
    BY <1>1, Zenon DEF Threads, Return
  <2> QED BY <1>3, <2>1, Zenon DEF Puts
<1>4. StorePidTop => Puts("append", Me.home, Me.child)
  BY <1>1, <1>2, Zenon DEF StorePidTop
<1>5. AppendProcess =>
        Puts(IF pcb[Child].kind = "zombie" THEN "config" ELSE "start", Me.home, Me.child)
  BY <1>1, <1>2, Zenon DEF AppendProcess
<1>6. ASSUME StartProcess
      PROVE  \/ pcb[Child].kind \notin Programs /\ Puts("config", Me.home, Me.child)
             \/ /\ pcb[Child].kind \in Programs
                /\ Puts("resume", Me.home, Me.child) \/ Puts(Me.home, "run", None)
  <2>1. \/ /\ pcb[Child].kind \notin Programs
           /\ th' = [th EXCEPT ![current_process] = [Me EXCEPT !.pc = "config"]]
        \/ /\ pcb[Child].kind \in Programs
           /\ \/ th' = [th EXCEPT ![current_process] = [Me EXCEPT !.pc = "resume"]]
              \/ th' = [th EXCEPT ![current_process] = Return(Me)]
    <3>1. CASE pcb[Child].kind = "program"
      BY <1>1, <1>6, <3>1, Zenon DEF StartProcess, Programs
    <3>2. CASE pcb[Child].kind = "fork"
      BY <1>1, <1>6, <3>2 DEF StartProcess, Programs
    <3>3. CASE pcb[Child].kind \notin Programs
      BY <1>1, <1>6, <3>3 DEF StartProcess, Programs
    <3> QED BY <3>1, <3>2, <3>3 DEF Programs
  <2> QED BY <1>2, <1>3, <2>1, Zenon
<1>7. ConfigProcess \/ ResumeProgram => Puts(Me.home, "run", None)
  BY <1>1, <1>3, Zenon DEF ConfigProcess, ResumeProgram
<1> QED BY <1>4, <1>5, <1>6, <1>7

LEMMA AllocKeeps ==
  ASSUME IndInv, NEW k, AllocProcess(k)
  PROVE  \E p \in Proc :
           /\ ~Born(p) /\ Puts("alloc", Me.pc, p)
           /\ pcb'[p].mem = "allocated" /\ pcb'[p].kind = k /\ pcb'[p].pid = pid_top
           /\ ~pcb'[p].system
           /\ \A q \in Proc \ {p} : pcb'[q] = pcb[q]
<1> DEFINE p == CHOOSE q \in Proc : pcb[q].mem = "unused"
<1>1. p \in Proc /\ pcb[p].mem = "unused"
  BY DEF AllocProcess
<1>2. Me \in Threads /\ pcb \in [Proc -> Pcbs]
  BY DEF IndInv, TypeOK, Me
<1>3. /\ pcb' = [pcb EXCEPT ![p] = FreshPcb(p, k, pid_top)]
      /\ th' = [th EXCEPT ![current_process] = [Me EXCEPT !.pc = "alloc", !.home = Me.pc, !.child = p]]
  BY Zenon DEF AllocProcess, Me
<1>4. /\ FreshPcb(p, k, pid_top).mem = "allocated" /\ FreshPcb(p, k, pid_top).kind = k
      /\ FreshPcb(p, k, pid_top).pid = pid_top /\ ~FreshPcb(p, k, pid_top).system
  BY DEF FreshPcb
<1> HIDE DEF p
<1>5. LET v == [Me EXCEPT !.pc = "alloc", !.home = Me.pc, !.child = p]
      IN  v.pc = "alloc" /\ v.home = Me.pc /\ v.child = p
  BY <1>2, Zenon DEF Threads
<1>6. Puts("alloc", Me.pc, p)
  BY <1>3, <1>5, Zenon DEF Puts
<1>7. pcb'[p] = FreshPcb(p, k, pid_top) /\ \A q \in Proc \ {p} : pcb'[q] = pcb[q]
  BY <1>1, <1>2, <1>3
<1> QED BY <1>1, <1>4, <1>6, <1>7 DEF Born

LEMMA KillKeeps ==
  ASSUME IndInv, mode = "up", NEW i \in DOMAIN procs, NEW blocks \in [Proc -> Pcbs],
         KillNode(i, blocks)
  PROVE  LET p == procs[i]
             own == blocks[p].pid = blocks[current_process].pid
         IN
         \/ mode' = "hung" /\ own /\ NotKilled(blocks) \ {i} = {}
         \/ /\ mode' = "up" /\ pcb'[p].mem = "freed"
            /\ pcb'[p].kind = blocks[p].kind /\ pcb'[p].pid = blocks[p].pid
            /\ pcb'[p].system = blocks[p].system
            /\ \A q \in Proc \ {p} : pcb'[q] = blocks[q]
            /\ \A q \in Proc : Listed(q) /\ q # p => Listed(q)'
            /\ \A q \in Proc : th'[q].pc \in {"run", "stale"} \/ th'[q] = th[q]
            /\ \A q \in Proc \ {p, current_process} : th'[q] = th[q]
<1> DEFINE cur == current_process
           p == procs[i]
<1>1. cur \in Proc /\ p \in Proc /\ th \in [Proc -> Threads]
  BY ListFacts DEF IndInv, TypeOK
<1>2. CASE mode' = "hung" /\ blocks[p].pid = blocks[cur].pid /\ NotKilled(blocks) \ {i} = {}
  BY <1>2
<1>3. CASE /\ Unlink(i, blocks) /\ mode' = mode
           /\ \/ th' = [th EXCEPT ![p] = FreshThread(p)]
              \/ th' = [th EXCEPT ![cur].pc = "stale", ![p] = FreshThread(p)]
  <2>1. /\ pcb'[p].mem = "freed" /\ pcb'[p].kind = blocks[p].kind /\ pcb'[p].pid = blocks[p].pid
        /\ pcb'[p].system = blocks[p].system
        /\ \A q \in Proc \ {p} : pcb'[q] = blocks[q]
    <3> DEFINE r == blocks[p]
    <3>1. pcb' = [blocks EXCEPT ![p] = [r EXCEPT !.killed = TRUE, !.mem = "freed"]]
      BY <1>3, Zenon DEF Unlink
    <3>2. r \in Pcbs
      BY <1>1
    <3> HIDE DEF r, p
    <3>3. LET v == [r EXCEPT !.killed = TRUE, !.mem = "freed"]
          IN  v.mem = "freed" /\ v.kind = r.kind /\ v.pid = r.pid /\ v.system = r.system
      BY <3>2, Zenon DEF Pcbs
    <3>4. PICK v : /\ v.mem = "freed" /\ v.kind = r.kind /\ v.pid = r.pid /\ v.system = r.system
                   /\ pcb' = [blocks EXCEPT ![p] = v]
      BY <3>1, <3>3, Zenon
    <3> QED BY <1>1, <3>4 DEF r
  <2>2. \A q \in Proc : Listed(q) /\ q # p => Listed(q)'
    <3>1. procs' = RemoveAt(procs, i)
      BY <1>3 DEF Unlink
    <3>2. \A j \in DOMAIN procs \ {i} : \E k \in DOMAIN procs' : procs'[k] = procs[j]
      BY <3>1, UnlinkFacts
    <3> QED BY <3>2 DEF Listed
  <2>3. FreshThread(p).pc = "run"
    BY DEF FreshThread
  <2>4. CASE th' = [th EXCEPT ![p] = FreshThread(p)]
    <3>1. \A q \in Proc : th'[q].pc \in {"run", "stale"} \/ th'[q] = th[q]
      BY <1>1, <2>3, <2>4
    <3>2. \A q \in Proc \ {p, cur} : th'[q] = th[q]
      BY <1>1, <2>4
    <3> QED BY <1>3, <2>1, <2>2, <3>1, <3>2
  <2>5. CASE th' = [th EXCEPT ![cur].pc = "stale", ![p] = FreshThread(p)]
    <3>1. PICK t : /\ t.pc = "stale"
                   /\ th' = [[th EXCEPT ![cur] = t] EXCEPT ![p] = FreshThread(p)]
      <4>1. th' = [[th EXCEPT ![cur] = [th[cur] EXCEPT !.pc = "stale"]] EXCEPT ![p] = FreshThread(p)]
        BY <2>5, Zenon
      <4>2. th[cur] \in Threads
        BY <1>1
      <4> QED BY <4>1, <4>2, StaleFacts, Zenon
    <3>2. \A q \in Proc : th'[q].pc \in {"run", "stale"} \/ th'[q] = th[q]
      BY <1>1, <2>3, <3>1
    <3>3. \A q \in Proc \ {p, cur} : th'[q] = th[q]
      BY <1>1, <3>1
    <3> QED BY <1>3, <2>1, <2>2, <3>2, <3>3
  <2> QED BY <1>3, <2>4, <2>5
<1> QED BY <1>2, <1>3 DEF KillNode

-----------------------------------------------------------------------------
(* What may become of a guard. *)

\* A step that creates a process nobody guards against.
LEMMA GuardAlloc ==
  ASSUME IndInv, NEW g \in Proc, Guard(g), NEW k, AllocProcess(k)
  PROVE  Guard(g)'
<1>1. /\ pcb[g].mem = "allocated" /\ current_process \in Proc /\ Me = th[current_process]
  BY GuardFacts
<1>2. PICK p \in Proc : /\ ~Born(p) /\ Puts("alloc", Me.pc, p)
                        /\ pcb'[p].mem = "allocated" /\ pcb'[p].pid = pid_top
                        /\ \A q \in Proc \ {p} : pcb'[q] = pcb[q]
  BY AllocKeeps
<1>3. /\ p # g /\ pcb'[g] = pcb[g] /\ pid_top' = pid_top
      /\ th'[current_process].child = p
      /\ \A q \in Proc \ {current_process} : th'[q] = th[q]
      /\ procs' = procs
  BY <1>1, <1>2, PutsFacts DEF Born, AllocProcess, sched
<1>4. \A q \in Proc \ {g} : Born(q)' => pcb'[q].pid # pcb'[g].pid
  <2> SUFFICES ASSUME NEW q \in Proc \ {g}, Born(q)' PROVE pcb'[q].pid # pcb[g].pid
    BY <1>3
  <2>1. CASE q = p
    <3>1. pid_top \in Nat /\ pcb[g].pid \in Nat
      BY DEF IndInv, TypeOK, Pcbs
    <3>2. pid_top > pcb[g].pid
      BY DEF Guard
    <3> QED BY <1>2, <2>1, <3>1, <3>2
  <2>2. CASE q # p
    BY <1>2, <2>2 DEF Guard, Born
  <2> QED BY <2>1, <2>2
<1>5. ASSUME NEW q \in Proc, th'[q].pc = "alloc" PROVE pcb'[th'[q].child].pid > pcb[g].pid
  <2>1. CASE q = current_process
    BY <1>2, <1>3, <2>1 DEF Guard
  <2>2. CASE q # current_process
    <3>1. th[q].pc = "alloc" /\ th'[q].child = th[q].child
      BY <1>3, <1>5, <2>2
    <3>2. th[q].child \in Proc /\ th[q].child # p
      BY <1>2, <3>1 DEF IndInv, ChildrenApart, Creating, Unlisted, Born
    <3> QED BY <1>2, <3>1, <3>2 DEF Guard
  <2> QED BY <2>1, <2>2
<1> QED BY <1>3, <1>4, <1>5 DEF Guard, Listed

\* A step of a creation.
LEMMA GuardCreation ==
  ASSUME IndInv, NEW g \in Proc, Guard(g),
         StorePidTop \/ AppendProcess \/ StartProcess \/ ConfigProcess \/ ResumeProgram
  PROVE  Guard(g)' /\ mode' = "up"
<1>0. /\ pcb[g].mem = "allocated" /\ current_process \in Proc /\ Me = th[current_process]
      /\ Me \in Threads /\ mode = "up" /\ mode' = mode
  BY GuardFacts DEF StorePidTop, AppendProcess, StartProcess, ConfigProcess, ResumeProgram
<1>1. \A p \in Proc : th'[p].pc = "alloc" => th[p].pc = "alloc" /\ th'[p].child = th[p].child
  <2>1. ASSUME NEW c, NEW h, NEW k, Puts(c, h, k), c # "alloc"
        PROVE  \A p \in Proc : th'[p].pc = "alloc" => th[p] = th'[p]
    BY <2>1, PutsFacts
  <2>2. Me.home # "alloc"
    BY <1>0 DEF Threads
  <2>3. \E c, h, k : Puts(c, h, k) /\ c # "alloc"
    BY <2>2, CreationPuts
  <2> QED BY <2>1, <2>3
<1>2. Listed(g) => Listed(g)'
  <2>1. CASE AppendProcess
    <3>1. procs' = Append(procs, Child) /\ procs \in Seq(Proc) /\ Child \in Proc
      BY <1>0, <2>1 DEF AppendProcess, IndInv, TypeOK, ChildrenApart, Creating, Unlisted, Child
    <3>2. \A i \in DOMAIN procs : i \in DOMAIN procs' /\ procs'[i] = procs[i]
      BY <3>1, AppendProperties, LenProperties
    <3> QED BY <3>2 DEF Listed
  <2>2. CASE ~AppendProcess
    BY <2>2 DEF StorePidTop, StartProcess, ConfigProcess, ResumeProgram, sched, Listed
  <2> QED BY <2>1, <2>2
<1>3. pid_top > pcb[g].pid /\ pid_top' > pcb[g].pid
  <2>1. CASE StorePidTop
    <3>1. pid_top' = pcb[Child].pid + 1 /\ Me.pc = "alloc"
      BY <2>1 DEF StorePidTop
    <3>2. Child \in Proc
      BY <1>0, <3>1 DEF IndInv, ChildrenApart, Creating, Unlisted, Child
    <3>3. pcb[Child].pid > pcb[g].pid /\ pid_top > pcb[g].pid
      BY <1>0, <3>1 DEF Guard, Child
    <3>4. pcb[Child].pid \in Nat /\ pcb[g].pid \in Nat
      BY <3>2 DEF IndInv, TypeOK, Pcbs
    <3> QED BY <3>1, <3>3, <3>4
  <2>2. CASE ~StorePidTop
    BY <2>2 DEF AppendProcess, StartProcess, ConfigProcess, ResumeProgram, Guard
  <2> QED BY <2>1, <2>2
<1>4. Steady(g)
  <2>0. pcb[g].system /\ ~pcb[g].killed /\ pcb[g].kind \in {"init", "videod"}
    BY DEF Guard
  <2>1. CASE StorePidTop \/ AppendProcess
    BY <2>0, <2>1 DEF StorePidTop, AppendProcess, Steady, IdentitiesStay
  <2>2. CASE StartProcess
    <3>1. pcb[g].kind \notin Programs
      BY <2>0 DEF Programs
    <3>2. CASE Child = g
      BY <2>0, <2>2, <3>1, <3>2, StartKeeps DEF Steady
    <3>3. CASE Child # g
      BY <2>0, <2>2, <3>3, StartKeeps DEF Steady
    <3> QED BY <3>2, <3>3
  <2>3. CASE ConfigProcess
    <3>1. CASE Child = g
      BY <2>0, <2>3, <3>1, ConfigKeeps DEF Steady
    <3>2. CASE Child # g
      BY <2>0, <2>3, <3>2, ConfigKeeps DEF Steady
    <3> QED BY <3>1, <3>2
  <2>4. CASE ResumeProgram
    <3>1. CASE pcb' = pcb
      BY <2>0, <3>1 DEF Steady, IdentitiesStay
    <3>2. ASSUME NEW i \in DOMAIN procs, pcb' = [pcb EXCEPT ![procs[i]].killed = FALSE]
          PROVE  Steady(g)
      <4>1. procs[i] \in Proc
        BY ListFacts DEF IndInv
      <4> QED BY <2>0, <3>2, <4>1, PausesKeep DEF Steady
    <3> QED BY <2>4, <3>1, <3>2 DEF ResumeProgram
  <2> QED BY <2>1, <2>2, <2>3, <2>4
<1> QED BY <1>0, <1>1, <1>2, <1>3, <1>4, GuardKeeps

\* Pauses, wake-ups, switches and the steps of the running process.
LEMMA GuardQuiet ==
  ASSUME IndInv, NEW g \in Proc, Guard(g), KindsStay, mode = "up",
         \/ LaunchProgram \/ DaemonPause \/ (\E d \in Daemons : Wake(d))
         \/ Tick \/ Yield
         \/ BroadcastStart \/ BroadcastNext \/ EnterSyscall \/ EnableInSyscall
         \/ LeaveSyscall \/ SendEvent \/ SendEventDone
         \/ Retire /\ g # Init0
  PROVE  Guard(g)' /\ mode' = "up"
<1>0. /\ pcb[g].mem = "allocated" /\ current_process \in Proc /\ Me = th[current_process]
      /\ pcb[g].system /\ ~pcb[g].killed /\ pcb[g].kind \in {"init", "videod"}
      /\ Listed(g) /\ pid_top > pcb[g].pid
  BY GuardFacts DEF Guard
<1>1. CASE LaunchProgram \/ DaemonPause \/ (\E d \in Daemons : Wake(d))
  <2>1. UNCHANGED <<procs, th, pid_top, mode>>
    BY <1>1 DEF LaunchProgram, DaemonPause, Wake, Local, sched
  <2>2. Steady(g)
    <3>1. CASE DaemonPause
      <4>1. PICK d \in Daemons : daemon[d] # None /\ pcb' = [pcb EXCEPT ![daemon[d]].killed = TRUE]
        BY <3>1, Zenon DEF DaemonPause
      <4>2. daemon[d] \in Proc
        <5>1. daemon \in [Daemons -> Proc \union {None}]
          BY DEF IndInv, TypeOK
        <5> QED BY <4>1, <5>1
      <4>3. daemon[d] # g
        <5>1. pcb[daemon[d]].kind = d
          BY <4>1 DEF KindsStay
        <5>2. d \notin {"init", "videod"}
          BY DEF Daemons
        <5> QED BY <1>0, <5>1, <5>2
      <4>4. PICK x \in Proc : x # g /\ pcb' = [pcb EXCEPT ![x].killed = TRUE]
        BY <4>1, <4>2, <4>3, Zenon
      <4> QED BY <1>0, <4>4, PausesKeep DEF Steady
    <3>2. CASE LaunchProgram \/ (\E d \in Daemons : Wake(d))
      <4>1. PICK x \in Proc : pcb' = [pcb EXCEPT ![x].killed = FALSE]
        <5>1. /\ \A i \in DOMAIN procs : procs[i] \in Proc
              /\ \A d \in Daemons : daemon[d] # None => daemon[d] \in Proc
          BY ListFacts DEF IndInv, TypeOK
        <5> QED BY <3>2, <5>1, Zenon DEF LaunchProgram, Wake
      <4> QED BY <1>0, <4>1, PausesKeep DEF Steady
    <3> QED BY <1>1, <3>1, <3>2
  <2> QED BY <1>0, <2>1, <2>2, GuardKeeps DEF Listed
<1>2. CASE Tick \/ Yield
  <2>1. /\ \E saved \in BOOLEAN : SwitchTask(saved)
        /\ UNCHANGED <<th, pid_top>>
    BY <1>2 DEF Tick, Yield, Local, IndInv, TypeOK
  <2>2. /\ Steady(g) /\ procs' = procs /\ mode' = "up"
    BY <1>0, <2>1, SwitchKeeps, GuardFacts DEF Steady
  <2> QED BY <1>0, <2>1, <2>2, GuardKeeps DEF Listed
<1>3. CASE \/ BroadcastStart \/ BroadcastNext \/ EnterSyscall \/ EnableInSyscall
           \/ LeaveSyscall \/ SendEvent \/ SendEventDone
  <2>1. Elsewhere /\ UNCHANGED <<procs, pid_top, pcb, mode>>
    BY <1>3, ElsewhereSteps
  <2>2. \A p \in Proc : th'[p].pc = "alloc" => th'[p] = th[p]
    BY <1>0, <2>1 DEF Elsewhere, Creating, Unlisted, IndInv, TypeOK
  <2>3. Steady(g)
    BY <1>0, <2>1 DEF Steady, IdentitiesStay
  <2> QED BY <1>0, <2>1, <2>2, <2>3, GuardKeeps DEF Listed
<1>4. CASE Retire /\ g # Init0
  <2>1. /\ UNCHANGED <<procs, pid_top, mode>> /\ current_process = Init0
        /\ pcb' = [pcb EXCEPT ![Init0].killed = TRUE]
        /\ th' = [th EXCEPT ![current_process] = [Me EXCEPT !.pc = "idle"]]
    BY <1>0, <1>4, Zenon DEF Retire, sched
  <2>2. Steady(g)
    BY <1>0, <1>4, <2>1, Init0InProc, PausesKeep DEF Steady
  <2>3. Moved("idle", Me.iret)
    BY <2>1, <1>0, MovedPc DEF IndInv, TypeOK
  <2>4. \A p \in Proc : th'[p].pc = "alloc" => th'[p] = th[p]
    BY <1>0, <2>3 DEF Moved, IndInv, TypeOK
  <2> QED BY <1>0, <2>1, <2>2, <2>4, GuardKeeps DEF Listed
<1> QED BY <1>1, <1>2, <1>3, <1>4

\* An end: a guard dies only by the hand of a program.
LEMMA GuardEnd ==
  ASSUME IndInv, NEW g \in Proc, Guard(g), mode = "up",
         NEW i \in DOMAIN procs, NEW blocks \in [Proc -> Pcbs],
         \A q \in Proc : /\ blocks[q].mem = pcb[q].mem /\ blocks[q].kind = pcb[q].kind
                         /\ blocks[q].pid = pcb[q].pid /\ blocks[q].system = pcb[q].system,
         ~blocks[g].killed, current_process # g,
         KillNode(i, blocks), UNCHANGED pid_top
  PROVE  /\ mode' = "up"
         /\ procs[i] # g => Guard(g)'
         /\ procs[i] = g => pcb'[g].mem = "freed" /\ pcb'[g].kind = pcb[g].kind
<1> DEFINE p == procs[i]
           cur == current_process
<1>0. /\ pcb[g].mem = "allocated" /\ cur \in Proc /\ pcb[cur].mem = "allocated"
      /\ p \in Proc /\ pcb[g].system /\ pcb[g].kind \in {"init", "videod"}
      /\ Listed(g) /\ pid_top > pcb[g].pid
  BY GuardFacts, ListFacts DEF Guard, IndInv
<1>1. mode' # "hung" \/ (blocks[p].pid = blocks[cur].pid /\ NotKilled(blocks) \ {i} = {})
  BY KillKeeps
<1>2. blocks[p].pid = blocks[cur].pid => p # g
  BY <1>0 DEF Guard, Born
<1>3. p # g => NotKilled(blocks) \ {i} # {}
  <2>1. PICK j \in DOMAIN procs : procs[j] = g
    BY <1>0 DEF Listed
  <2> QED BY <2>1 DEF NotKilled
<1>4. /\ mode' = "up" /\ pcb'[p].mem = "freed" /\ pcb'[p].kind = blocks[p].kind
      /\ pcb'[p].pid = blocks[p].pid
      /\ \A q \in Proc \ {p} : pcb'[q] = blocks[q]
      /\ \A q \in Proc : Listed(q) /\ q # p => Listed(q)'
      /\ \A q \in Proc : th'[q].pc \in {"run", "stale"} \/ th'[q] = th[q]
  BY <1>1, <1>2, <1>3, KillKeeps
<1>5. ASSUME p # g PROVE Guard(g)'
  <2>1. Listed(g)' /\ ~pcb'[g].killed /\ pcb'[g].system /\ pcb'[g].kind \in {"init", "videod"}
    BY <1>0, <1>4, <1>5
  <2>2. \A q \in Proc : pcb'[q].pid = pcb[q].pid /\ (Born(q)' => Born(q))
    <3>1. ASSUME NEW q \in Proc PROVE pcb'[q].pid = pcb[q].pid /\ (Born(q)' => Born(q))
      <4>1. CASE q = p
        <5>1. Born(p)
          BY ListFacts DEF IndInv, ListedIsAllocated, Born
        <5> QED BY <1>0, <1>4, <4>1, <5>1
      <4>2. CASE q # p
        BY <1>4, <4>2 DEF Born
      <4> QED BY <4>1, <4>2
    <3> QED BY <3>1
  <2>3. ASSUME NEW q \in Proc, th'[q].pc = "alloc" PROVE pcb'[th'[q].child].pid > pcb[g].pid
    <3>1. th'[q] = th[q]
      BY <1>4, <2>3
    <3>2. th[q].child \in Proc
      BY <2>3, <3>1 DEF IndInv, ChildrenApart, Creating, Unlisted
    <3> QED BY <2>2, <2>3, <3>1, <3>2 DEF Guard
  <2> QED BY <1>0, <2>1, <2>2, <2>3 DEF Guard
<1> QED BY <1>0, <1>4, <1>5

-----------------------------------------------------------------------------
(* Every step, sorted by what it does to the blocks. *)

\* A process ends: which one it is depends on the pid of the running process.
Ending ==
  \E blocks \in [Proc -> Pcbs], i \in DOMAIN procs :
    /\ \A q \in Proc : /\ blocks[q].mem = pcb[q].mem /\ blocks[q].kind = pcb[q].kind
                       /\ blocks[q].pid = pcb[q].pid /\ blocks[q].system = pcb[q].system
                       /\ q # current_process => blocks[q].killed = pcb[q].killed
    /\ KillNode(i, blocks)
    /\ \/ pcb[current_process].kind \in Programs
       \/ ~pcb[current_process].system /\ FoundAt(pcb[current_process].pid, i)
    /\ UNCHANGED <<pid_top, daemon, boot>>

\* A program's call to kill that pauses nobody.
Refusing ==
  /\ pcb[current_process].kind \in Programs
  /\ UNCHANGED <<procs, th, mode, pid_top, daemon, boot>>
  /\ \/ pcb' = pcb
     \/ \E x \in Proc : pcb' = [pcb EXCEPT ![x].killed = FALSE]

LEMMA Ends ==
  ASSUME IndInv, Exit \/ HandleException
  PROVE  Ending \/ (mode' = "panic" /\ IdentitiesStay /\ daemon' = daemon)
<1> DEFINE cur == current_process
           blocks == [pcb EXCEPT ![cur].killed = TRUE]
<1>1. cur \in Proc /\ pcb \in [Proc -> Pcbs]
  BY DEF IndInv, TypeOK
<1>2. CASE Exit
  <2>1. PICK i \in DOMAIN procs : KillNode(i, pcb)
    BY <1>2 DEF Exit, KillSelf
  <2>2. pcb[cur].kind \in Programs /\ UNCHANGED <<pid_top, daemon, boot>>
    BY <1>2 DEF Exit
  <2>3. \E b \in [Proc -> Pcbs] : b = pcb
    BY <1>1
  <2> QED BY <2>1, <2>2, <2>3 DEF Ending
<1>3. CASE HandleException
  <2>1. /\ UNCHANGED <<pid_top, daemon, boot>>
        /\ \/ mode' = "panic" /\ pcb' = blocks
           \/ ~pcb[cur].system /\ KillSelf(blocks)
    BY <1>3, Zenon DEF HandleException
  <2>2. CASE mode' = "panic" /\ pcb' = blocks
    BY <1>1, <2>1, <2>2, PausesKeep
  <2>3. CASE ~pcb[cur].system /\ KillSelf(blocks)
    <3>1. /\ blocks \in [Proc -> Pcbs]
          /\ \A q \in Proc : /\ blocks[q].mem = pcb[q].mem /\ blocks[q].kind = pcb[q].kind
                             /\ blocks[q].pid = pcb[q].pid /\ blocks[q].system = pcb[q].system
                             /\ q # cur => blocks[q].killed = pcb[q].killed
      BY <1>1, PausedFacts
    <3> HIDE DEF blocks
    <3>2. PICK i \in DOMAIN procs : FoundAt(pcb[cur].pid, i) /\ KillNode(i, blocks)
      BY <2>3 DEF KillSelf
    <3> QED BY <2>1, <2>3, <3>1, <3>2 DEF Ending
  <2> QED BY <2>1, <2>2, <2>3
<1> QED BY <1>2, <1>3

LEMMA Kills ==
  ASSUME IndInv, 19 \notin Signals, NEW pid, NEW sig \in Signals, Kill(pid, sig)
  PROVE  Ending \/ Refusing
<1>1. /\ pcb[current_process].kind \in Programs /\ UNCHANGED <<pid_top, daemon, boot>>
      /\ sig # 19
  BY DEF Kill
<1>2. \/ \E i \in DOMAIN procs : KillNode(i, pcb)
      \/ /\ UNCHANGED <<procs, th, mode>>
         /\ \/ pcb' = pcb
            \/ \E i \in DOMAIN procs : pcb' = [pcb EXCEPT ![procs[i]].killed = (sig = 19)]
  BY Zenon DEF Kill, sched
<1>3. CASE \E i \in DOMAIN procs : KillNode(i, pcb)
  <2>1. \E b \in [Proc -> Pcbs] : b = pcb
    BY DEF IndInv, TypeOK
  <2> QED BY <1>1, <1>3, <2>1 DEF Ending
<1>4. CASE /\ UNCHANGED <<procs, th, mode>>
           /\ \/ pcb' = pcb
              \/ \E i \in DOMAIN procs : pcb' = [pcb EXCEPT ![procs[i]].killed = (sig = 19)]
  <2>1. (sig = 19) = FALSE
    BY <1>1
  <2>2. \A i \in DOMAIN procs : procs[i] \in Proc
    BY ListFacts DEF IndInv
  <2>3. \/ pcb' = pcb
        \/ \E x \in Proc : pcb' = [pcb EXCEPT ![x].killed = FALSE]
    BY <1>4, <2>1, <2>2, Zenon
  <2> QED BY <1>1, <1>4, <2>3 DEF Refusing
<1> QED BY <1>2, <1>3, <1>4

\* No block changes hands: it keeps its kind, and once freed it stays freed.
Lasting ==
  \A q \in Proc : Born(q) => /\ Born(q)' /\ pcb'[q].kind = pcb[q].kind
                             /\ pcb[q].mem = "freed" => pcb'[q].mem = "freed"

LEMMA EndingLasts ==
  ASSUME IndInv, mode = "up", Ending
  PROVE  mode' = "hung" \/ Lasting
<1>1. PICK blocks \in [Proc -> Pcbs], i \in DOMAIN procs :
        /\ \A q \in Proc : blocks[q].mem = pcb[q].mem /\ blocks[q].kind = pcb[q].kind
        /\ KillNode(i, blocks)
  BY DEF Ending
<1>2. SUFFICES ASSUME mode' # "hung" PROVE Lasting
  OBVIOUS
<1>3. /\ pcb'[procs[i]].mem = "freed" /\ pcb'[procs[i]].kind = blocks[procs[i]].kind
      /\ \A q \in Proc \ {procs[i]} : pcb'[q] = blocks[q]
  BY <1>1, <1>2, KillKeeps
<1> QED BY <1>1, <1>3 DEF Lasting, Born

\* The steps that are neither an end nor a call to kill.
Ordinary ==
  \/ \E k \in Kinds : AllocProcess(k)
  \/ StorePidTop \/ AppendProcess \/ StartProcess \/ ConfigProcess \/ ResumeProgram
  \/ LaunchProgram \/ Tick \/ Yield \/ DaemonPause \/ (\E d \in Daemons : Wake(d))
  \/ BroadcastStart \/ BroadcastNext
  \/ EnterSyscall \/ EnableInSyscall \/ LeaveSyscall \/ SendEvent \/ SendEventDone
  \/ Retire

LEMMA NextSorted ==
  ASSUME IndInv, 19 \notin Signals, Next
  PROVE  /\ mode = "up"
         /\ \/ Ordinary
            \/ Ending
            \/ Refusing
            \/ mode' = "panic" /\ IdentitiesStay /\ daemon' = daemon
<1>1. mode = "up"
  BY DEF Next, AllocProcess, StorePidTop, AppendProcess, StartProcess, ConfigProcess,
     ResumeProgram, LaunchProgram, Tick, Yield, DaemonPause, Wake, BroadcastStart,
     BroadcastNext, EnterSyscall, EnableInSyscall, LeaveSyscall, SendEvent, SendEventDone,
     Exit, Retire, HandleException, Kill
<1>2. \/ Ordinary \/ Exit \/ HandleException
      \/ \E pid \in -1..Cardinality(Proc), sig \in Signals : Kill(pid, sig)
  BY Zenon DEF Next, Ordinary
<1> QED BY <1>1, <1>2, Ends, Kills

LEMMA OrdinaryLasts ==
  ASSUME IndInv, Ordinary
  PROVE  Lasting /\ (ConfigProcess \/ daemon' = daemon)
<1>1. IdentitiesStay => Lasting
  BY DEF IdentitiesStay, Lasting, Born
<1>2. pcb' = pcb => IdentitiesStay
  BY DEF IdentitiesStay
<1>3. /\ \A i \in DOMAIN procs : procs[i] \in Proc
      /\ \A d \in Daemons : daemon[d] # None => daemon[d] \in Proc
  BY ListFacts DEF IndInv, TypeOK
<1>4. CASE \E k \in Kinds : AllocProcess(k)
  <2>1. PICK k \in Kinds : AllocProcess(k)
    BY <1>4
  <2>2. PICK p \in Proc : ~Born(p) /\ \A q \in Proc \ {p} : pcb'[q] = pcb[q]
    BY <2>1, AllocKeeps
  <2> QED BY <2>1, <2>2 DEF Lasting, Born, AllocProcess
<1>5. CASE StorePidTop \/ AppendProcess
  BY <1>1, <1>2, <1>5 DEF StorePidTop, AppendProcess
<1>6. CASE StartProcess
  BY <1>1, <1>6, StartKeeps DEF StartProcess
<1>7. CASE ConfigProcess
  BY <1>1, <1>7, ConfigKeeps
<1>8. CASE ResumeProgram \/ LaunchProgram \/ DaemonPause \/ (\E d \in Daemons : Wake(d)) \/ Retire
  <2>1. /\ daemon' = daemon
        /\ pcb' = pcb \/ \E x \in Proc, b \in BOOLEAN : pcb' = [pcb EXCEPT ![x].killed = b]
    <3>1. FALSE \in BOOLEAN /\ TRUE \in BOOLEAN
      OBVIOUS
    <3>2. daemon' = daemon
      BY <1>8 DEF ResumeProgram, LaunchProgram, DaemonPause, Wake, Retire, Local
    <3>3. CASE ResumeProgram \/ LaunchProgram
      BY <1>3, <3>1, <3>2, <3>3, Zenon DEF ResumeProgram, LaunchProgram
    <3>4. CASE DaemonPause
      BY <1>3, <3>1, <3>2, <3>4, Zenon DEF DaemonPause
    <3>5. CASE \E d \in Daemons : Wake(d)
      BY <1>3, <3>1, <3>2, <3>5, Zenon DEF Wake
    <3>6. CASE Retire
      BY Init0InProc, <3>1, <3>2, <3>6, Zenon DEF Retire
    <3> QED BY <1>8, <3>3, <3>4, <3>5, <3>6
  <2> QED BY <1>1, <1>2, <2>1, PausesKeep
<1>9. CASE Tick \/ Yield
  <2>1. (\E saved \in BOOLEAN : SwitchTask(saved)) /\ daemon' = daemon
    BY <1>9 DEF Tick, Yield, Local, IndInv, TypeOK
  <2> QED BY <1>1, <2>1, SwitchKeeps
<1>10. CASE \/ BroadcastStart \/ BroadcastNext \/ EnterSyscall \/ EnableInSyscall
            \/ LeaveSyscall \/ SendEvent \/ SendEventDone
  BY <1>1, <1>2, <1>10, ElsewhereSteps
<1> QED BY <1>4, <1>5, <1>6, <1>7, <1>8, <1>9, <1>10 DEF Ordinary

LEMMA KindsStayNext ==
  ASSUME IndInv, ActiveInv, KindsStay, Lasting, mode = "up", ConfigProcess \/ daemon' = daemon
  PROVE  KindsStay'
<1>1. pcb'[Init0].kind = "init" /\ Born(Init0)'
  BY Init0InProc DEF KindsStay, Lasting
<1>2. daemon \in [Daemons -> Proc \union {None}]
  BY DEF IndInv, TypeOK
<1>3. \A d \in Daemons : daemon[d] # None => pcb'[daemon[d]].kind = d /\ pcb'[daemon[d]].mem # "unused"
  BY <1>2 DEF KindsStay, Lasting, Born
<1>4. CASE daemon' = daemon
  BY <1>1, <1>3, <1>4 DEF KindsStay, Born
<1>5. CASE ConfigProcess
  <2> DEFINE c == Child
             k == pcb[c].kind
  <2>1. current_process \in Proc /\ Me = th[current_process] /\ Me.pc = "config"
    BY <1>5 DEF ConfigProcess, IndInv, TypeOK, Me
  <2>2. c \in Proc
    BY <1>5, ConfigKeeps
  <2>3. Newborn(current_process)
    BY <2>1 DEF ActiveInv
  <2>4. Born(c)
    BY <2>1, <2>3 DEF Newborn, Creating, Child, Born
  <2>5. pcb'[c].kind = k /\ pcb'[c].mem # "unused"
    BY <2>2, <2>4 DEF Lasting, Born
  <2>6. daemon' = IF k \in Daemons THEN [daemon EXCEPT ![k] = c] ELSE daemon
    BY <1>5 DEF ConfigProcess
  <2> HIDE DEF c
  <2>7. \A d \in Daemons : daemon'[d] = daemon[d] \/ (d = k /\ daemon'[d] = c)
    BY <1>2, <2>6
  <2>8. ASSUME NEW d \in Daemons, daemon'[d] # None
        PROVE  pcb'[daemon'[d]].kind = d /\ pcb'[daemon'[d]].mem # "unused"
    BY <1>3, <2>5, <2>7, <2>8
  <2> QED BY <1>1, <2>8 DEF KindsStay, Born
<1> QED BY <1>4, <1>5

\* A videod that is ready stays ready, whatever is run beside it, or is killed.
LEMMA LateStep ==
  ASSUME IndInv, KindsStay, 19 \notin Signals, Next,
         NEW v \in Proc, Guard(v), pcb[v].kind = "videod"
  PROVE  /\ mode' # "hung"
         /\ mode' = "up" => VideodFreed' \/ (Guard(v)' /\ pcb'[v].kind = "videod")
<1> DEFINE cur == current_process
<1>0. /\ mode = "up" /\ cur \in Proc /\ v # Init0 /\ pcb[v].system
      /\ pcb[v].mem = "allocated" /\ ~pcb[v].killed
  BY NextSorted, GuardFacts, Init0InProc DEF KindsStay, Guard
<1>1. CASE Ordinary
  <2>1. Guard(v)' /\ mode' = "up"
    <3>1. CASE \E k \in Kinds : AllocProcess(k)
      BY <1>0, <3>1, GuardAlloc DEF AllocProcess
    <3>2. CASE StorePidTop \/ AppendProcess \/ StartProcess \/ ConfigProcess \/ ResumeProgram
      BY <3>2, GuardCreation
    <3>3. CASE \/ LaunchProgram \/ DaemonPause \/ (\E d \in Daemons : Wake(d))
               \/ Tick \/ Yield
               \/ BroadcastStart \/ BroadcastNext \/ EnterSyscall \/ EnableInSyscall
               \/ LeaveSyscall \/ SendEvent \/ SendEventDone
               \/ Retire
      BY <1>0, <3>3, GuardQuiet
    <3> QED BY <1>1, <3>1, <3>2, <3>3 DEF Ordinary
  <2>2. pcb'[v].kind = "videod"
    BY <1>0, <1>1, OrdinaryLasts DEF Lasting, Born
  <2> QED BY <2>1, <2>2
<1>2. CASE Ending
  <2>1. PICK blocks \in [Proc -> Pcbs], i \in DOMAIN procs :
          /\ \A q \in Proc : /\ blocks[q].mem = pcb[q].mem /\ blocks[q].kind = pcb[q].kind
                             /\ blocks[q].pid = pcb[q].pid /\ blocks[q].system = pcb[q].system
                             /\ q # cur => blocks[q].killed = pcb[q].killed
          /\ KillNode(i, blocks) /\ UNCHANGED pid_top
          /\ pcb[cur].kind \in Programs \/ ~pcb[cur].system
    BY <1>2 DEF Ending
  <2>2. cur # v
    BY <1>0, <2>1 DEF Programs
  <2>3. ~blocks[v].killed
    BY <1>0, <2>1, <2>2
  <2>4. /\ mode' = "up"
        /\ procs[i] # v => Guard(v)'
        /\ procs[i] = v => pcb'[v].mem = "freed" /\ pcb'[v].kind = pcb[v].kind
    BY <1>0, <2>1, <2>2, <2>3, GuardEnd
  <2>5. pcb'[v].kind = "videod"
    BY <1>0, <1>2, <2>4, EndingLasts DEF Lasting, Born
  <2> QED BY <2>4, <2>5 DEF VideodFreed
<1>3. CASE Refusing
  <2>1. Steady(v) /\ pcb'[v].kind = pcb[v].kind
    <3>1. CASE pcb' = pcb
      BY <1>0, <3>1 DEF Steady, IdentitiesStay
    <3>2. CASE \E x \in Proc : pcb' = [pcb EXCEPT ![x].killed = FALSE]
      BY <1>0, <3>2, PausesKeep DEF Steady, IdentitiesStay
    <3> QED BY <1>3, <3>1, <3>2 DEF Refusing
  <2>2. UNCHANGED <<procs, th, mode, pid_top>>
    BY <1>3 DEF Refusing
  <2>3. Guard(v)'
    BY <2>1, <2>2, GuardKeeps DEF Guard, Listed
  <2> QED BY <1>0, <2>1, <2>2, <2>3
<1>4. CASE mode' = "panic"
  BY <1>4
<1> QED BY <1>1, <1>2, <1>3, <1>4, NextSorted

-----------------------------------------------------------------------------
(* While main() creates the daemons. *)

\* A step that leaves the creation where it is.
LEMMA BootingKeeps ==
  ASSUME IndInv, Booting, UNCHANGED <<pid_top, boot>>,
         \A q \in Proc : /\ Born(q)' => Born(q)
                         /\ pcb'[q].kind = pcb[q].kind /\ pcb'[q].pid = pcb[q].pid
                         /\ pcb'[q].kind = "videod" /\ pcb'[q].system => pcb[q].system,
         th'[Init0] = th[Init0],
         \A q \in Proc : th'[q].pc \in Creating => th'[q] = th[q]
  PROVE  Booting'
<1>1. \A p \in Proc : Born(p)' => IF th[Init0].pc = "alloc" /\ p = th[Init0].child
                                  THEN pcb'[p].pid = pid_top ELSE pcb'[p].pid < pid_top
  BY DEF Booting
<1>2. th[Init0].pc # "run" => th[Init0].child \in Proc
  BY Init0InProc DEF Booting, IndInv, ChildrenApart, Creating, Unlisted
<1>3. th'[Init0].pc # "run" =>
        boot \in 1..Len(BootScript) /\ pcb'[th'[Init0].child].kind = BootScript[boot]
  BY <1>2 DEF Booting
<1>4. \A p \in Proc : th'[p].pc \in Creating => p = Init0 /\ th'[p].home = "run"
  BY DEF Booting
<1>5. /\ \A q \in Proc : Born(q)' => pcb'[q].kind \notin Programs
      /\ \A q \in Proc : pcb'[q].kind = "videod" => ~pcb'[q].system
      /\ th'[Init0].pc \in {"run", "alloc", "append", "start", "config"}
      /\ \A p, q \in Proc : Born(p)' /\ Born(q)' /\ pcb'[p].pid = pcb'[q].pid => p = q
      /\ \A i \in 1..boot : BootScript[i] = "videod" => i = boot /\ th'[Init0].pc # "run"
  BY DEF Booting
<1> QED BY <1>1, <1>3, <1>4, <1>5 DEF Booting

LEMMA BootingAlloc ==
  ASSUME IndInv, Booting, NEW k, AllocProcess(k)
  PROVE  Booting' /\ th'[Init0].pc = "alloc"
<1> DEFINE cur == current_process
<1>1. /\ cur \in Proc /\ Me = th[cur] /\ Me \in Threads /\ Listed(cur)
      /\ pcb[cur].mem = "allocated"
  BY DEF IndInv, TypeOK, Me, SchedulerConsistent, ListedIsAllocated, Listed
<1>2. /\ cur = Init0 /\ Me.pc = "run" /\ boot < Len(BootScript) /\ k = BootScript[boot + 1]
      /\ boot' = boot + 1
  <2>1. pcb[cur].kind \notin Programs
    BY <1>1 DEF Booting, Born
  <2>2. ~(Me.pc = "handler" /\ Me.node # None /\ pcb[Me.node].kind = "videod" /\ pcb[Me.node].system)
    BY <1>1 DEF Booting, Threads
  <2> QED BY <2>1, <2>2 DEF AllocProcess, Creates
<1>3. PICK p \in Proc : /\ ~Born(p) /\ Puts("alloc", Me.pc, p)
                        /\ pcb'[p].kind = k /\ pcb'[p].pid = pid_top /\ ~pcb'[p].system
                        /\ pcb'[p].mem = "allocated"
                        /\ \A q \in Proc \ {p} : pcb'[q] = pcb[q]
  BY AllocKeeps
<1>4. /\ th'[Init0].pc = "alloc" /\ th'[Init0].home = "run" /\ th'[Init0].child = p
      /\ \A q \in Proc \ {Init0} : th'[q] = th[q]
  BY <1>2, <1>3, PutsFacts
<1>5. pid_top' = pid_top /\ pid_top \in Nat /\ boot \in Nat
  BY DEF AllocProcess, IndInv, TypeOK
<1>6. \A q \in Proc : Born(q) => pcb[q].pid < pid_top /\ pcb[q].pid \in Nat
  BY <1>1, <1>2 DEF Booting, IndInv, TypeOK, Pcbs
<1>7. k \in {"dispatchd", "netd", "videod", "zombie"}
  BY <1>2, <1>5, BootScriptKinds, ElementOfSeq
<1>8. \A q \in Proc : Born(q)' => pcb'[q].kind \notin Programs
  BY <1>3, <1>7 DEF Booting, Born, Programs
<1>9. \A q \in Proc : pcb'[q].kind = "videod" => ~pcb'[q].system
  BY <1>3 DEF Booting
<1>10. \A q \in Proc : th'[q].pc \in Creating => q = Init0 /\ th'[q].home = "run"
  BY <1>4 DEF Booting
<1>11. \A q \in Proc : Born(q)' => IF q = p THEN pcb'[q].pid = pid_top ELSE pcb'[q].pid < pid_top
  BY <1>3, <1>6 DEF Born
<1>12. \A q, r \in Proc : Born(q)' /\ Born(r)' /\ pcb'[q].pid = pcb'[r].pid => q = r
  <2> SUFFICES ASSUME NEW q \in Proc, NEW r \in Proc, Born(q)', Born(r)',
                      pcb'[q].pid = pcb'[r].pid
               PROVE  q = r
    OBVIOUS
  <2>1. CASE q = p \/ r = p
    <3>1. ASSUME NEW a \in Proc, Born(a)', a # p PROVE pcb'[a].pid # pid_top
      BY <1>3, <1>5, <1>6, <3>1 DEF Born
    <3> QED BY <1>3, <2>1, <3>1
  <2>2. CASE q # p /\ r # p
    BY <1>3, <2>2 DEF Booting, Born
  <2> QED BY <2>1, <2>2
<1>13. boot' \in 1..Len(BootScript) /\ pcb'[p].kind = BootScript[boot']
  BY <1>2, <1>3, <1>5, BootScriptKinds, LenProperties
<1>14. \A i \in 1..boot' : BootScript[i] = "videod" => i = boot'
  BY <1>1, <1>2, <1>5 DEF Booting
<1> QED
  BY <1>4, <1>5, <1>8, <1>9, <1>10, <1>11, <1>12, <1>13, <1>14 DEF Booting

\* Until main() is done with it.
LEMMA BootingCreation ==
  ASSUME IndInv, Booting, VideodWaits,
         StorePidTop \/ AppendProcess \/ StartProcess
  PROVE  Booting' /\ VideodWaits'
<1> DEFINE cur == current_process
           c == th[Init0].child
<1>1. /\ cur \in Proc /\ Me = th[cur] /\ Me \in Threads /\ Me.pc \in Creating
      /\ Me.pc \in {"alloc", "append", "start"}
  BY DEF IndInv, TypeOK, Me, StorePidTop, AppendProcess, StartProcess, Creating, Unlisted
<1>2. cur = Init0 /\ Me = th[Init0] /\ Child = c /\ Me.home = "run" /\ c \in Proc
  BY <1>1 DEF Booting, Child, IndInv, ChildrenApart
<1>3. Me.pc \in Unlisted => Born(c)
  BY <1>1, <1>2 DEF IndInv, ChildrenApart, Born
<1>4. /\ boot \in 1..Len(BootScript) /\ pcb[c].kind = BootScript[boot] /\ boot' = boot
      /\ boot \in Nat
  BY <1>1, <1>2 DEF Booting, StorePidTop, AppendProcess, StartProcess, IndInv, TypeOK
<1>5. pcb[c].kind \notin Programs
  BY <1>4, BootScriptKinds, ElementOfSeq DEF Programs
<1>6. PICK to \in {"append", "start", "config"} :
        /\ Puts(to, "run", c)
        /\ Me.pc = "alloc" <=> to = "append"
        /\ StartProcess => to = "config"
        /\ AppendProcess /\ to = "config" => pcb[c].kind = "zombie"
  <2>1. CASE StorePidTop
    BY <1>2, <2>1, CreationPuts DEF StorePidTop, StartProcess, AppendProcess
  <2>2. CASE AppendProcess
    BY <1>2, <2>2, CreationPuts DEF StorePidTop, StartProcess, AppendProcess
  <2>3. CASE StartProcess
    BY <1>2, <1>5, <2>3, CreationPuts DEF StorePidTop, StartProcess, AppendProcess
  <2> QED BY <2>1, <2>2, <2>3
<1>7. /\ th'[Init0].pc = to /\ th'[Init0].home = "run" /\ th'[Init0].child = c
      /\ \A q \in Proc \ {Init0} : th'[q] = th[q]
  BY <1>2, <1>6, PutsFacts
<1>8. IdentitiesStay /\ \A q \in Proc : pcb'[q].system = pcb[q].system
  <2>1. CASE StorePidTop \/ AppendProcess
    BY <2>1 DEF StorePidTop, AppendProcess, IdentitiesStay
  <2>2. CASE StartProcess
    BY <1>2, <1>5, <2>2, StartKeeps
  <2> QED BY <2>1, <2>2
<1>9. /\ \A p \in Proc : pcb[p].pid \in Nat
      /\ pid_top \in Nat
  BY DEF IndInv, TypeOK, Pcbs
<1>10. pid_top' = IF Me.pc = "alloc" THEN pid_top + 1 ELSE pid_top
  <2>1. CASE StorePidTop
    <3>1. pid_top' = pcb[c].pid + 1 /\ Me.pc = "alloc"
      BY <1>2, <2>1 DEF StorePidTop
    <3>2. pcb[c].pid = pid_top
      BY <1>2, <1>3, <3>1 DEF Booting, Unlisted
    <3> QED BY <3>1, <3>2
  <2>2. CASE AppendProcess \/ StartProcess
    BY <2>2 DEF AppendProcess, StartProcess
  <2> QED BY <2>1, <2>2
<1>11. ASSUME NEW p \in Proc, Born(p) PROVE pcb[p].pid < pid_top'
  BY <1>2, <1>9, <1>10, <1>11 DEF Booting
<1>12. Booting'
  <2>1. \A p \in Proc : Born(p)' => pcb'[p].pid < pid_top'
    BY <1>8, <1>11 DEF IdentitiesStay, Born
  <2>2. \A i \in 1..boot : BootScript[i] = "videod" => i = boot
    BY DEF Booting
  <2>3. /\ \A q \in Proc : Born(q)' => pcb'[q].kind \notin Programs
        /\ \A q \in Proc : pcb'[q].kind = "videod" => ~pcb'[q].system
        /\ \A p, q \in Proc : Born(p)' /\ Born(q)' /\ pcb'[p].pid = pcb'[q].pid => p = q
        /\ \A p \in Proc : th'[p].pc \in Creating => p = Init0 /\ th'[p].home = "run"
    BY <1>7, <1>8 DEF Booting, IdentitiesStay, Born
  <2>4. pcb'[c].kind = BootScript[boot]
    BY <1>2, <1>4, <1>8 DEF IdentitiesStay
  <2> QED BY <1>4, <1>7, <2>1, <2>2, <2>3, <2>4 DEF Booting
<1>13. VideodWaits'
  <2> SUFFICES ASSUME to \in {"start", "config"}, pcb[c].kind = "videod", pcb'[c].mem # "freed"
               PROVE  /\ \E i \in DOMAIN procs' : procs'[i] = c
                      /\ to = "config" => ~pcb'[c].killed
    BY <1>2, <1>7, <1>8 DEF VideodWaits, IdentitiesStay, Listed
  <2> HIDE DEF c
  <2>1. CASE StorePidTop
    BY <2>1, <1>6 DEF StorePidTop
  <2>2. CASE AppendProcess
    <3>1. to # "config"
      BY <1>6, <2>2
    <3>2. procs' = Append(procs, c) /\ procs \in Seq(Proc)
      BY <1>2, <2>2 DEF AppendProcess, IndInv, TypeOK
    <3>3. Len(procs) + 1 \in DOMAIN procs' /\ procs'[Len(procs) + 1] = c
      BY <1>2, <3>2, AppendProperties, LenProperties
    <3> QED BY <3>1, <3>3
  <2>3. CASE StartProcess
    <3>1. Me.pc = "start" /\ procs' = procs
      BY <2>3 DEF StartProcess, sched
    <3>2. \E i \in DOMAIN procs : procs[i] = c
      BY <1>2, <1>8, <3>1 DEF VideodWaits, IdentitiesStay, c, Listed
    <3>3. ~pcb'[c].killed
      BY <1>2, <1>5, <2>3, StartKeeps
    <3> QED BY <3>1, <3>2, <3>3
  <2> QED BY <2>1, <2>2, <2>3
<1> QED BY <1>12, <1>13

\* The daemon main() made is configured: if it is videod, it takes over.
LEMMA BootingConfig ==
  ASSUME IndInv, Booting, VideodWaits, ConfigProcess
  PROVE  \/ VideodFreed'
         \/ Booting' /\ VideodWaits'
         \/ \E v \in Proc : pcb'[v].kind = "videod" /\ Guard(v)'
<1> DEFINE cur == current_process
<1>1. /\ cur \in Proc /\ Me = th[cur] /\ Me.pc = "config" /\ boot' = boot /\ pid_top' = pid_top
      /\ procs' = procs
  BY DEF IndInv, TypeOK, Me, ConfigProcess, sched
<1>2. PICK c \in Proc : c = Child
  BY ConfigKeeps
<1>3. cur = Init0 /\ Me = th[Init0] /\ c = th[Init0].child /\ Me.home = "run"
  BY <1>1, <1>2 DEF Booting, Child, Creating, Unlisted
<1>4. boot \in 1..Len(BootScript) /\ pcb[c].kind = BootScript[boot] /\ boot \in Nat
  BY <1>1, <1>3 DEF Booting, IndInv, TypeOK
<1>5. /\ th'[Init0].pc = "run" /\ th'[Init0].home = "run"
      /\ \A q \in Proc \ {Init0} : th'[q] = th[q]
  BY <1>3, CreationPuts, PutsFacts
<1>6. /\ IdentitiesStay
      /\ \A q \in Proc \ {c} : pcb'[q].system = pcb[q].system
      /\ \A q \in Proc : pcb'[q].killed = pcb[q].killed
      /\ pcb'[c].system = (pcb[c].system \/ pcb[c].kind \in {"dispatchd", "videod", "zombie"})
  BY <1>2, ConfigKeeps
<1>7. \A p \in Proc : Born(p) => pcb[p].pid < pid_top /\ pcb[p].pid \in Nat
  BY <1>1, <1>3 DEF Booting, IndInv, TypeOK, Pcbs
<1>8. \A q \in Proc : th'[q].pc \notin Creating
  BY <1>5 DEF Booting, Creating, Unlisted
<1>9. CASE pcb[c].kind = "videod" /\ pcb[c].mem = "freed"
  BY <1>6, <1>9 DEF VideodFreed, IdentitiesStay
<1>10. CASE pcb[c].kind = "videod" /\ pcb[c].mem # "freed"
  <2>1. Listed(c) /\ ~pcb[c].killed
    BY <1>1, <1>3, <1>10 DEF VideodWaits
  <2>2. Born(c)
    BY <2>1 DEF IndInv, ListedIsAllocated, Listed, Born
  <2>3. \A q \in Proc \ {c} : Born(q)' => pcb'[q].pid # pcb'[c].pid
    BY <1>6, <2>2 DEF Booting, IdentitiesStay, Born
  <2>4. pid_top' > pcb'[c].pid
    BY <1>1, <1>6, <1>7, <2>2 DEF IdentitiesStay, IndInv, TypeOK
  <2>5. Listed(c)' /\ ~pcb'[c].killed /\ pcb'[c].system /\ pcb'[c].kind = "videod"
    BY <1>1, <1>6, <1>10, <2>1 DEF Listed, IdentitiesStay
  <2>6. \A p \in Proc : th'[p].pc # "alloc"
    BY <1>8 DEF Creating, Unlisted
  <2> QED BY <2>3, <2>4, <2>5, <2>6 DEF Guard
<1>11. CASE pcb[c].kind # "videod"
  <2>1. \A i \in 1..boot : BootScript[i] # "videod"
    BY <1>4, <1>11 DEF Booting
  <2>2. \A p \in Proc : Born(p)' => pcb'[p].pid < pid_top'
    BY <1>1, <1>6, <1>7 DEF IdentitiesStay, Born
  <2>3. /\ \A q \in Proc : Born(q)' => pcb'[q].kind \notin Programs
        /\ \A q \in Proc : pcb'[q].kind = "videod" => ~pcb'[q].system
        /\ \A p, q \in Proc : Born(p)' /\ Born(q)' /\ pcb'[p].pid = pcb'[q].pid => p = q
    BY <1>6, <1>11 DEF Booting, IdentitiesStay, Born
  <2>4. Booting'
    BY <1>1, <1>5, <1>8, <2>1, <2>2, <2>3 DEF Booting
  <2>5. VideodWaits'
    BY <1>5 DEF VideodWaits
  <2> QED BY <2>4, <2>5
<1> QED BY <1>9, <1>10, <1>11

\* Pauses, wake-ups, switches, and what other processes do while main() boots.
LEMMA BootingQuiet ==
  ASSUME IndInv, KindsStay, Booting, VideodWaits,
         \/ DaemonPause \/ (\E d \in Daemons : Wake(d)) \/ Tick \/ Yield
         \/ BroadcastStart \/ BroadcastNext \/ EnterSyscall \/ EnableInSyscall
         \/ LeaveSyscall \/ SendEvent \/ SendEventDone
  PROVE  Booting' /\ VideodWaits'
<1> DEFINE cur == current_process
<1>1. /\ cur \in Proc /\ Me = th[cur] /\ pcb[cur].mem = "allocated" /\ th \in [Proc -> Threads]
  BY DEF IndInv, TypeOK, Me, SchedulerConsistent, ListedIsAllocated, Listed
<1>2. UNCHANGED <<pid_top, boot, procs>>
  <2>1. CASE DaemonPause \/ (\E d \in Daemons : Wake(d))
    BY <2>1 DEF DaemonPause, Wake, Local, sched
  <2>2. CASE Tick \/ Yield
    <3>1. (\E saved \in BOOLEAN : SwitchTask(saved)) /\ UNCHANGED <<pid_top, boot>>
      BY <2>2 DEF Tick, Yield, Local, IndInv, TypeOK
    <3> QED BY <3>1, SwitchKeeps
  <2>3. CASE \/ BroadcastStart \/ BroadcastNext \/ EnterSyscall \/ EnableInSyscall
             \/ LeaveSyscall \/ SendEvent \/ SendEventDone
    BY <2>3, ElsewhereSteps
  <2> QED BY <2>1, <2>2, <2>3
<1>3. /\ IdentitiesStay
      /\ \A q \in Proc : pcb'[q].system = pcb[q].system
      /\ \A q \in Proc : pcb[q].kind = "videod" /\ ~pcb[q].killed => ~pcb'[q].killed
  <2>1. CASE DaemonPause
    <3>1. PICK d \in Daemons : daemon[d] # None /\ pcb' = [pcb EXCEPT ![daemon[d]].killed = TRUE]
      BY <2>1, Zenon DEF DaemonPause
    <3>2. daemon[d] \in Proc
      <4>1. daemon \in [Daemons -> Proc \union {None}]
        BY DEF IndInv, TypeOK
      <4> QED BY <3>1, <4>1
    <3>3. pcb[daemon[d]].kind = d /\ d # "videod"
      BY <3>1 DEF KindsStay, Daemons
    <3>4. PICK x \in Proc : pcb[x].kind # "videod" /\ pcb' = [pcb EXCEPT ![x].killed = TRUE]
      BY <3>1, <3>2, <3>3, Zenon
    <3> QED BY <3>4, PausesKeep
  <2>2. CASE \E d \in Daemons : Wake(d)
    <3>1. \A d \in Daemons : daemon[d] # None => daemon[d] \in Proc
      BY DEF IndInv, TypeOK
    <3>2. PICK x \in Proc : pcb' = [pcb EXCEPT ![x].killed = FALSE]
      BY <2>2, <3>1, Zenon DEF Wake
    <3> QED BY <3>2, PausesKeep
  <2>3. CASE Tick \/ Yield
    <3>1. \E saved \in BOOLEAN : SwitchTask(saved)
      BY <2>3 DEF Tick, Yield, IndInv, TypeOK
    <3> QED BY <3>1, SwitchKeeps
  <2>4. CASE \/ BroadcastStart \/ BroadcastNext \/ EnterSyscall \/ EnableInSyscall
             \/ LeaveSyscall \/ SendEvent \/ SendEventDone
    BY <2>4, ElsewhereSteps DEF IdentitiesStay
  <2> QED BY <2>1, <2>2, <2>3, <2>4
<1>4. th'[Init0] = th[Init0] /\ \A q \in Proc : th'[q].pc \in Creating => th'[q] = th[q]
  <2>1. CASE DaemonPause \/ (\E d \in Daemons : Wake(d)) \/ Tick \/ Yield
    BY <2>1 DEF DaemonPause, Wake, Tick, Yield, Local
  <2>2. CASE \/ BroadcastStart \/ BroadcastNext \/ EnterSyscall \/ EnableInSyscall
             \/ LeaveSyscall \/ SendEvent \/ SendEventDone
    <3>1. /\ Elsewhere
          /\ \/ Me.pc = "run" /\ pcb[cur].kind \in Programs \union {"dispatchd"}
             \/ Me.pc \in {"handler", "syscall", "enabled", "sending"}
      BY <2>2, ElsewhereSteps
    <3>2. cur # Init0
      BY <1>1, <3>1 DEF Booting, KindsStay, Programs
    <3> QED BY <1>1, <3>1, <3>2, Init0InProc DEF Elsewhere
  <2> QED BY <2>1, <2>2
<1>5. Booting'
  BY <1>2, <1>3, <1>4, BootingKeeps DEF IdentitiesStay, Born
<1>6. VideodWaits'
  <2>1. th[Init0].pc \in Creating => th[Init0].child \in Proc
    BY Init0InProc DEF IndInv, ChildrenApart
  <2> QED BY <1>2, <1>3, <1>4, <2>1 DEF VideodWaits, IdentitiesStay, Listed, Creating, Unlisted
<1> QED BY <1>5, <1>6

\* A process that faults while main() boots ends itself and nobody else.
LEMMA BootingEnd ==
  ASSUME IndInv, Guard(Init0), Booting, VideodWaits, mode = "up", Ending
  PROVE  mode' = "up" /\ Guard(Init0)' /\ Booting' /\ VideodWaits'
<1> DEFINE cur == current_process
<1>0. /\ cur \in Proc /\ Born(cur) /\ th \in [Proc -> Threads] /\ Init0 \in Proc
      /\ pcb[Init0].system /\ ~pcb[Init0].killed
  BY GuardFacts, Init0InProc DEF IndInv, TypeOK, Guard, Born
<1>1. PICK blocks \in [Proc -> Pcbs], i \in DOMAIN procs :
        /\ \A q \in Proc : /\ blocks[q].mem = pcb[q].mem /\ blocks[q].kind = pcb[q].kind
                           /\ blocks[q].pid = pcb[q].pid /\ blocks[q].system = pcb[q].system
                           /\ q # cur => blocks[q].killed = pcb[q].killed
        /\ KillNode(i, blocks)
        /\ pcb[cur].kind \in Programs \/ (~pcb[cur].system /\ FoundAt(pcb[cur].pid, i))
        /\ UNCHANGED <<pid_top, daemon, boot>>
  BY DEF Ending
<1>2. ~pcb[cur].system /\ pcb[procs[i]].pid = pcb[cur].pid
  BY <1>0, <1>1 DEF Booting, FoundAt
<1>3. procs[i] = cur /\ cur # Init0
  <2>1. procs[i] \in Proc /\ Born(procs[i])
    BY ListFacts DEF IndInv, ListedIsAllocated, Born
  <2> QED BY <1>0, <1>2, <2>1 DEF Booting
<1>4. mode' = "up" /\ Guard(Init0)'
  <2>1. ~blocks[Init0].killed
    BY <1>0, <1>1, <1>3
  <2> QED BY <1>0, <1>1, <1>3, <2>1, GuardEnd
<1>5. PICK p \in Proc : p = procs[i]
  BY <1>0, <1>3
<1>6. /\ pcb'[p].mem = "freed" /\ pcb'[p].kind = blocks[p].kind
      /\ pcb'[p].pid = blocks[p].pid /\ pcb'[p].system = blocks[p].system
      /\ \A q \in Proc \ {p} : pcb'[q] = blocks[q]
      /\ \A q \in Proc : Listed(q) /\ q # p => Listed(q)'
      /\ \A q \in Proc : th'[q].pc \in {"run", "stale"} \/ th'[q] = th[q]
      /\ th'[Init0] = th[Init0]
  BY <1>0, <1>1, <1>3, <1>4, <1>5, KillKeeps
<1>7. \A q \in Proc : /\ pcb'[q].kind = pcb[q].kind /\ pcb'[q].pid = pcb[q].pid
                      /\ pcb'[q].system = pcb[q].system /\ (Born(q)' => Born(q))
                      /\ q # p => pcb'[q].mem = pcb[q].mem /\ pcb'[q].killed = pcb[q].killed
  BY <1>0, <1>1, <1>3, <1>5, <1>6 DEF Born
<1>8. Booting'
  <2>1. \A q \in Proc : th'[q].pc \in Creating => th'[q] = th[q]
    BY <1>6 DEF Creating, Unlisted
  <2> QED BY <1>1, <1>6, <1>7, <2>1, BootingKeeps
<1>9. VideodWaits'
  <2>1. th[Init0].pc \in Creating => th[Init0].child \in Proc
    BY Init0InProc DEF IndInv, ChildrenApart
  <2>2. ASSUME th[Init0].pc \in {"start", "config"}, NEW c \in Proc, c = th[Init0].child,
               pcb'[c].kind = "videod", pcb'[c].mem # "freed"
        PROVE  Listed(c)' /\ (th[Init0].pc = "config" => ~pcb'[c].killed)
    BY <1>6, <1>7, <2>2 DEF VideodWaits
  <2> QED BY <1>6, <2>1, <2>2 DEF VideodWaits, Creating, Unlisted, Listed
<1> QED BY <1>4, <1>8, <1>9

LEMMA EarlyStep ==
  ASSUME IndInv, KindsStay, 19 \notin Signals, Next,
         \E i \in DOMAIN BootScript : BootScript[i] = "videod", Guard(Init0), Booting, VideodWaits
  PROVE  /\ mode' # "hung"
         /\ mode' = "up" =>
              \/ VideodFreed'
              \/ Guard(Init0)' /\ Booting' /\ VideodWaits'
              \/ \E v \in Proc : pcb'[v].kind = "videod" /\ Guard(v)'
<1> DEFINE cur == current_process
<1>0. /\ mode = "up" /\ Init0 \in Proc /\ cur \in Proc /\ Born(cur) /\ Me = th[cur]
      /\ pcb[cur].kind \notin Programs
  BY NextSorted, GuardFacts, Init0InProc DEF Booting, Born
<1>1. CASE Ordinary
  <2>1. CASE \E k \in Kinds : AllocProcess(k)
    <3>1. Booting' /\ th'[Init0].pc = "alloc" /\ Guard(Init0)' /\ mode' = "up"
      BY <1>0, <2>1, BootingAlloc, GuardAlloc DEF AllocProcess
    <3>2. VideodWaits'
      BY <3>1 DEF VideodWaits
    <3> QED BY <3>1, <3>2
  <2>2. CASE StorePidTop \/ AppendProcess \/ StartProcess
    BY <1>0, <2>2, BootingCreation, GuardCreation
  <2>3. CASE ConfigProcess
    BY <1>0, <2>3, BootingConfig, GuardCreation
  <2>4. ~ResumeProgram
    BY <1>0 DEF ResumeProgram, Booting, Creating
  <2>5. ~LaunchProgram
    BY <1>0 DEF LaunchProgram
  <2>6. CASE \/ DaemonPause \/ (\E d \in Daemons : Wake(d)) \/ Tick \/ Yield
             \/ BroadcastStart \/ BroadcastNext \/ EnterSyscall \/ EnableInSyscall
             \/ LeaveSyscall \/ SendEvent \/ SendEventDone
    <3>1. Booting' /\ VideodWaits'
      BY <2>6, BootingQuiet
    <3>2. Guard(Init0)' /\ mode' = "up"
      BY <1>0, <2>6, GuardQuiet
    <3> QED BY <3>1, <3>2
  <2>7. ~Retire
    <3>1. ASSUME Retire PROVE FALSE
      <4>1. boot = Len(BootScript) /\ th[Init0].pc = "run"
        BY <1>0, <3>1 DEF Retire
      <4>2. DOMAIN BootScript = 1..boot
        BY <4>1, BootScriptKinds, LenProperties
      <4> QED BY <4>1, <4>2 DEF Booting
    <3> QED BY <3>1
  <2> QED BY <1>1, <2>1, <2>2, <2>3, <2>4, <2>5, <2>6, <2>7 DEF Ordinary
<1>2. CASE Ending
  BY <1>0, <1>2, BootingEnd
<1>3. CASE Refusing
  BY <1>0, <1>3 DEF Refusing
<1>4. CASE mode' = "panic"
  BY <1>4
<1> QED BY <1>1, <1>2, <1>3, <1>4, NextSorted

LEMMA InitLock == Init => LockInv
<1> SUFFICES ASSUME Init PROVE LockInv
  OBVIOUS
<1>1. /\ procs = <<Init0>> /\ mode = "up" /\ pid_top = 1 /\ boot = 0
      /\ \A d \in Daemons : daemon[d] = None
      /\ \A p \in Proc : th[p].pc = "run"
  BY DEF Init, FreshThread
<1>2. /\ pcb[Init0].mem = "allocated" /\ pcb[Init0].kind = "init" /\ pcb[Init0].pid = 0
      /\ pcb[Init0].system /\ ~pcb[Init0].killed
  <2> DEFINE r == FreshPcb(Init0, "init", 0)
  <2>1. pcb[Init0] = [r EXCEPT !.killed = FALSE, !.system = TRUE, !.kill = "force_alive"]
    BY Init0InProc, Zenon DEF Init
  <2>2. r.mem = "allocated" /\ r.kind = "init" /\ r.pid = 0
        /\ DOMAIN r = {"mem", "kind", "pid", "killed", "system", "kill", "active", "intr"}
    BY DEF FreshPcb
  <2>3. LET v == [r EXCEPT !.killed = FALSE, !.system = TRUE, !.kill = "force_alive"]
        IN  /\ v.mem = "allocated" /\ v.kind = "init" /\ v.pid = 0
            /\ v.system /\ ~v.killed
    BY DEF FreshPcb
  <2> QED BY <2>1, <2>3
<1>3. ASSUME NEW p \in Proc \ {Init0} PROVE pcb[p].mem = "unused" /\ pcb[p].kind = "program"
  <2> DEFINE r == FreshPcb(p, "program", 0)
  <2>1. pcb[p] = [r EXCEPT !.mem = "unused"]
    BY <1>3, Zenon DEF Init
  <2>2. LET v == [r EXCEPT !.mem = "unused"] IN v.mem = "unused" /\ v.kind = "program"
    BY DEF FreshPcb
  <2> QED BY <2>1, <2>2
<1>4. Listed(Init0)
  BY <1>1 DEF Listed
<1>5. Guard(Init0)
  BY <1>1, <1>2, <1>3, <1>4 DEF Guard, Born
<1>6. Booting
  BY <1>1, <1>2, <1>3, Init0InProc DEF Booting, Born, Programs, Creating, Unlisted
<1>7. VideodWaits
  BY <1>1, Init0InProc DEF VideodWaits
<1> QED BY <1>1, <1>2, <1>5, <1>6, <1>7 DEF LockInv, KindsStay, Watched, NoLockup, Born

\* One more block is paused.
LEMMA KilledBlocks ==
  ASSUME NEW blocks \in [Proc -> Pcbs], NEW p \in Proc,
         pcb' = [blocks EXCEPT ![p].killed = TRUE]
  PROVE  \A q \in Proc : pcb'[q].mem = blocks[q].mem /\ pcb'[q].kind = blocks[q].kind
<1> DEFINE r == blocks[p]
<1>1. pcb' = [blocks EXCEPT ![p] = [r EXCEPT !.killed = TRUE]]
  BY Zenon
<1>2. r \in Pcbs
  OBVIOUS
<1> HIDE DEF r
<1>3. LET v == [r EXCEPT !.killed = TRUE] IN v.mem = r.mem /\ v.kind = r.kind
  BY <1>2, Zenon DEF Pcbs
<1>4. PICK v : v.mem = r.mem /\ v.kind = r.kind /\ pcb' = [blocks EXCEPT ![p] = v]
  BY <1>1, <1>3, Zenon
<1> QED BY <1>4 DEF r

LEMMA NextLock ==
  ASSUME IndInv, ActiveInv, LockInv, 19 \notin Signals,
         \E i \in DOMAIN BootScript : BootScript[i] = "videod", [Next]_vars
  PROVE  LockInv'
<1>1. CASE UNCHANGED vars
  BY <1>1 DEF vars, sched, LockInv, KindsStay, Watched, VideodFreed, Guard, Booting,
     VideodWaits, NoLockup, Born, Listed
<1>2. CASE Next
  <2>0. mode = "up" /\ KindsStay /\ Watched
    BY <1>2, NextSorted DEF LockInv
  <2>1. mode' = "up" => Lasting /\ KindsStay'
    <3>1. CASE Ordinary
      BY <2>0, <3>1, OrdinaryLasts, KindsStayNext
    <3>2. CASE Ending
      BY <2>0, <3>2, EndingLasts, KindsStayNext DEF Ending
    <3>3. CASE Refusing
      <4>1. IdentitiesStay /\ daemon' = daemon
        BY <3>3, PausesKeep DEF Refusing, IdentitiesStay
      <4>2. Lasting
        BY <4>1 DEF IdentitiesStay, Lasting, Born
      <4> QED BY <2>0, <4>1, <4>2, KindsStayNext
    <3>4. CASE mode' = "panic"
      BY <3>4
    <3> QED BY <1>2, <3>1, <3>2, <3>3, <3>4, NextSorted
  <2>2. CASE VideodFreed
    <3>1. \/ mode' = "panic"
          \/ VideodFreed'
      <4>1. Lasting => VideodFreed'
        BY <2>2 DEF VideodFreed, Lasting, Born
      <4>2. CASE Ordinary
        BY <4>1, <4>2, OrdinaryLasts
      <4>3. CASE Ending
        <5>1. PICK blocks \in [Proc -> Pcbs], i \in DOMAIN procs :
                /\ \A q \in Proc : blocks[q].mem = pcb[q].mem /\ blocks[q].kind = pcb[q].kind
                /\ KillNode(i, blocks)
          BY <4>3 DEF Ending
        <5>2. CASE mode' = "hung"
          <6>1. pcb' = [blocks EXCEPT ![procs[i]].killed = TRUE]
            BY <2>0, <5>1, <5>2, Zenon DEF KillNode
          <6>2. procs[i] \in Proc
            BY ListFacts DEF IndInv
          <6>3. \A q \in Proc : pcb'[q].mem = pcb[q].mem /\ pcb'[q].kind = pcb[q].kind
            BY <5>1, <6>1, <6>2, KilledBlocks
          <6> QED BY <2>2, <6>3 DEF VideodFreed
        <5>3. CASE mode' # "hung"
          BY <2>0, <4>1, <4>3, <5>3, EndingLasts
        <5> QED BY <5>2, <5>3
      <4>4. CASE Refusing
        BY <2>0, <2>1, <4>1, <4>4 DEF Refusing
      <4> QED BY <1>2, <4>2, <4>3, <4>4, NextSorted
    <3> QED BY <2>1, <3>1 DEF LockInv, Watched, NoLockup, VideodFreed
  <2>3. CASE Guard(Init0) /\ Booting /\ VideodWaits
    BY <1>2, <2>0, <2>1, <2>3, EarlyStep DEF LockInv, Watched, NoLockup
  <2>4. ASSUME NEW v \in Proc, pcb[v].kind = "videod", Guard(v)
        PROVE  LockInv'
    BY <1>2, <2>0, <2>1, <2>4, LateStep DEF LockInv, Watched, NoLockup
  <2> QED BY <2>0, <2>2, <2>3, <2>4 DEF Watched
<1> QED BY <1>1, <1>2

\* get_next_step, which spins with interrupts disabled when every process is paused,
\* finds one to run as long as no videod died: while main() boots main itself, from
\* then on videod, which is never paused and which nobody is taken for.  main() must
\* create a videod for it (gfx_late_init), and no program may call kill(pid, 19), which
\* pauses whom it likes: nothing in the kernel does.
THEOREM NoLockupUnlessVideodDies ==
  ASSUME \E i \in DOMAIN BootScript : BootScript[i] = "videod", 19 \notin Signals
  PROVE  Spec => []NoLockup
<1>1. Init => IndInv /\ ActiveInv /\ LockInv
  BY InitInd, InitActive, InitLock
<1>2. IndInv /\ ActiveInv /\ LockInv /\ [Next]_vars => (IndInv /\ ActiveInv /\ LockInv)'
  BY NextInd, NextActive, NextLock
<1>3. LockInv => NoLockup
  BY DEF LockInv
<1> QED BY <1>1, <1>2, <1>3, PTL DEF Spec

=============================================================================
