---------------------------- MODULE Input_proofs ----------------------------
(***************************************************************************)
(* Theorems about module Input, for every keyboard (Make, Break), every    *)
(* tick rate and every script of the user.                                 *)
(***************************************************************************)
EXTENDS Input, SequenceTheorems, TLAPS

-----------------------------------------------------------------------------
\* The sequences of frames of sleep_enter.

LEMMA FrontInSeq ==
  ASSUME NEW S, NEW s \in Seq(S), s # <<>>
  PROVE  Front(s) \in Seq(S)
  BY DEF Front

LEMMA ReplaceLast ==
  ASSUME NEW S, NEW s \in Seq(S), s # <<>>, NEW f \in S
  PROVE  Append(Front(s), f) \in Seq(S) /\ Append(Front(s), f) # <<>>
<1>1. Front(s) \in Seq(S)
  BY FrontInSeq
<1> QED
  BY <1>1

-----------------------------------------------------------------------------
\* While the timer is not periodic the request that stopped it still stands in the
\* past: no tick in the meantime counts, and none switches to another process.
SleepInv ==
  /\ cpu \in Processes
  /\ nap \in [Processes -> Seq(Frames)]
  /\ TimerStoppedOnlyAsleep
  /\ timer # "periodic" => schedule # NotScheduled /\ schedule < 0

LEMMA RousedFrames ==
  ASSUME SleepInv
  PROVE  /\ Roused \in [Processes -> Seq(Frames)]
         /\ nap[cpu] # <<>> => Roused[cpu] # <<>>
<1>1. CASE Halted
  <2>1. nap[cpu] # <<>> /\ nap[cpu] \in Seq(Frames) /\ "test" \in Frames
    BY <1>1 DEF Halted, SleepInv, Frames
  <2>2. Append(Front(nap[cpu]), "test") \in Seq(Frames)
        /\ Append(Front(nap[cpu]), "test") # <<>>
    BY <2>1, ReplaceLast
  <2>3. Roused = [nap EXCEPT ![cpu] = Append(Front(nap[cpu]), "test")]
    BY <1>1 DEF Roused
  <2> QED
    BY <2>2, <2>3 DEF SleepInv
<1>2. CASE ~Halted
  BY <1>2 DEF Roused, SleepInv
<1> QED
  BY <1>1, <1>2

LEMMA FrameReplaced ==
  ASSUME SleepInv, nap[cpu] # <<>>, NEW f \in Frames, SetFrame(f)
  PROVE  nap' \in [Processes -> Seq(Frames)] /\ nap'[cpu] # <<>>
<1>1. Append(Front(nap[cpu]), f) \in Seq(Frames) /\ Append(Front(nap[cpu]), f) # <<>>
  BY ReplaceLast DEF SleepInv
<1> QED
  BY <1>1 DEF SetFrame, SleepInv

\* Anything but the timer wakes a halted machine and leaves the sleep as it is, or
\* ends it by clearing in_sleep_mode.
LEMMA WokenKeepsSleepInv ==
  ASSUME SleepInv, nap' = Roused, asleep' \in {asleep, FALSE},
         UNCHANGED <<schedule, timer, cpu>>
  PROVE  SleepInv'
<1>1. /\ nap' \in [Processes -> Seq(Frames)]
      /\ nap[cpu] # <<>> => nap'[cpu'] # <<>>
  BY RousedFrames
<1>2. CASE asleep' = asleep
  BY <1>1, <1>2 DEF SleepInv, TimerStoppedOnlyAsleep
<1>3. CASE asleep' = FALSE
  BY <1>1, <1>3 DEF SleepInv, TimerStoppedOnlyAsleep
<1> QED
  BY <1>2, <1>3

LEMMA InitSleepInv == Init => SleepInv
<1> SUFFICES ASSUME Init PROVE SleepInv
  OBVIOUS
<1>1. nap \in [Processes -> Seq(Frames)]
  BY DEF Init
<1> QED
  BY <1>1 DEF Init, SleepInv, TimerStoppedOnlyAsleep

LEMMA SleepEnterKeepsSleepInv ==
  ASSUME SleepInv, SleepEnter, schedule # NotScheduled, schedule < 0
  PROVE  SleepInv'
<1>1. Roused \in [Processes -> Seq(Frames)] /\ cpu \in Processes /\ "gap" \in Frames
  BY RousedFrames DEF SleepInv, Frames
<1>2. Append(Roused[cpu], "gap") \in Seq(Frames) /\ Append(Roused[cpu], "gap") # <<>>
  BY <1>1
<1> QED
  BY <1>1, <1>2 DEF SleepEnter, SleepInv, TimerStoppedOnlyAsleep

LEMMA PitCallbackKeepsSleepInv ==
  ASSUME SleepInv, PitCallback
  PROVE  SleepInv'
<1>1. CASE asleep
  BY <1>1, RousedFrames DEF PitCallback, SleepInv, TimerStoppedOnlyAsleep
<1>2. CASE ~asleep /\ schedule # NotScheduled /\ schedule < 0
  BY <1>2, SleepEnterKeepsSleepInv DEF PitCallback
<1>3. CASE ~asleep /\ ~(schedule # NotScheduled /\ schedule < 0)
  <2>1. timer' = "periodic" /\ asleep' = FALSE /\ nap' = Roused /\ SwitchTask
    BY <1>3 DEF PitCallback, SleepInv, TimerStoppedOnlyAsleep
  <2>2. cpu' \in Processes
    BY <2>1 DEF SwitchTask, Processes
  <2> QED
    BY <2>1, <2>2, RousedFrames DEF SleepInv, TimerStoppedOnlyAsleep
<1> QED
  BY <1>1, <1>2, <1>3

LEMMA NextKeepsSleepInv == SleepInv /\ [Next]_vars => SleepInv'
<1> SUFFICES ASSUME SleepInv, [Next]_vars PROVE SleepInv'
  OBVIOUS
<1>1. CASE UNCHANGED sleep
  BY <1>1 DEF sleep, SleepInv, TimerStoppedOnlyAsleep
<1>2. ASSUME NEW k \in Keys, Press(k) \/ Lift(k) PROVE SleepInv'
  BY <1>1, <1>2 DEF Press, Lift
<1>3. CASE KeyboardInterrupt
  BY <1>3, WokenKeepsSleepInv DEF KeyboardInterrupt
<1>4. ASSUME NEW aux \in BOOLEAN, NEW sync \in BOOLEAN, MouseInterrupt(aux, sync)
      PROVE  SleepInv'
  BY <1>4, WokenKeepsSleepInv DEF MouseInterrupt
<1>5. CASE VmouseCallback
  BY <1>5, WokenKeepsSleepInv DEF VmouseCallback
<1>6. CASE Poll \/ HandleMoused \/ LinkMoused
  BY <1>1, <1>6 DEF Poll, HandleMoused, LinkMoused
<1>7. CASE HandleSysrq
  <2>1. nap[cpu] = <<>> /\ UNCHANGED <<asleep, timer, cpu, nap>>
    BY <1>7 DEF HandleSysrq, Runs
  <2> QED
    BY <2>1 DEF SleepInv, TimerStoppedOnlyAsleep
<1>8. CASE TimerInterrupt
  BY <1>8, PitCallbackKeepsSleepInv DEF TimerInterrupt
<1>9. CASE Halt
  <2>1. nap' \in [Processes -> Seq(Frames)] /\ nap'[cpu] # <<>>
    BY <1>9, FrameReplaced DEF Halt, Frames
  <2> QED
    BY <1>9, <2>1 DEF Halt, SleepInv, TimerStoppedOnlyAsleep
<1>10. CASE TestSleep
  <2>1. CASE asleep
    <3>1. nap' \in [Processes -> Seq(Frames)] /\ nap'[cpu] # <<>>
      BY <1>10, <2>1, FrameReplaced DEF TestSleep, Frames
    <3> QED
      BY <1>10, <2>1, <3>1 DEF TestSleep, SleepInv, TimerStoppedOnlyAsleep
  <2>2. CASE ~asleep
    <3>1. nap[cpu] # <<>> /\ Awaken /\ UNCHANGED <<asleep, cpu>>
      BY <1>10, <2>2 DEF TestSleep
    <3>2. Front(nap[cpu]) \in Seq(Frames)
      BY <3>1, FrontInSeq DEF SleepInv
    <3> QED
      BY <2>2, <3>1, <3>2 DEF Awaken, SleepInv, TimerStoppedOnlyAsleep
  <2> QED
    BY <2>1, <2>2
<1>11. CASE UNCHANGED vars
  BY <1>1, <1>11 DEF vars
<1> QED
  BY <1>2, <1>3, <1>4, <1>5, <1>6, <1>7, <1>8, <1>9, <1>10, <1>11 DEF Next

\* pit_disable and pit_init pair up, however sleeps nest and whenever keys fall: a
\* timer that does not run periodically, or in_sleep_mode, means that the process
\* that has the CPU is inside a sleep_enter (power/sleep.c).
THEOREM SleepPairsUp == Spec => []TimerStoppedOnlyAsleep
<1>1. Init => SleepInv
  BY InitSleepInv
<1>2. SleepInv /\ [Next]_vars => SleepInv'
  BY NextKeepsSleepInv
<1>3. SleepInv => TimerStoppedOnlyAsleep
  BY DEF SleepInv
<1> QED
  BY <1>1, <1>2, <1>3, PTL DEF Spec

-----------------------------------------------------------------------------
\* The order of the events, stated of the three places where one may be: with what
\* dispatchd is done with, in its hands, and in the list.
Places ==
  /\ made \in Nat
  /\ done \in Seq(1..made)
  /\ \E S : events \in Seq(S)
  /\ \A i \in 1..Len(events) : events[i].n \in 1..made
  /\ at.pc = "poll" => at = Idle
  /\ at.pc # "poll" =>
       /\ at = [pc |-> at.pc, node |-> at.node, read |-> at.read]
       /\ at.node.n \in 1..made

\* What moused read of the list is still its beginning: interrupts add at the end.
ReadIsPrefix ==
  at.pc = "link" =>
    /\ \E S : at.read \in Seq(S)
    /\ Len(at.read) <= Len(events)
    /\ \A i \in 1..Len(at.read) : at.read[i] = events[i]

Ordered ==
  /\ \A i, j \in 1..Len(done) : i < j => done[i] < done[j]
  /\ \A i, j \in 1..Len(events) : i < j => events[i].n < events[j].n
  /\ \A i \in 1..Len(done), j \in 1..Len(events) : done[i] < events[j].n
  /\ at.pc # "poll" =>
       /\ \A i \in 1..Len(done) : done[i] < at.node.n
       /\ \A j \in 1..Len(events) : at.node.n < events[j].n

AllThere == raced \/ Len(done) + (IF at.pc = "poll" THEN 0 ELSE 1) + Len(events) = made

OrderInv == Places /\ ReadIsPrefix /\ Ordered /\ AllThere

\* What Append returns, whatever the set of the elements.
LEMMA Appended ==
  ASSUME NEW S, NEW s \in Seq(S), NEW e
  PROVE  /\ Append(s, e) \in Seq(S \union {e})
         /\ Len(s) \in Nat /\ Len(Append(s, e)) = Len(s) + 1
         /\ \A i \in 1..Len(s) : Append(s, e)[i] = s[i]
         /\ Append(s, e)[Len(s) + 1] = e
<1>1. s \in Seq(S \union {e}) /\ e \in S \union {e}
  BY SeqMonotonic
<1> QED
  BY <1>1, AppendProperties

\* A node with a new number at the end of the list.
LEMMA AppendKeepsOrder ==
  ASSUME OrderInv, NEW event, made' = made + 1,
         events' = Append(events, Node(event, made')), UNCHANGED <<at, done, raced>>
  PROVE  OrderInv'
<1> DEFINE node == Node(event, made')
<1>0. node.n = made + 1
  BY DEF Node
<1>1. PICK S : events \in Seq(S)
  BY DEF OrderInv, Places
<1>2. /\ events' \in Seq(S \union {node})
      /\ Len(events) \in Nat /\ Len(events') = Len(events) + 1
      /\ \A i \in 1..Len(events) : events'[i] = events[i]
      /\ events'[Len(events) + 1] = node
  BY <1>1, Appended
<1> HIDE DEF node
<1>3. /\ made \in Nat /\ done \in Seq(1..made) /\ Len(done) \in Nat
      /\ \A i \in 1..Len(done) : done[i] \in 1..made
      /\ \A i \in 1..Len(events) : events[i].n \in 1..made
  BY DEF OrderInv, Places
<1>4. Places'
  <2>1. done \in Seq(1..made')
    BY <1>3, SeqMonotonic
  <2> QED
    BY <1>0, <1>2, <1>3, <2>1 DEF OrderInv, Places, Idle
<1>5. ReadIsPrefix'
  BY <1>2 DEF OrderInv, ReadIsPrefix
<1>6. Ordered'
  <2>1. \A i \in 1..Len(events) : events'[i].n = events[i].n /\ events[i].n < made + 1
    BY <1>2, <1>3
  <2>2. \A i \in 1..Len(events') : i = Len(events) + 1 \/ i \in 1..Len(events)
    BY <1>2
  <2>3. events'[Len(events) + 1].n = made + 1
    BY <1>0, <1>2
  <2>4. at.pc # "poll" => at.node.n \in 1..made
    BY DEF OrderInv, Places
  <2> QED
    BY <1>3, <2>1, <2>2, <2>3, <2>4 DEF OrderInv, Ordered
<1>7. AllThere'
  <2>1. CASE raced
    BY <2>1 DEF AllThere
  <2>2. CASE ~raced
    <3> DEFINE hands == IF at.pc = "poll" THEN 0 ELSE 1
    <3>1. hands \in Nat /\ Len(done) + hands + Len(events) = made
      BY <2>2 DEF OrderInv, AllThere
    <3> HIDE DEF hands
    <3>2. Len(done) + hands + Len(events') = made'
      BY <1>2, <1>3, <3>1
    <3> QED
      BY <3>2 DEF AllThere, hands
  <2> QED
    BY <2>1, <2>2
<1> QED
  BY <1>4, <1>5, <1>6, <1>7 DEF OrderInv

LEMMA InitOrder == Init => OrderInv
<1> SUFFICES ASSUME Init PROVE OrderInv
  OBVIOUS
<1>1. /\ made = 0 /\ raced = FALSE /\ at = Idle
      /\ done = <<>> /\ events = <<>>
  BY DEF Init
<1>2. at.pc = "poll"
  BY <1>1 DEF Idle
<1>3. <<>> \in Seq(1..made) /\ Len(<<>>) = 0
  OBVIOUS
<1>4. Places
  BY <1>1, <1>2, <1>3 DEF Places
<1> QED
  BY <1>1, <1>2, <1>3, <1>4 DEF OrderInv, ReadIsPrefix, Ordered, AllThere

LEMMA BroadcastKeepsOrder ==
  ASSUME OrderInv, NEW event, BroadcastEvent(event), UNCHANGED <<at, done, raced>>
  PROVE  OrderInv'
BY AppendKeepsOrder DEF BroadcastEvent

\* eventd_dispatch: the first of the list, before all that stays in it.
LEMMA PollKeepsOrder ==
  ASSUME OrderInv, Poll
  PROVE  OrderInv'
<1>1. PICK S : events \in Seq(S)
  BY DEF OrderInv, Places
<1>2. at.pc = "poll" /\ at = Idle /\ UNCHANGED <<made, done, raced>>
  BY DEF Poll, OrderInv, Places
<1>3. CASE UNCHANGED <<events, at>>
  BY <1>2, <1>3 DEF OrderInv, Places, ReadIsPrefix, Ordered, AllThere
<1>4. CASE /\ events # <<>> /\ events' = Tail(events)
           /\ at' = [pc |-> "moused", node |-> Head(events), read |-> <<>>]
  <2>1. /\ events' \in Seq(S) /\ Len(events) \in Nat \ {0} /\ Len(events') = Len(events) - 1
        /\ \A i \in 1..Len(events') : events'[i] = events[i + 1]
        /\ at'.pc = "moused" /\ at'.node = events[1]
    BY <1>1, <1>4, HeadTailProperties, EmptySeq
  <2>2. /\ made \in Nat /\ done \in Seq(1..made) /\ Len(done) \in Nat
        /\ \A i \in 1..Len(done) : done[i] \in 1..made
        /\ \A i \in 1..Len(events) : events[i].n \in 1..made
    BY DEF OrderInv, Places
  <2>3. Places'
    BY <1>2, <1>4, <2>1, <2>2 DEF Places
  <2>4. ReadIsPrefix'
    BY <2>1 DEF ReadIsPrefix
  <2>5. \A i \in 1..Len(events') : i + 1 \in 1..Len(events) /\ events'[i].n = events[i + 1].n
    BY <2>1
  <2>6. Ordered'
    <3>1. \A i, j \in 1..Len(events') : i < j => events'[i].n < events'[j].n
      <4> SUFFICES ASSUME NEW i \in 1..Len(events'), NEW j \in 1..Len(events'), i < j
                   PROVE  events'[i].n < events'[j].n
        OBVIOUS
      <4>1. i + 1 \in 1..Len(events) /\ j + 1 \in 1..Len(events) /\ i + 1 < j + 1
        BY <2>5
      <4>2. events[i + 1].n < events[j + 1].n
        BY <4>1 DEF OrderInv, Ordered
      <4> QED
        BY <2>5, <4>2
    <3>2. \A i \in 1..Len(done), j \in 1..Len(events') : done[i] < events'[j].n
      BY <2>5 DEF OrderInv, Ordered
    <3>3. 1 \in 1..Len(events) /\ \A i \in 1..Len(done) : done[i] < at'.node.n
      BY <2>1 DEF OrderInv, Ordered
    <3>4. \A j \in 1..Len(events') : at'.node.n < events'[j].n
      <4> SUFFICES ASSUME NEW j \in 1..Len(events') PROVE at'.node.n < events'[j].n
        OBVIOUS
      <4>1. 1 \in 1..Len(events) /\ j + 1 \in 1..Len(events) /\ 1 < j + 1
        BY <2>1, <2>5
      <4>2. events[1].n < events[j + 1].n
        BY <4>1 DEF OrderInv, Ordered
      <4> QED
        BY <2>1, <2>5, <4>2
    <3> QED
      BY <1>2, <3>1, <3>2, <3>3, <3>4 DEF OrderInv, Ordered
  <2>7. AllThere'
    <3>1. CASE raced
      BY <1>2, <3>1 DEF AllThere
    <3>2. CASE ~raced
      <4>1. Len(done) + Len(events) = made
        BY <1>2, <2>1, <2>2, <3>2 DEF OrderInv, AllThere
      <4>2. Len(done') + 1 + Len(events') = made'
        BY <1>2, <2>1, <2>2, <4>1
      <4> QED
        BY <2>1, <4>2 DEF AllThere
    <3> QED
      BY <3>1, <3>2
  <2> QED
    BY <2>3, <2>4, <2>6, <2>7 DEF OrderInv
<1> QED
  BY <1>3, <1>4 DEF Poll

\* moused's turn: what it reads is the list, to its end.
LEMMA HandleMousedKeepsOrder ==
  ASSUME OrderInv, HandleMoused
  PROVE  OrderInv'
<1>1. /\ at.pc = "moused" /\ UNCHANGED <<made, events, done, raced>>
      /\ at = [pc |-> at.pc, node |-> at.node, read |-> at.read]
      /\ \/ at' = [at EXCEPT !.pc = "link", !.read = events]
         \/ at' = [at EXCEPT !.pc = "sysrqd"]
  BY DEF HandleMoused, queue, OrderInv, Places
<1>2. /\ at'.pc \in {"link", "sysrqd"} /\ at'.node = at.node
      /\ at' = [pc |-> at'.pc, node |-> at'.node, read |-> at'.read]
      /\ at'.pc = "link" => at'.read = events
  BY <1>1
<1>3. Len(events) \in Nat /\ \E S : events \in Seq(S)
  BY DEF OrderInv, Places
<1>4. Places'
  BY <1>1, <1>2 DEF OrderInv, Places
<1>5. ReadIsPrefix'
  BY <1>1, <1>2, <1>3 DEF ReadIsPrefix
<1>6. Ordered' /\ AllThere'
  BY <1>1, <1>2 DEF OrderInv, Ordered, AllThere
<1> QED
  BY <1>4, <1>5, <1>6 DEF OrderInv

\* sysrqd's turn is the end of the broadcast: the event is done.
LEMMA HandleSysrqKeepsOrder ==
  ASSUME OrderInv, HandleSysrq
  PROVE  OrderInv'
<1> DEFINE n == at.node.n
<1>1. /\ at.pc = "sysrqd" /\ at' = Idle /\ done' = Append(done, n)
      /\ UNCHANGED <<made, events, raced>>
  BY DEF HandleSysrq, queue
<1>2. /\ made \in Nat /\ done \in Seq(1..made) /\ n \in 1..made
      /\ \A i \in 1..Len(events) : events[i].n \in 1..made
      /\ Len(events) \in Nat
  BY <1>1 DEF OrderInv, Places
<1>3. /\ done' \in Seq(1..made) /\ Len(done) \in Nat /\ Len(done') = Len(done) + 1
      /\ \A i \in 1..Len(done) : done'[i] = done[i] /\ done[i] \in 1..made
      /\ done'[Len(done) + 1] = n
  BY <1>1, <1>2, AppendProperties
<1>4. at'.pc = "poll"
  BY <1>1 DEF Idle
<1>5. /\ \A i \in 1..Len(done) : done[i] < n
      /\ \A j \in 1..Len(events) : n < events[j].n
  BY <1>1 DEF OrderInv, Ordered
<1> HIDE DEF n
<1>6. Places'
  BY <1>1, <1>2, <1>3, <1>4 DEF OrderInv, Places
<1>7. ReadIsPrefix'
  BY <1>4 DEF ReadIsPrefix
<1>8. Ordered'
  <2>1. \A i \in 1..Len(done') : i = Len(done) + 1 \/ i \in 1..Len(done)
    BY <1>3
  <2> QED
    BY <1>1, <1>2, <1>3, <1>4, <1>5, <2>1 DEF OrderInv, Ordered
<1>9. AllThere'
  <2>1. CASE raced
    BY <1>1, <2>1 DEF AllThere
  <2>2. CASE ~raced
    <3>1. Len(done) + 1 + Len(events) = made
      BY <1>1, <2>2 DEF OrderInv, AllThere
    <3>2. Len(done') + 0 + Len(events') = made'
      BY <1>1, <1>2, <1>3, <3>1
    <3> QED
      BY <1>4, <3>2 DEF AllThere
  <2> QED
    BY <2>1, <2>2
<1> QED
  BY <1>6, <1>7, <1>8, <1>9 DEF OrderInv

\* moused adds an event itself.  If interrupts added some since it looked, the node
\* may go behind what it saw, and they are gone: the collision.
LEMMA LinkMousedKeepsOrder ==
  ASSUME OrderInv, LinkMoused
  PROVE  OrderInv'
<1> DEFINE node == Node(MouseEvent, made + 1)
<1>0. node.n = made + 1
  BY DEF Node
<1>1. /\ at.pc = "link" /\ made' = made + 1 /\ UNCHANGED done
      /\ events' \in Linked(at.read, node)
      /\ raced' = (raced \/ events' # Append(events, node))
      /\ at' = [at EXCEPT !.pc = "sysrqd", !.read = <<>>]
  BY DEF LinkMoused
<1>2. /\ made \in Nat /\ done \in Seq(1..made) /\ Len(done) \in Nat
      /\ \A i \in 1..Len(done) : done[i] \in 1..made
      /\ at = [pc |-> at.pc, node |-> at.node, read |-> at.read]
      /\ at.node.n \in 1..made
  BY <1>1 DEF OrderInv, Places
<1>3. /\ at'.pc = "sysrqd" /\ at'.node = at.node
      /\ at' = [pc |-> at'.pc, node |-> at'.node, read |-> at'.read]
  BY <1>1, <1>2
\* Either way the node goes behind a beginning of the list.
<1>4. \E list : /\ events' = Append(list, node)
                /\ list = events \/ raced'
                /\ \E S : list \in Seq(S)
                /\ Len(list) <= Len(events)
                /\ \A i \in 1..Len(list) : list[i] = events[i]
  <2>1. PICK S : events \in Seq(S)
    BY DEF OrderInv, Places
  <2>2. CASE events' = Append(events, node)
    BY <2>1, <2>2
  <2>3. CASE events' # Append(events, node)
    <3>1. events' = Append(at.read, node) /\ raced'
      BY <1>1, <2>3 DEF Linked
    <3> QED
      BY <1>1, <3>1 DEF OrderInv, ReadIsPrefix
  <2> QED
    BY <2>2, <2>3
<1>5. PICK list : /\ events' = Append(list, node)
                  /\ list = events \/ raced'
                  /\ \E S : list \in Seq(S)
                  /\ Len(list) <= Len(events)
                  /\ \A i \in 1..Len(list) : list[i] = events[i]
  BY <1>4
<1>6. PICK S : list \in Seq(S)
  BY <1>5
<1> HIDE DEF node
<1>7. /\ events' \in Seq(S \union {node})
      /\ Len(list) \in Nat /\ Len(events') = Len(list) + 1
      /\ \A i \in 1..Len(list) : events'[i] = events[i]
      /\ events'[Len(list) + 1] = node
  BY <1>5, <1>6, Appended
<1>8. Len(events) \in Nat /\ \A i \in 1..Len(events) : events[i].n \in 1..made
  BY DEF OrderInv, Places
<1>9. \A i \in 1..Len(list) : i \in 1..Len(events) /\ events'[i].n = events[i].n
                              /\ events'[i].n \in 1..made
  BY <1>5, <1>7, <1>8
<1>10. /\ events'[Len(list) + 1].n = made + 1
       /\ \A i \in 1..Len(events') : i = Len(list) + 1 \/ i \in 1..Len(list)
  BY <1>0, <1>7
<1>11. Places'
  <2>1. done \in Seq(1..made')
    BY <1>1, <1>2, SeqMonotonic
  <2>2. \A i \in 1..Len(events') : events'[i].n \in 1..made'
    <3> SUFFICES ASSUME NEW i \in 1..Len(events') PROVE events'[i].n \in 1..made'
      OBVIOUS
    <3>1. CASE i \in 1..Len(list)
      <4>1. events'[i].n \in 1..made
        BY <1>9, <3>1
      <4> QED
        BY <1>1, <1>2, <4>1
    <3>2. CASE i = Len(list) + 1
      BY <1>1, <1>2, <1>10, <3>2
    <3> QED
      BY <1>10, <3>1, <3>2
  <2>3. at'.node.n \in 1..made' /\ made' \in Nat
    BY <1>1, <1>2, <1>3
  <2> QED
    BY <1>1, <1>3, <1>7, <2>1, <2>2, <2>3 DEF Places
<1>12. ReadIsPrefix'
  BY <1>3 DEF ReadIsPrefix
<1>13. Ordered'
  <2>1. \A i, j \in 1..Len(events') : i < j => events'[i].n < events'[j].n
    <3> SUFFICES ASSUME NEW i \in 1..Len(events'), NEW j \in 1..Len(events'), i < j
                 PROVE  events'[i].n < events'[j].n
      OBVIOUS
    <3>1. i \in 1..Len(list)
      BY <1>7, <1>10
    <3>2. CASE j \in 1..Len(list)
      BY <1>9, <3>1, <3>2 DEF OrderInv, Ordered
    <3>3. CASE j = Len(list) + 1
      BY <1>2, <1>9, <1>10, <3>1, <3>3
    <3> QED
      BY <1>10, <3>2, <3>3
  <2>2. \A i \in 1..Len(done), j \in 1..Len(events') : done[i] < events'[j].n
    <3> SUFFICES ASSUME NEW i \in 1..Len(done), NEW j \in 1..Len(events')
                 PROVE  done[i] < events'[j].n
      OBVIOUS
    <3>1. CASE j \in 1..Len(list)
      BY <1>9, <3>1 DEF OrderInv, Ordered
    <3>2. CASE j = Len(list) + 1
      BY <1>2, <1>10, <3>2
    <3> QED
      BY <1>10, <3>1, <3>2
  <2>3. \A i \in 1..Len(done) : done[i] < at'.node.n
    BY <1>1, <1>3 DEF OrderInv, Ordered
  <2>4. \A j \in 1..Len(events') : at'.node.n < events'[j].n
    BY <1>1, <1>2, <1>3, <1>9, <1>10 DEF OrderInv, Ordered
  <2>5. \A i, j \in 1..Len(done) : i < j => done[i] < done[j]
    BY DEF OrderInv, Ordered
  <2> QED
    BY <1>1, <2>1, <2>2, <2>3, <2>4, <2>5 DEF Ordered
<1>14. AllThere'
  <2>1. CASE raced'
    BY <2>1 DEF AllThere
  <2>2. CASE ~raced'
    <3>1. ~raced /\ list = events
      BY <1>1, <1>5, <2>2
    <3>2. Len(done) + 1 + Len(events) = made
      BY <1>1, <3>1 DEF OrderInv, AllThere
    <3>3. Len(done') + 1 + Len(events') = made'
      BY <1>1, <1>2, <1>7, <3>1, <3>2
    <3> QED
      BY <1>3, <3>3 DEF AllThere
  <2> QED
    BY <2>1, <2>2
<1> QED
  BY <1>11, <1>12, <1>13, <1>14 DEF OrderInv

LEMMA NextKeepsOrder == OrderInv /\ [Next]_vars => OrderInv'
<1> SUFFICES ASSUME OrderInv, [Next]_vars PROVE OrderInv'
  OBVIOUS
<1>1. CASE UNCHANGED <<made, events, at, done, raced>>
  BY <1>1 DEF OrderInv, Places, ReadIsPrefix, Ordered, AllThere
<1>2. ASSUME NEW k \in Keys, Press(k) \/ Lift(k) PROVE OrderInv'
  BY <1>1, <1>2 DEF Press, Lift, queue, daemon
<1>3. CASE KeyboardInterrupt
  <2>1. KeyboardCallback(Head(wire)) /\ UNCHANGED <<at, done, raced>>
    BY <1>3 DEF KeyboardInterrupt, daemon
  <2>2. UNCHANGED queue \/ \E event : BroadcastEvent(event)
    BY <2>1 DEF KeyboardCallback
  <2> QED
    BY <1>1, <2>1, <2>2, BroadcastKeepsOrder DEF queue
<1>4. ASSUME NEW aux \in BOOLEAN, NEW sync \in BOOLEAN, MouseInterrupt(aux, sync)
      PROVE  OrderInv'
  <2>1. MouseHandler(aux, sync) /\ UNCHANGED <<at, done, raced>>
    BY <1>4 DEF MouseInterrupt, daemon
  <2>2. UNCHANGED queue \/ BroadcastEvent(MouseEvent)
    BY <2>1 DEF MouseHandler
  <2> QED
    BY <1>1, <2>1, <2>2, BroadcastKeepsOrder DEF queue
<1>5. CASE VmouseCallback
  BY <1>5, BroadcastKeepsOrder DEF VmouseCallback, daemon
<1>6. CASE Poll \/ HandleMoused \/ LinkMoused \/ HandleSysrq
  BY <1>6, PollKeepsOrder, HandleMousedKeepsOrder, LinkMousedKeepsOrder, HandleSysrqKeepsOrder
<1>7. CASE TimerInterrupt \/ Halt \/ TestSleep
  BY <1>1, <1>7 DEF TimerInterrupt, Halt, TestSleep, queue, daemon
<1>8. CASE UNCHANGED vars
  BY <1>1, <1>8 DEF vars, queue, daemon
<1> QED
  BY <1>2, <1>3, <1>4, <1>5, <1>6, <1>7, <1>8 DEF Next

\* The three places one after the other are Numbers.
LEMMA OrderInvOrders == OrderInv => EventsInOrder
<1> SUFFICES ASSUME OrderInv PROVE EventsInOrder
  OBVIOUS
<1> DEFINE hand == IF at.pc = "poll" THEN <<>> ELSE <<at.node.n>>
           listed == [i \in DOMAIN events |-> events[i].n]
           d == Len(done)
           h == Len(hand)
           e == Len(events)
<1>1. /\ made \in Nat /\ done \in Seq(1..made) /\ d \in Nat /\ e \in Nat
      /\ DOMAIN events = 1..e
      /\ \A i \in 1..e : events[i].n \in 1..made
  BY DEF OrderInv, Places
<1>2. /\ listed \in Seq(1..made) /\ Len(listed) = e
      /\ \A i \in 1..e : listed[i] = events[i].n
  BY <1>1
<1>3. /\ hand \in Seq(1..made) /\ h \in {0, 1}
      /\ h = (IF at.pc = "poll" THEN 0 ELSE 1)
      /\ h = 1 => at.pc # "poll" /\ hand[1] = at.node.n
  <2>1. CASE at.pc = "poll"
    BY <2>1
  <2>2. CASE at.pc # "poll"
    <3>1. at.node.n \in 1..made
      BY <2>2 DEF OrderInv, Places
    <3> QED
      BY <2>2, <3>1
  <2> QED
    BY <2>1, <2>2
<1>4. Numbers = (done \o hand) \o listed
  BY DEF Numbers
<1> HIDE DEF hand, listed
<1>5. /\ done \o hand \in Seq(1..made) /\ Len(done \o hand) = d + h
      /\ \A i \in 1..(d + h) : (done \o hand)[i] = IF i <= d THEN done[i] ELSE hand[i - d]
  BY <1>1, <1>3, ConcatProperties
<1> DEFINE front == done \o hand
<1>6. /\ front \o listed \in Seq(1..made) /\ Len(front \o listed) = Len(front) + e
      /\ \A i \in 1..(Len(front) + e) :
            (front \o listed)[i] = IF i <= Len(front) THEN front[i] ELSE listed[i - Len(front)]
  <2> HIDE DEF front, e
  <2>1. front \in Seq(1..made) /\ Len(listed) = e
    BY <1>2, <1>5 DEF front
  <2>2. listed \in Seq(1..made)
    BY <1>2
  <2>3. /\ front \o listed \in Seq(1..made)
        /\ Len(front \o listed) = Len(front) + Len(listed)
        /\ \A i \in 1..(Len(front) + Len(listed)) :
              (front \o listed)[i] = IF i <= Len(front) THEN front[i] ELSE listed[i - Len(front)]
    BY <2>1, <2>2, ConcatProperties
  <2> QED
    BY <2>1, <2>3
<1>7. /\ Numbers \in Seq(1..made) /\ Len(Numbers) = d + h + e
      /\ \A i \in 1..(d + h + e) : Numbers[i] = IF i <= d + h THEN front[i]
                                                ELSE listed[i - (d + h)]
  <2>1. Len(front) = d + h
    BY <1>5
  <2> HIDE DEF front, d, h, e
  <2> QED
    BY <1>4, <1>6, <2>1 DEF front
<1>8. /\ \A i \in 1..d : done[i] \in Int
      /\ \A i \in 1..d, j \in 1..d : i < j => done[i] < done[j]
      /\ \A i \in 1..e, j \in 1..e : i < j => events[i].n < events[j].n
      /\ \A i \in 1..d, j \in 1..e : done[i] < events[j].n
      /\ h = 1 => /\ \A i \in 1..d : done[i] < at.node.n
                  /\ \A j \in 1..e : at.node.n < events[j].n
  BY <1>1, <1>3 DEF OrderInv, Ordered
<1>9. raced \/ d + h + e = made
  BY <1>3 DEF OrderInv, AllThere
<1> HIDE DEF front, d, h, e
<1>10. ASSUME NEW i \in 1..(d + h + e)
       PROVE  \/ i \in 1..d /\ Numbers[i] = done[i]
              \/ h = 1 /\ i = d + 1 /\ Numbers[i] = at.node.n
              \/ i - (d + h) \in 1..e /\ Numbers[i] = events[i - (d + h)].n
  <2>1. CASE i <= d
    <3>1. i \in 1..d /\ i \in 1..(d + h) /\ i <= d + h
      BY <1>1, <1>3, <1>10, <2>1
    <3> QED
      BY <1>5, <1>7, <1>10, <2>1, <3>1 DEF front
  <2>2. CASE d < i /\ i <= d + h
    <3>1. h = 1 /\ i = d + 1 /\ i - d = 1 /\ i \in 1..(d + h) /\ ~(i <= d)
      BY <1>1, <1>3, <1>10, <2>2
    <3>2. Numbers[i] = hand[1]
      BY <1>5, <1>7, <1>10, <2>2, <3>1 DEF front
    <3> QED
      BY <1>3, <3>1, <3>2
  <2>3. CASE d + h < i
    <3>1. i - (d + h) \in 1..e /\ ~(i <= d + h)
      BY <1>1, <1>3, <1>10, <2>3
    <3> QED
      BY <1>2, <1>7, <1>10, <3>1
  <2> QED
    BY <1>1, <1>3, <1>10, <2>1, <2>2, <2>3
<1>11. ASSUME NEW i \in 1..(d + h + e), NEW j \in 1..(d + h + e), i < j
       PROVE  Numbers[i] < Numbers[j]
  <2>1. CASE j \in 1..d /\ Numbers[j] = done[j]
    <3>1. i \in 1..d /\ Numbers[i] = done[i]
      BY <1>1, <1>3, <1>10, <1>11, <2>1
    <3> QED
      BY <1>8, <1>11, <2>1, <3>1
  <2>2. CASE h = 1 /\ j = d + 1 /\ Numbers[j] = at.node.n
    <3>1. i \in 1..d /\ Numbers[i] = done[i]
      BY <1>1, <1>3, <1>10, <1>11, <2>2
    <3> QED
      BY <1>8, <2>2, <3>1
  <2>3. CASE j - (d + h) \in 1..e /\ Numbers[j] = events[j - (d + h)].n
    <3>1. CASE i \in 1..d /\ Numbers[i] = done[i]
      BY <1>8, <2>3, <3>1
    <3>2. CASE h = 1 /\ i = d + 1 /\ Numbers[i] = at.node.n
      BY <1>8, <2>3, <3>2
    <3>3. CASE i - (d + h) \in 1..e /\ Numbers[i] = events[i - (d + h)].n
      <4>1. i - (d + h) < j - (d + h)
        BY <1>1, <1>3, <1>11
      <4> QED
        BY <1>8, <2>3, <3>3, <4>1
    <3> QED
      BY <1>10, <3>1, <3>2, <3>3
  <2> QED
    BY <1>10, <2>1, <2>2, <2>3
<1>12. DOMAIN Numbers = 1..(d + h + e)
  BY <1>7
<1> QED
  BY <1>7, <1>9, <1>11, <1>12 DEF EventsInOrder

\* dispatchd broadcasts the events in the order in which they were made, each once,
\* whatever interrupts fall between its steps; an event can only be lost when
\* broadcast_event, called by moused, collides with an interrupt's (input/input.c).
THEOREM EventsAreOrdered == Spec => []EventsInOrder
<1>1. Init => OrderInv
  BY InitOrder
<1>2. OrderInv /\ [Next]_vars => OrderInv'
  BY NextKeepsOrder
<1>3. OrderInv => EventsInOrder
  BY OrderInvOrders
<1> QED
  BY <1>1, <1>2, <1>3, PTL DEF Spec

-----------------------------------------------------------------------------
\* Types: what SleepInv and Places leave open.
Flat ==
  /\ down \subseteq Keys /\ next \in BOOLEAN
  /\ phase \in 0..2 /\ cycle \in 0..2 /\ vmouse \in BOOLEAN
  /\ killed \in BOOLEAN /\ armed \in BOOLEAN /\ kmouse \in BOOLEAN
  /\ at.pc \in {"poll", "moused", "link", "sysrqd"}
  /\ schedule \in {NotScheduled} \union -1..PitFreq
  /\ asleep \in BOOLEAN /\ timer \in {"periodic", "once", "stopped"}

TypeInv == SleepInv /\ OrderInv /\ Flat

LEMMA InitFlat == Init => Flat
<1> SUFFICES ASSUME Init PROVE Flat
  OBVIOUS
<1>1. vmouse \in BOOLEAN /\ phase \in 0..2
  BY DEF Init, Contains
<1>2. /\ down = {} /\ next = FALSE /\ cycle = 0 /\ killed = FALSE
      /\ armed = FALSE /\ kmouse = FALSE /\ asleep = FALSE
      /\ schedule = NotScheduled /\ timer = "periodic" /\ at.pc = "poll"
  BY DEF Init, Idle
<1>3. cycle \in 0..2 /\ schedule \in {NotScheduled} \union -1..PitFreq
  BY <1>2
<1>4. /\ next \in BOOLEAN /\ killed \in BOOLEAN /\ armed \in BOOLEAN
      /\ kmouse \in BOOLEAN /\ asleep \in BOOLEAN /\ down \subseteq Keys
  BY <1>2
<1> QED
  BY <1>1, <1>2, <1>3, <1>4 DEF Flat

LEMMA NextKeepsFlat == TypeInv /\ [Next]_vars => Flat'
<1> SUFFICES ASSUME TypeInv, [Next]_vars PROVE Flat'
  OBVIOUS
<1> USE DEF Flat
<1>0. Flat
  BY DEF TypeInv
<1>1. ASSUME NEW event, BroadcastEvent(event) PROVE killed' \in BOOLEAN
  BY <1>1 DEF BroadcastEvent
<1>2. ASSUME NEW k \in Keys, Press(k) \/ Lift(k) PROVE Flat'
  <2>1. down' \subseteq Keys
    BY <1>0, <1>2 DEF Press, Lift
  <2> QED
    BY <1>0, <1>2, <2>1 DEF Press, Lift, pointer, queue, daemon, sleep
<1>3. CASE KeyboardInterrupt
  <2>1. KeyboardCallback(Head(wire)) /\ asleep' = FALSE
        /\ UNCHANGED <<down, pointer, daemon, schedule, timer>>
    BY <1>3 DEF KeyboardInterrupt
  <2>2. next' \in BOOLEAN /\ killed' \in BOOLEAN
    BY <1>0, <1>1, <2>1 DEF KeyboardCallback, queue
  <2> QED
    BY <1>0, <2>1, <2>2 DEF pointer, daemon
<1>4. ASSUME NEW aux \in BOOLEAN, NEW sync \in BOOLEAN, MouseInterrupt(aux, sync)
      PROVE  Flat'
  <2>1. MouseHandler(aux, sync) /\ asleep' = FALSE
        /\ UNCHANGED <<keyboard, vmouse, daemon, schedule, timer>>
        /\ phase' = IF aux THEN (phase + 1) % 3 ELSE phase
    BY <1>4 DEF MouseInterrupt
  <2>2. phase' \in 0..2
    BY <1>0, <2>1
  <2>3. cycle' \in 0..2
    BY <1>0, <2>1 DEF MouseHandler
  <2>4. killed' \in BOOLEAN
    BY <1>0, <1>1, <2>1 DEF MouseHandler, queue
  <2> QED
    BY <1>0, <2>1, <2>2, <2>3, <2>4 DEF keyboard, daemon
<1>5. CASE VmouseCallback
  BY <1>0, <1>1, <1>5 DEF VmouseCallback, keyboard, pointer, daemon
<1>6. CASE Poll
  <2>1. killed' \in BOOLEAN
    BY <1>0, <1>6 DEF Poll
  <2>2. at'.pc \in {"poll", "moused"}
    BY <1>6 DEF Poll
  <2> QED
    BY <1>0, <1>6, <2>1, <2>2 DEF Poll, keyboard, pointer, sleep
<1>7. CASE HandleMoused
  <2>1. at = [pc |-> at.pc, node |-> at.node, read |-> at.read]
    BY <1>7 DEF TypeInv, OrderInv, Places, HandleMoused
  <2>2. at'.pc \in {"link", "sysrqd"}
    BY <1>7, <2>1 DEF HandleMoused
  <2> QED
    BY <1>0, <1>7, <2>2 DEF HandleMoused, keyboard, pointer, queue, sleep
<1>8. CASE LinkMoused
  <2>1. at = [pc |-> at.pc, node |-> at.node, read |-> at.read]
    BY <1>8 DEF TypeInv, OrderInv, Places, LinkMoused
  <2>2. at'.pc = "sysrqd" /\ killed' = FALSE
    BY <1>8, <2>1 DEF LinkMoused
  <2> QED
    BY <1>0, <1>8, <2>2 DEF LinkMoused, keyboard, pointer, sleep
<1>9. CASE HandleSysrq
  <2>1. armed' \in BOOLEAN
    BY <1>0, <1>9 DEF HandleSysrq
  <2>2. \/ UNCHANGED <<schedule, kmouse>>
        \/ \E code : Command(code)
    BY <1>9 DEF HandleSysrq
  <2>3. schedule' \in {NotScheduled} \union -1..PitFreq
    BY <1>0, <2>2, PitFreqNat DEF Command, Schedule
  <2>4. kmouse' \in BOOLEAN
    BY <1>0, <2>2 DEF Command, Shifted
  <2>5. at'.pc = "poll"
    BY <1>9 DEF HandleSysrq, Idle
  <2> QED
    BY <1>0, <1>9, <2>1, <2>3, <2>4, <2>5 DEF HandleSysrq, keyboard, pointer, queue
<1>10. CASE TimerInterrupt
  <2>1. PitCallback /\ UNCHANGED <<keyboard, pointer, queue, daemon>>
    BY <1>10 DEF TimerInterrupt
  <2>2. /\ schedule' \in {NotScheduled} \union -1..PitFreq
        /\ asleep' \in BOOLEAN /\ timer' \in {"periodic", "once", "stopped"}
    <3>1. CASE asleep
      BY <1>0, <2>1, <3>1 DEF PitCallback
    <3>2. CASE ~asleep /\ schedule # NotScheduled /\ schedule < 0
      BY <1>0, <2>1, <3>2 DEF PitCallback, SleepEnter
    <3>3. CASE ~asleep /\ ~(schedule # NotScheduled /\ schedule < 0)
      <4>1. /\ asleep' = asleep
            /\ timer' = IF timer = "once" THEN "stopped" ELSE timer
            /\ schedule' = IF schedule = NotScheduled THEN schedule ELSE schedule - 1
        BY <2>1, <3>3 DEF PitCallback
      <4>2. schedule' \in {NotScheduled} \union -1..PitFreq
        BY <1>0, <3>3, <4>1, PitFreqNat DEF NotScheduled
      <4> QED
        BY <1>0, <4>1, <4>2
    <3> QED
      BY <3>1, <3>2, <3>3
  <2> QED
    BY <1>0, <2>1, <2>2 DEF keyboard, pointer, queue, daemon
<1>11. CASE Halt
  BY <1>0, <1>11 DEF Halt, keyboard, pointer, queue, daemon
<1>12. CASE TestSleep
  <2>1. schedule' \in {NotScheduled} \union -1..PitFreq /\ timer' \in {"periodic", "once", "stopped"}
    BY <1>0, <1>12 DEF TestSleep, Awaken
  <2> QED
    BY <1>0, <1>12, <2>1 DEF TestSleep, keyboard, pointer, queue, daemon
<1>13. CASE UNCHANGED vars
  BY <1>0, <1>13 DEF vars, keyboard, pointer, queue, daemon, sleep
<1> QED
  BY <1>2, <1>3, <1>4, <1>5, <1>6, <1>7, <1>8, <1>9, <1>10, <1>11, <1>12, <1>13 DEF Next

\* The decoders' and the daemon's states are among those the code tells apart, a
\* request for sleep never lies further ahead than pit_freq ticks (sysrq.c), the
\* numbers of the events in the list were given to events, and sleeps nest.
THEOREM TypesHold == Spec => []TypeOK
<1>1. Init => TypeInv
  BY InitSleepInv, InitOrder, InitFlat DEF TypeInv
<1>2. TypeInv /\ [Next]_vars => TypeInv'
  BY NextKeepsSleepInv, NextKeepsOrder, NextKeepsFlat DEF TypeInv
<1>3. TypeInv => TypeOK
  <2> SUFFICES ASSUME TypeInv PROVE TypeOK
    OBVIOUS
  <2>1. \A i \in DOMAIN events : events[i].n \in 1..made
    BY DEF TypeInv, OrderInv, Places
  <2> QED
    BY <2>1 DEF TypeInv, SleepInv, Flat, TypeOK
<1> QED
  BY <1>1, <1>2, <1>3, PTL DEF Spec

-----------------------------------------------------------------------------
\* keyboard_callback as a function of next_byte and the flags InStep is about.

Passing == {"caps", "sysrq"}
Noted == [next |-> next, flags |-> held \ Passing]

Read(s, byte) ==
  LET pressed == byte <= 128
      raw == IF pressed THEN byte ELSE byte - 128
      flags == Flags(IF s.next THEN Extended[raw] ELSE raw) \ Passing
  IN  IF byte = 224 \/ (s.next /\ raw \notin DOMAIN Extended)
      THEN [next |-> byte = 224, flags |-> s.flags]
      ELSE [next |-> FALSE, flags |-> IF pressed THEN s.flags \union flags ELSE s.flags \ flags]

LEMMA CallbackReads ==
  ASSUME NEW byte, next \in BOOLEAN, KeyboardCallback(byte)
  PROVE  Noted' = Read(Noted, byte) /\ next' \in BOOLEAN
<1> DEFINE pressed == byte <= 128
           raw == IF pressed THEN byte ELSE byte - 128
           code == IF next THEN Extended[raw] ELSE raw
           unknown == next /\ raw \notin DOMAIN Extended
<1>1. CASE byte = 224 \/ unknown
  <2>1. next' = (byte = 224) /\ held' = held
    BY <1>1 DEF KeyboardCallback
  <2>2. Noted.next = next /\ Noted.flags = held \ Passing
    BY DEF Noted
  <2>3. Noted' = [next |-> byte = 224, flags |-> held \ Passing]
    BY <2>1 DEF Noted
  <2> QED
    BY <1>1, <2>1, <2>2, <2>3 DEF Read
<1>2. CASE ~(byte = 224 \/ unknown)
  <2>1. next' = FALSE /\ held' = HeldAfter(code, pressed)
    BY <1>2 DEF KeyboardCallback
  <2>2. Noted.next = next /\ Noted.flags = held \ Passing
    BY DEF Noted
  <2> HIDE DEF pressed, raw, code, unknown
  <2>3. held' \ Passing = IF pressed THEN (held \ Passing) \union (Flags(code) \ Passing)
                          ELSE (held \ Passing) \ (Flags(code) \ Passing)
    BY <2>1 DEF HeldAfter, Passing
  <2>4. Noted' = [next |-> FALSE, flags |-> held' \ Passing]
    BY <2>1 DEF Noted
  <2> QED
    BY <1>2, <2>1, <2>2, <2>3, <2>4 DEF Read, pressed, raw, code, unknown
<1> QED
  BY <1>1, <1>2

\* The bytes w take the decoder from s to t.
Leads(s, w, t) ==
  \E r : /\ r[0] = s /\ r[Len(w)] = t
         /\ \A i \in 1..Len(w) : r[i] = Read(r[i - 1], w[i])

LEMMA LeadsOn ==
  ASSUME NEW s, NEW t, NEW w \in Seq(Nat), w # <<>>, Leads(s, w, t)
  PROVE  Leads(Read(s, Head(w)), Tail(w), t)
<1>1. PICK r : /\ r[0] = s /\ r[Len(w)] = t
               /\ \A i \in 1..Len(w) : r[i] = Read(r[i - 1], w[i])
  BY DEF Leads
<1>2. Len(w) \in Nat \ {0} /\ Len(Tail(w)) = Len(w) - 1 /\ Head(w) = w[1]
      /\ \A i \in 1..Len(w) - 1 : Tail(w)[i] = w[i + 1]
  OBVIOUS
<1> DEFINE q == [i \in 0..Len(w) - 1 |-> r[i + 1]]
<1>3. q[0] = Read(s, Head(w)) /\ q[Len(w) - 1] = t
  <2>1. 0 \in 0..Len(w) - 1 /\ Len(w) - 1 \in 0..Len(w) - 1 /\ 1 \in 1..Len(w)
    BY <1>2
  <2>2. q[0] = r[1] /\ q[Len(w) - 1] = r[Len(w)]
    BY <1>2, <2>1
  <2>3. r[1] = Read(r[0], w[1])
    <3>1. r[1] = Read(r[1 - 1], w[1]) /\ 1 - 1 = 0
      BY <1>1, <2>1
    <3> QED
      BY <3>1
  <2> QED
    BY <1>1, <1>2, <2>2, <2>3
<1>4. ASSUME NEW i \in 1..Len(w) - 1 PROVE q[i] = Read(q[i - 1], Tail(w)[i])
  <2>1. i \in 0..Len(w) - 1 /\ i - 1 \in 0..Len(w) - 1 /\ i + 1 \in 1..Len(w)
        /\ (i + 1) - 1 = i /\ (i - 1) + 1 = i
    BY <1>2
  <2>2. q[i] = r[i + 1] /\ q[i - 1] = r[i]
    BY <2>1
  <2>3. r[i + 1] = Read(r[i], w[i + 1])
    <3>1. r[i + 1] = Read(r[(i + 1) - 1], w[i + 1])
      BY <1>1, <2>1
    <3> QED
      BY <2>1, <3>1
  <2> QED
    BY <1>2, <2>2, <2>3
<1> HIDE DEF q
<1> QED
  BY <1>2, <1>3, <1>4 DEF Leads

LEMMA LeadsNowhere ==
  ASSUME NEW s, NEW t, Leads(s, <<>>, t)
  PROVE  s = t
BY DEF Leads

LEMMA ShortLeads ==
  /\ \A s, a : Leads(s, <<a>>, Read(s, a))
  /\ \A s, a, b : Leads(s, <<a, b>>, Read(Read(s, a), b))
<1>1. ASSUME NEW s, NEW a PROVE Leads(s, <<a>>, Read(s, a))
  <2> DEFINE r == [i \in 0..1 |-> IF i = 0 THEN s ELSE Read(s, a)]
  <2>1. r[0] = s /\ r[1] = Read(s, a) /\ Len(<<a>>) = 1 /\ <<a>>[1] = a
    OBVIOUS
  <2> HIDE DEF r
  <2>2. \A i \in 1..1 : i = 1 /\ i - 1 = 0
    OBVIOUS
  <2> QED
    BY <2>1, <2>2 DEF Leads
<1>2. ASSUME NEW s, NEW a, NEW b PROVE Leads(s, <<a, b>>, Read(Read(s, a), b))
  <2> DEFINE r == [i \in 0..2 |-> IF i = 0 THEN s ELSE IF i = 1 THEN Read(s, a) ELSE Read(Read(s, a), b)]
  <2>1. /\ r[0] = s /\ r[1] = Read(s, a) /\ r[2] = Read(Read(s, a), b)
        /\ Len(<<a, b>>) = 2 /\ <<a, b>>[1] = a /\ <<a, b>>[2] = b
    OBVIOUS
  <2> HIDE DEF r
  <2>2. \A i \in 1..2 : (i = 1 /\ i - 1 = 0) \/ (i = 2 /\ i - 1 = 1)
    OBVIOUS
  <2> QED
    BY <2>1, <2>2 DEF Leads
<1> QED
  BY <1>1, <1>2

LEMMA LongLeads ==
  ASSUME NEW s, NEW a, NEW b, NEW c, NEW d
  PROVE  Leads(s, <<a, b, c, d>>, Read(Read(Read(Read(s, a), b), c), d))
<1> DEFINE s1 == Read(s, a)
           s2 == Read(s1, b)
           s3 == Read(s2, c)
           s4 == Read(s3, d)
           r == [i \in 0..4 |-> IF i = 0 THEN s ELSE IF i = 1 THEN s1 ELSE IF i = 2 THEN s2
                                ELSE IF i = 3 THEN s3 ELSE s4]
           w == <<a, b, c, d>>
<1>1. r[0] = s /\ r[1] = s1 /\ r[2] = s2 /\ r[3] = s3 /\ r[4] = s4
  OBVIOUS
<1>2. Len(w) = 4 /\ w[1] = a /\ w[2] = b /\ w[3] = c /\ w[4] = d
  OBVIOUS
<1>3. \A i \in 1..4 : \/ (i = 1 /\ i - 1 = 0) \/ (i = 2 /\ i - 1 = 1)
                      \/ (i = 3 /\ i - 1 = 2) \/ (i = 4 /\ i - 1 = 3)
  OBVIOUS
<1> HIDE DEF r
<1>4. s1 = Read(s, a) /\ s2 = Read(s1, b) /\ s3 = Read(s2, c) /\ s4 = Read(s3, d)
  OBVIOUS
<1> HIDE DEF s1, s2, s3, s4, w
<1>5. \A i \in 1..Len(w) : r[i] = Read(r[i - 1], w[i])
  BY <1>1, <1>2, <1>3, <1>4
<1>6. Leads(s, w, s4)
  BY <1>1, <1>2, <1>5 DEF Leads
<1> QED
  BY <1>6 DEF s1, s2, s3, s4, w

-----------------------------------------------------------------------------
\* What the bytes of a key do.

LEMMA ShiftExtended == 42 \in DOMAIN Extended /\ Extended[42] = 86
BY DEF Extended

LEMMA NoPassingFlag == \A k : FlagsOf(k) \ Passing = FlagsOf(k)
BY DEF FlagsOf, Passing

\* A 224 opens a sequence; the byte behind it closes it.
LEMMA Opens == ASSUME NEW F PROVE Read([next |-> FALSE, flags |-> F], 224) = [next |-> TRUE, flags |-> F]
BY DEF Read

LEMMA ShiftPasses ==
  ASSUME NEW F, F \ Passing = F, NEW b \in {42, 170}
  PROVE  Read([next |-> TRUE, flags |-> F], b) = [next |-> FALSE, flags |-> F]
<1> DEFINE s == [next |-> TRUE, flags |-> F]
           raw == IF b <= 128 THEN b ELSE b - 128
<1>1. raw = 42 /\ b # 224 /\ s.next = TRUE /\ s.flags = F
  OBVIOUS
<1>2. Flags(Extended[42]) \ Passing = {}
  BY ShiftExtended DEF Flags, Passing
<1> HIDE DEF s, raw
<1>3. F \union {} = F /\ F \ {} = F
  OBVIOUS
<1>4. Read(s, b) = [next |-> FALSE, flags |-> IF b <= 128 THEN F \union {} ELSE F \ {}]
  <2>1. raw \in DOMAIN Extended /\ Flags(IF s.next THEN Extended[raw] ELSE raw) \ Passing = {}
    BY <1>1, <1>2, ShiftExtended
  <2> QED
    BY <1>1, <2>1 DEF Read, raw
<1> QED
  BY <1>3, <1>4 DEF s

LEMMA GreyReads ==
  ASSUME NEW F, NEW c \in (1..127) \ {96}, NEW k, NEW make, NEW break, Grey(k, make, break, c)
  PROVE  /\ Read([next |-> TRUE, flags |-> F], c) = [next |-> FALSE, flags |-> F \union FlagsOf(k)]
         /\ Read([next |-> TRUE, flags |-> F], c + 128) = [next |-> FALSE, flags |-> F \ FlagsOf(k)]
<1> DEFINE s == [next |-> TRUE, flags |-> F]
           N == FlagsOf(k)
<1>0. /\ (IF c \in DOMAIN Extended THEN Flags(Extended[c]) ELSE {}) \ {"sysrq"} = N
      /\ N \ Passing = N
  BY NoPassingFlag DEF Grey
<1> HIDE DEF N
<1>1. /\ c <= 128 /\ c # 224 /\ c + 128 # 224 /\ ~(c + 128 <= 128) /\ (c + 128) - 128 = c
      /\ s.next = TRUE /\ s.flags = F
  OBVIOUS
<1> HIDE DEF s
<1>2. CASE c \in DOMAIN Extended
  <2>1. Flags(Extended[c]) \ Passing = N
    BY <1>0, <1>2 DEF Passing
  <2> QED
    BY <1>1, <1>2, <2>1 DEF Read, s, N
<1>3. CASE c \notin DOMAIN Extended
  <2>1. N = {} /\ F \union {} = F /\ F \ {} = F
    BY <1>0, <1>3
  <2> QED
    BY <1>1, <1>3, <2>1 DEF Read, s, N
<1> QED
  BY <1>2, <1>3

LEMMA PlainReads ==
  ASSUME NEW F, NEW c \in (1..127) \ {96}, NEW N, Flags(c) = N, N \ Passing = N
  PROVE  /\ Read([next |-> FALSE, flags |-> F], c) = [next |-> FALSE, flags |-> F \union N]
         /\ Read([next |-> FALSE, flags |-> F], c + 128) = [next |-> FALSE, flags |-> F \ N]
<1> DEFINE s == [next |-> FALSE, flags |-> F]
<1>1. /\ c <= 128 /\ c # 224 /\ c + 128 # 224 /\ ~(c + 128 <= 128) /\ (c + 128) - 128 = c
      /\ s.next = FALSE /\ s.flags = F
  OBVIOUS
<1> HIDE DEF s
<1> QED
  BY <1>1 DEF Read, s

\* The bytes of a key set, or clear, its flags and leave no sequence open.
LEMMA KeyBytes ==
  ASSUME NEW k \in Keys, NEW shift \in BOOLEAN, NEW F, F \ Passing = F
  PROVE  LET at0(G) == [next |-> FALSE, flags |-> G] IN
         /\ Make[shift][k] \in Seq(Nat) /\ Break[shift][k] \in Seq(Nat)
         /\ Leads(at0(F), Make[shift][k], at0(F \union FlagsOf(k)))
         /\ Leads(at0(F), Break[shift][k], at0(F \ FlagsOf(k)))
<1> DEFINE shut(G) == [next |-> FALSE, flags |-> G]
           open(G) == [next |-> TRUE, flags |-> G]
           N == FlagsOf(k)
           make == Make[shift][k]
           break == Break[shift][k]
<1>1. N \ Passing = N
  BY NoPassingFlag
<1>2. PICK c \in (1..127) \ {96} : Plain(k, make, break, c) \/ Grey(k, make, break, c)
  BY ScanCodes
<1>3. c \in Nat /\ c + 128 \in Nat /\ 224 \in Nat /\ {42, 170} \subseteq Nat
  OBVIOUS
<1>4. (F \union N) \ Passing = F \union N /\ (F \ N) \ Passing = F \ N
  BY <1>1
<1>5. CASE Plain(k, make, break, c)
  <2>1. make = <<c>> /\ break = <<c + 128>> /\ Flags(c) = N
    BY <1>5 DEF Plain
  <2>2. Read(shut(F), c) = shut(F \union N) /\ Read(shut(F), c + 128) = shut(F \ N)
    <3> HIDE DEF N, make, break
    <3> QED
      BY <1>1, <2>1, PlainReads
  <2> HIDE DEF shut, N, make, break
  <2>3. Leads(shut(F), make, shut(F \union N)) /\ Leads(shut(F), break, shut(F \ N))
    BY <2>1, <2>2, ShortLeads
  <2>4. make \in Seq(Nat) /\ break \in Seq(Nat)
    BY <1>3, <2>1
  <2> QED
    BY <2>3, <2>4 DEF shut, N, make, break
<1>6. CASE Grey(k, make, break, c)
  <2>1. /\ (IF c \in DOMAIN Extended THEN Flags(Extended[c]) ELSE {}) \ {"sysrq"} = N
        /\ make = <<224, c>> \/ \E s \in {42, 170} : make = <<224, s, 224, c>>
        /\ break = <<224, c + 128>> \/ \E s \in {42, 170} : break = <<224, c + 128, 224, s>>
    BY <1>6 DEF Grey
  <2>2. Read(open(F), c) = shut(F \union N) /\ Read(open(F), c + 128) = shut(F \ N)
    BY <1>6, GreyReads
  <2>3. \A G : Read(shut(G), 224) = open(G)
    BY Opens
  <2>4. \A s \in {42, 170} : Read(open(F), s) = shut(F) /\ Read(open(F \ N), s) = shut(F \ N)
    BY <1>4, ShiftPasses
  <2> HIDE DEF shut, open, N, make, break
  <2>5. Leads(shut(F), make, shut(F \union N))
    <3>1. CASE make = <<224, c>>
      BY <2>2, <2>3, <3>1, ShortLeads
    <3>2. ASSUME NEW s \in {42, 170}, make = <<224, s, 224, c>>
          PROVE  Leads(shut(F), make, shut(F \union N))
      <4>1. Leads(shut(F), make, Read(Read(Read(Read(shut(F), 224), s), 224), c))
        BY <3>2, LongLeads
      <4>2. Read(shut(F), 224) = open(F) /\ Read(open(F), s) = shut(F)
        BY <2>3, <2>4
      <4> QED
        BY <2>2, <4>1, <4>2
    <3> QED
      BY <2>1, <3>1, <3>2
  <2>6. Leads(shut(F), break, shut(F \ N))
    <3>1. CASE break = <<224, c + 128>>
      BY <2>2, <2>3, <3>1, ShortLeads
    <3>2. ASSUME NEW s \in {42, 170}, break = <<224, c + 128, 224, s>>
          PROVE  Leads(shut(F), break, shut(F \ N))
      <4>1. Leads(shut(F), break, Read(Read(Read(Read(shut(F), 224), c + 128), 224), s))
        BY <3>2, LongLeads
      <4>2. /\ Read(shut(F), 224) = open(F) /\ Read(open(F), c + 128) = shut(F \ N)
            /\ Read(shut(F \ N), 224) = open(F \ N) /\ Read(open(F \ N), s) = shut(F \ N)
        BY <2>2, <2>3, <2>4
      <4> QED
        BY <4>1, <4>2
    <3> QED
      BY <2>1, <3>1, <3>2
  <2>7. make \in Seq(Nat) /\ break \in Seq(Nat)
    <3>1. \A i, j, m, n \in Nat : <<i, j>> \in Seq(Nat) /\ <<i, j, m, n>> \in Seq(Nat)
      OBVIOUS
    <3>2. make \in Seq(Nat)
      <4>1. CASE make = <<224, c>>
        BY <1>3, <3>1, <4>1
      <4>2. ASSUME NEW s \in {42, 170}, make = <<224, s, 224, c>> PROVE make \in Seq(Nat)
        BY <1>3, <3>1, <4>2
      <4> QED
        BY <2>1, <4>1, <4>2
    <3>3. break \in Seq(Nat)
      <4>1. CASE break = <<224, c + 128>>
        BY <1>3, <3>1, <4>1
      <4>2. ASSUME NEW s \in {42, 170}, break = <<224, c + 128, 224, s>> PROVE break \in Seq(Nat)
        BY <1>3, <3>1, <4>2
      <4> QED
        BY <2>1, <4>1, <4>2
    <3> QED
      BY <3>2, <3>3
  <2> QED
    BY <2>5, <2>6, <2>7 DEF shut, N, make, break
<1> QED
  BY <1>2, <1>5, <1>6

-----------------------------------------------------------------------------
\* The bytes on the wire take the decoder to the flags of the keys held down.

Settled(keys) == [next |-> FALSE, flags |-> UNION {FlagsOf(k) : k \in keys}]

KeyInv ==
  /\ next \in BOOLEAN /\ wire \in Seq(Nat)
  /\ Leads(Noted, wire, Settled(down))

LEMMA InitKeys == Init => KeyInv
<1> SUFFICES ASSUME Init PROVE KeyInv
  OBVIOUS
<1>1. next = FALSE /\ wire = <<>> /\ down = {} /\ held = {}
  BY DEF Init
<1>2. UNION {FlagsOf(k) : k \in {}} = {} /\ {} \ Passing = {}
  OBVIOUS
<1>3. Noted = Settled(down)
  BY <1>1, <1>2 DEF Noted, Settled
<1>4. \A s : Leads(s, <<>>, s)
  <2> SUFFICES ASSUME NEW s PROVE Leads(s, <<>>, s)
    OBVIOUS
  <2> DEFINE r == [i \in {0} |-> s]
  <2>1. r[0] = s /\ Len(<<>>) = 0 /\ \A i \in 1..0 : FALSE
    OBVIOUS
  <2> HIDE DEF r
  <2> QED
    BY <2>1 DEF Leads
<1>5. Leads(Noted, wire, Settled(down))
  BY <1>1, <1>3, <1>4
<1>6. wire \in Seq(Nat)
  BY <1>1
<1> QED
  BY <1>1, <1>5, <1>6 DEF KeyInv

\* No two keys stand for the same flag.
LEMMA OwnFlags ==
  ASSUME NEW keys, NEW k
  PROVE  LET flags(K) == UNION {FlagsOf(j) : j \in K} IN
         /\ flags(keys \union {k}) = flags(keys) \union FlagsOf(k)
         /\ k \in keys => flags(keys \ {k}) = flags(keys) \ FlagsOf(k)
         /\ flags(keys) \ Passing = flags(keys)
<1>1. \A j, f : j # k /\ f \in FlagsOf(j) => f \notin FlagsOf(k)
  BY DEF FlagsOf
<1>2. \A j : FlagsOf(j) \ Passing = FlagsOf(j)
  BY NoPassingFlag
<1> QED
  BY <1>1, <1>2

LEMMA NextKeepsKeys == KeyInv /\ [Next]_vars => KeyInv'
<1> SUFFICES ASSUME KeyInv, [Next]_vars PROVE KeyInv'
  OBVIOUS
<1>1. CASE UNCHANGED <<down, wire, next, held>>
  BY <1>1 DEF KeyInv, Noted
<1>2. ASSUME NEW k \in Keys, Press(k) PROVE KeyInv'
  <2> DEFINE shift == "lshift" \in down
             F == UNION {FlagsOf(j) : j \in down}
  <2>1. /\ wire = <<>> /\ down' = down \union {k} /\ wire' = Make[shift][k] /\ UNCHANGED <<next, held>>
    BY <1>2 DEF Press
  <2>2. Noted = [next |-> FALSE, flags |-> F]
    BY <2>1, LeadsNowhere DEF KeyInv, Settled
  <2>3. F \ Passing = F /\ UNION {FlagsOf(j) : j \in down'} = F \union FlagsOf(k)
    BY <2>1, OwnFlags
  <2> HIDE DEF F
  <2>4. shift \in BOOLEAN
    OBVIOUS
  <2>5. wire' \in Seq(Nat) /\ Leads(Noted, wire', [next |-> FALSE, flags |-> F \union FlagsOf(k)])
    BY <2>1, <2>2, <2>3, <2>4, KeyBytes
  <2>6. Noted' = Noted /\ Settled(down') = [next |-> FALSE, flags |-> F \union FlagsOf(k)]
    BY <2>1, <2>3 DEF Noted, Settled
  <2>7. Leads(Noted, wire, Settled(down))'
    BY <2>5, <2>6 DEF Leads
  <2> QED
    BY <2>1, <2>5, <2>7 DEF KeyInv
<1>3. ASSUME NEW k \in Keys, Lift(k) PROVE KeyInv'
  <2> DEFINE shift == "lshift" \in down
             F == UNION {FlagsOf(j) : j \in down}
  <2>1. /\ wire = <<>> /\ k \in down /\ down' = down \ {k} /\ wire' = Break[shift][k]
        /\ UNCHANGED <<next, held>>
    BY <1>3 DEF Lift
  <2>2. Noted = [next |-> FALSE, flags |-> F]
    BY <2>1, LeadsNowhere DEF KeyInv, Settled
  <2>3. F \ Passing = F /\ UNION {FlagsOf(j) : j \in down'} = F \ FlagsOf(k)
    BY <2>1, OwnFlags
  <2> HIDE DEF F
  <2>4. shift \in BOOLEAN
    OBVIOUS
  <2>5. wire' \in Seq(Nat) /\ Leads(Noted, wire', [next |-> FALSE, flags |-> F \ FlagsOf(k)])
    BY <2>1, <2>2, <2>3, <2>4, KeyBytes
  <2>6. Noted' = Noted /\ Settled(down') = [next |-> FALSE, flags |-> F \ FlagsOf(k)]
    BY <2>1, <2>3 DEF Noted, Settled
  <2>7. Leads(Noted, wire, Settled(down))'
    BY <2>5, <2>6 DEF Leads
  <2> QED
    BY <2>1, <2>5, <2>7 DEF KeyInv
<1>4. CASE KeyboardInterrupt
  <2>1. wire # <<>> /\ wire' = Tail(wire) /\ KeyboardCallback(Head(wire)) /\ down' = down
    BY <1>4 DEF KeyboardInterrupt
  <2>2. Noted' = Read(Noted, Head(wire)) /\ next' \in BOOLEAN
    BY <2>1, CallbackReads DEF KeyInv
  <2>3. wire \in Seq(Nat) /\ wire' \in Seq(Nat)
    BY <2>1 DEF KeyInv
  <2>4. Leads(Noted', wire', Settled(down))
    BY <2>1, <2>2, <2>3, LeadsOn DEF KeyInv
  <2>5. Leads(Noted, wire, Settled(down))'
    BY <2>1, <2>4 DEF Leads, Settled
  <2> QED
    BY <2>2, <2>3, <2>5 DEF KeyInv
<1> QED
  BY <1>1, <1>2, <1>3, <1>4
     DEF Next, vars, keyboard, MouseInterrupt, VmouseCallback, Poll, HandleMoused, LinkMoused,
         HandleSysrq, TimerInterrupt, Halt, TestSleep

LEMMA KeysInStep == KeyInv => InStep
<1> SUFFICES ASSUME KeyInv, wire = <<>>
             PROVE  ~next /\ held \ {"caps", "sysrq"} = UNION {FlagsOf(k) : k \in down}
  BY DEF InStep
<1>1. Noted = Settled(down)
  BY LeadsNowhere DEF KeyInv
<1> QED
  BY <1>1 DEF Noted, Settled, Passing

-----------------------------------------------------------------------------
\* mouse_handler: bit 3 of a packet's first byte is always set.
LEMMA PacketsStayInStep == [Next]_vars => (cycle = phase => cycle' = phase')
<1> SUFFICES ASSUME [Next]_vars, cycle = phase PROVE cycle' = phase'
  OBVIOUS
<1>1. CASE UNCHANGED <<cycle, phase>>
  BY <1>1
<1>2. ASSUME NEW aux \in BOOLEAN, NEW sync \in BOOLEAN, MouseInterrupt(aux, sync)
      PROVE  cycle' = phase'
  BY <1>2 DEF MouseInterrupt, MouseHandler
<1> QED
  BY <1>1, <1>2 DEF Next, vars, pointer, Press, Lift, KeyboardInterrupt, VmouseCallback, Poll,
     HandleMoused, LinkMoused, HandleSysrq, TimerInterrupt, Halt, TestSleep

\* However the bytes of keys, the mouse's and interrupts without one come between each other:
\* when the keyboard has nothing more to send, keyboard_callback has no sequence open and
\* holds the flags of the keys held down, and packets of mouse_handler that are in step stay so.
THEOREM DecodersStayInStep == Spec => DecodersInStep
<1>1. Init => KeyInv
  BY InitKeys
<1>2. KeyInv /\ [Next]_vars => KeyInv'
  BY NextKeepsKeys
<1>3. KeyInv' => InStep'
  BY KeysInStep, PTL
<1>4. KeyInv' /\ [Next]_vars => [InStep' /\ (cycle = phase => cycle' = phase')]_vars
  BY <1>3, PacketsStayInStep
<1> QED
  BY <1>1, <1>2, <1>4, PTL DEF Spec, DecodersInStep
=============================================================================
