--------------------------- MODULE Network_proofs ---------------------------
(***************************************************************************)
(* Theorems about module Network, for any programs, frames and sizes: the  *)
(* wait, the table and the send ring; then the sockets, their clients, the *)
(* order of what programs receive, and what stays within its bounds.       *)
(***************************************************************************)
EXTENDS Network, WellFoundedInduction, SequenceTheorems, TLAPS

-----------------------------------------------------------------------------
(* netd's wait.  Only netd stores answers, and it starts to wait only for an address
   that is not in the table: its wait cannot end early. *)

Shaped(t) == t = [pc |-> t.pc, addr |-> t.addr, tries |-> t.tries, left |-> t.left]

Threads == th = [c \in Contexts |-> th[c]] /\ \A c \in Contexts : Shaped(th[c])

UnknownWhileWaiting == th[Netd].pc = "resolve" => Lookup(th[Netd].addr) = NoMac

WaitInv == Threads /\ UnknownWhileWaiting

(* What NetdNeverLearns says of a step. *)
LearnsNothing ==
    th[Netd].pc = "resolve" => arp' = arp /\ (th'[Netd].pc # "resolve" => th[Netd].tries = Tries)

LEMMA SetThread ==
    ASSUME Threads, NEW c \in Contexts, NEW t, Shaped(t), th' = [th EXCEPT ![c] = t]
    PROVE  /\ Threads'
           /\ th'[c] = t
           /\ \A d \in Contexts \ {c} : th'[d] = th[d]
BY DEF Threads, Shaped

LEMMA ShapedStanding ==
    ASSUME NEW pc, NEW addr, NEW left
    PROVE  Shaped(Standing(pc, addr, left)) /\ Standing(pc, addr, left).pc = pc
BY DEF Shaped, Standing

LEMMA ShapedIdle == Shaped(Idle) /\ Idle.pc = "run" /\ Shaped(Junk)
BY ShapedStanding DEF Idle, Junk

LEMMA ShapedWaiting ==
    ASSUME NEW addr, NEW tries
    PROVE  /\ Shaped(Waiting(addr, tries))
           /\ Waiting(addr, tries).pc = "resolve" /\ Waiting(addr, tries).addr = addr
BY DEF Shaped, Waiting

LEMMA SetIdle ==
    ASSUME Threads, NEW c \in Contexts, th' = [th EXCEPT ![c] = Idle]
    PROVE  Threads' /\ th'[c].pc = "run"
BY SetThread, ShapedIdle

LEMMA SetStanding ==
    ASSUME Threads, NEW c \in Contexts, NEW pc, NEW addr, NEW left,
           th' = [th EXCEPT ![c] = Standing(pc, addr, left)]
    PROVE  Threads' /\ th'[c].pc = pc
<1> DEFINE t == Standing(pc, addr, left)
<1>1. Shaped(t) /\ t.pc = pc /\ th' = [th EXCEPT ![c] = t]
  BY ShapedStanding
<1> HIDE DEF t
<1> QED
  BY <1>1, SetThread

LEMMA SetWaiting ==
    ASSUME Threads, NEW c \in Contexts, NEW addr, NEW tries,
           th' = [th EXCEPT ![c] = Waiting(addr, tries)]
    PROVE  Threads' /\ th'[c].pc = "resolve" /\ th'[c].addr = addr
<1> DEFINE t == Waiting(addr, tries)
<1>1. Shaped(t) /\ t.pc = "resolve" /\ t.addr = addr /\ th' = [th EXCEPT ![c] = t]
  BY ShapedWaiting
<1> HIDE DEF t
<1> QED
  BY <1>1, SetThread

LEMMA LookupKept ==
    ASSUME arp' = arp, NEW addr
    PROVE  Lookup(addr)' = Lookup(addr)
BY DEF Lookup

(* A step that leaves the table and netd alone. *)
LEMMA NetdUntouched ==
    ASSUME WaitInv, arp' = arp, Threads',
           th'[Netd].pc = th[Netd].pc, th'[Netd].addr = th[Netd].addr
    PROVE  WaitInv' /\ LearnsNothing
<1>1. UnknownWhileWaiting'
  BY LookupKept DEF WaitInv, UnknownWhileWaiting
<1> QED
  BY <1>1 DEF WaitInv, LearnsNothing

LEMMA ProgramStep ==
    ASSUME WaitInv, arp' = arp, NEW p \in Programs, NEW t, Shaped(t), th' = [th EXCEPT ![p] = t]
    PROVE  WaitInv' /\ LearnsNothing
<1>1. p \in Contexts /\ Netd \in Contexts \ {p}
  BY NetdIsNoProgram DEF Contexts
<1>2. Threads' /\ th'[Netd] = th[Netd]
  BY <1>1, SetThread DEF WaitInv
<1> QED
  BY <1>2, NetdUntouched

LEMMA InitWaitInv == Init => WaitInv
<1> SUFFICES ASSUME Init PROVE WaitInv
  OBVIOUS
<1>1. th = [c \in Contexts |-> Idle] /\ Netd \in Contexts
  BY DEF Init, Contexts
<1>2. Idle.pc # "resolve"
  BY ShapedIdle
<1> QED
  BY <1>1, <1>2, ShapedIdle DEF WaitInv, Threads, UnknownWhileWaiting

(* Whatever follows the answer, or its absence, the waiting is over. *)
LEMMA ResolvedThread ==
    ASSUME NEW c, NEW addr, NEW mac, Resolved(c, addr, mac)
    PROVE  th' = [th EXCEPT ![c] = Idle]
BY DEF Resolved

LEMMA ResolveThread ==
    ASSUME NEW c, NEW addr, Resolve(c, addr)
    PROVE  \/ th' = [th EXCEPT ![c] = Idle]
           \/ Lookup(addr) = NoMac /\ th' = [th EXCEPT ![c] = Waiting(addr, 1)]
BY ResolvedThread DEF Resolve

LEMMA WaitLearnsNothing ==
    ASSUME WaitInv, NEW c \in Contexts, Wait(c)
    PROVE  WaitInv' /\ LearnsNothing
<1>1. arp' = arp /\ th[c].pc = "resolve" /\ (Look(c) \/ WaitEnds(c))
  BY DEF Wait
<1>2. \/ th' = [th EXCEPT ![c] = Idle] /\ (Lookup(th[c].addr) # NoMac \/ th[c].tries = Tries)
      \/ th' = [th EXCEPT ![c] = Waiting(th[c].addr, th[c].tries + 1)]
  BY <1>1, ResolvedThread DEF Look, WaitEnds
<1>3. CASE c \in Programs
  BY <1>1, <1>2, <1>3, ProgramStep, ShapedIdle, ShapedWaiting
<1>4. CASE c = Netd
  <2>1. CASE th' = [th EXCEPT ![c] = Idle] /\ (Lookup(th[c].addr) # NoMac \/ th[c].tries = Tries)
    <3>1. th[Netd].tries = Tries
      BY <1>1, <1>4, <2>1 DEF WaitInv, UnknownWhileWaiting
    <3>2. Threads' /\ th'[Netd].pc # "resolve"
      BY <1>4, <2>1, SetIdle DEF WaitInv
    <3> QED
      BY <1>1, <3>1, <3>2 DEF WaitInv, UnknownWhileWaiting, LearnsNothing
  <2>2. CASE th' = [th EXCEPT ![c] = Waiting(th[c].addr, th[c].tries + 1)]
    <3>1. Threads' /\ th'[Netd].pc = "resolve" /\ th'[Netd].addr = th[Netd].addr
      BY <1>4, <2>2, SetWaiting DEF WaitInv
    <3> QED
      BY <1>1, <1>4, <3>1, NetdUntouched
  <2> QED
    BY <1>2, <2>1, <2>2
<1> QED
  BY <1>3, <1>4 DEF Contexts

(* netd while it hands a datagram to the sockets. *)
LEMMA ServingThread ==
    ASSUME Propagate \/ Link \/ \E f, n : UdpSniff(f, n)
    PROVE  \/ UNCHANGED th
           \/ \E pc \in {"run", "serve", "link", "reject"} : \E addr :
                 th' = [th EXCEPT ![Netd] = Standing(pc, addr, 0)]
<1>1. CASE Propagate
  BY <1>1 DEF Propagate, QueuePacket, Idle
<1>2. CASE Link
  BY <1>2 DEF Link
<1>3. CASE \E f, n : UdpSniff(f, n)
  BY <1>3 DEF UdpSniff
<1> QED
  BY <1>1, <1>2, <1>3

LEMMA NetdStepLearnsNothing ==
    ASSUME WaitInv, NetdStep
    PROVE  WaitInv' /\ LearnsNothing
<1>0. Netd \in Contexts
  BY DEF Contexts
<1>1. CASE th[Netd].pc = "run" /\ queue # <<>> /\ Send
  BY <1>1, NetdUntouched DEF Send, WaitInv, Threads
<1>2. ASSUME th[Netd].pc # "resolve", UNCHANGED th \/ \E pc \in {"run", "serve", "link", "reject"} : \E addr :
                 th' = [th EXCEPT ![Netd] = Standing(pc, addr, 0)]
      PROVE  WaitInv' /\ LearnsNothing
  <2>1. Threads' /\ th'[Netd].pc # "resolve"
    BY <1>0, <1>2, SetStanding DEF WaitInv, Threads
  <2> QED
    BY <1>2, <2>1 DEF WaitInv, UnknownWhileWaiting, LearnsNothing
<1>3. CASE th[Netd].pc = "run" /\ queue # <<>> /\ Sniff
  <2> DEFINE f == Head(queue).f
  <2>1. UNCHANGED th \/ UdpSniff(f, Head(queue).n)
    BY <1>3 DEF Sniff, ArpResponder, IcmpResponder, Answer
  <2> QED
    BY <1>2, <1>3, <2>1, ServingThread
<1>4. CASE Propagate \/ Link
  <2>1. th[Netd].pc # "resolve"
    BY <1>4 DEF Propagate, Link
  <2> QED
    BY <1>2, <1>4, <2>1, ServingThread
<1>5. CASE Reject
  <2>0. th[Netd].pc = "reject" /\ Resolve(Netd, th[Netd].addr) /\ arp' = arp
    BY <1>5 DEF Reject
  <2>1. CASE th' = [th EXCEPT ![Netd] = Idle]
    <3>1. Threads' /\ th'[Netd].pc # "resolve"
      BY <1>0, <2>1, SetIdle DEF WaitInv
    <3> QED
      BY <2>0, <3>1 DEF WaitInv, UnknownWhileWaiting, LearnsNothing
  <2>2. CASE /\ Lookup(th[Netd].addr) = NoMac
             /\ th' = [th EXCEPT ![Netd] = Waiting(th[Netd].addr, 1)]
    <3>1. Threads' /\ th'[Netd].addr = th[Netd].addr
      BY <1>0, <2>2, SetWaiting DEF WaitInv
    <3> QED
      BY <2>0, <2>2, <3>1, LookupKept DEF WaitInv, UnknownWhileWaiting, LearnsNothing
  <2> QED
    BY <2>0, <2>1, <2>2, ResolveThread
<1> QED
  BY <1>1, <1>3, <1>4, <1>5 DEF NetdStep

LEMMA TickLearnsNothing ==
    ASSUME WaitInv, Tick
    PROVE  WaitInv' /\ LearnsNothing
<1>1. /\ arp' = arp
      /\ th' = [c \in Contexts |-> [th[c] EXCEPT !.left = IF @ > 0 THEN @ - 1 ELSE 0]]
  BY DEF Tick
<1>2. \A c \in Contexts : /\ Shaped(th'[c]) /\ th'[c].pc = th[c].pc /\ th'[c].addr = th[c].addr
  BY <1>1 DEF WaitInv, Threads, Shaped
<1>3. Threads' /\ Netd \in Contexts
  BY <1>1, <1>2 DEF Threads, Contexts
<1> QED
  BY <1>1, <1>2, <1>3, NetdUntouched

LEMMA NextLearnsNothing == WaitInv /\ [Next]_vars => WaitInv' /\ LearnsNothing
<1> SUFFICES ASSUME WaitInv, [Next]_vars PROVE WaitInv' /\ LearnsNothing
  OBVIOUS
<1>1. CASE UNCHANGED <<arp, th>>
  BY <1>1, NetdUntouched DEF WaitInv, Threads
<1>2. CASE CardSends \/ Interrupt \/ Callback
  BY <1>1, <1>2 DEF CardSends, Interrupt, Callback
<1>3. ASSUME NEW f \in Frames, Arrive(f) PROVE WaitInv' /\ LearnsNothing
  BY <1>1, <1>3 DEF Arrive
<1>4. CASE Tick \/ NetdStep
  BY <1>4, TickLearnsNothing, NetdStepLearnsNothing
<1>5. ASSUME NEW c \in Contexts, Wait(c) PROVE WaitInv' /\ LearnsNothing
  BY <1>5, WaitLearnsNothing
<1>6. ASSUME NEW p \in Programs, Socket(p) \/ \E t \in Timeouts : SetTimeout(p, t)
      PROVE  WaitInv' /\ LearnsNothing
  BY <1>1, <1>6 DEF Socket, SetTimeout, Others
<1>7. ASSUME NEW p \in Programs,
             (\E port \in Ports : Bind(p, port)) \/ \E t \in Targets : SendTo(p, t)
      PROVE  WaitInv' /\ LearnsNothing
  BY <1>1, <1>7 DEF Bind, SendTo, Others
<1>8. ASSUME NEW p \in Programs, NEW t \in Targets, Connect(p, t)
      PROVE  WaitInv' /\ LearnsNothing
  BY <1>8, ProgramStep, ShapedStanding DEF Connect, Others
<1>9. ASSUME NEW p \in Programs, ConnectTo(p) PROVE WaitInv' /\ LearnsNothing
  <2>1. arp' = arp /\ Resolve(p, th[p].addr)
    BY <1>9 DEF ConnectTo, Others
  <2> QED
    BY <2>1, ResolveThread, ProgramStep, ShapedIdle, ShapedWaiting
<1>10. ASSUME NEW p \in Programs, RecvFrom(p) PROVE WaitInv' /\ LearnsNothing
  <2>1. /\ arp' = arp
        /\ \/ th' = [th EXCEPT ![p] = Standing("poll", 0, fd[p].timeout)]
           \/ th' = [th EXCEPT ![p] = Junk]
    BY <1>10 DEF RecvFrom, Others
  <2> QED
    BY <2>1, ProgramStep, ShapedIdle, ShapedStanding
<1>11. ASSUME NEW p \in Programs, Poll(p) PROVE WaitInv' /\ LearnsNothing
  <2>1. arp' = arp /\ (th' = [th EXCEPT ![p] = Idle] \/ th' = [th EXCEPT ![p] = Junk])
    BY <1>11 DEF Poll, Others
  <2> QED
    BY <2>1, ProgramStep, ShapedIdle
<1>12. CASE UNCHANGED vars
  BY <1>1, <1>12 DEF vars
<1> QED
  BY <1>2, <1>3, <1>4, <1>5, <1>6, <1>7, <1>8, <1>9, <1>10, <1>11, <1>12 DEF Next

(* netd, which rejects a datagram for a port nobody has, waits in vain for the
   answer it would have to read itself: it learns nothing while it waits, and
   goes on only after the last try (net/udp.c, net/arp.c). *)
THEOREM NetdWaitsInVain == Spec => NetdNeverLearns
<1>1. Init => WaitInv
  BY InitWaitInv
<1>2. WaitInv /\ [Next]_vars => WaitInv'
  BY NextLearnsNothing
<1>3. WaitInv /\ [Next]_vars => [LearnsNothing]_vars
  BY NextLearnsNothing
<1>4. Spec => [][LearnsNothing]_vars
  BY <1>1, <1>2, <1>3, PTL DEF Spec
<1> QED
  BY <1>4 DEF NetdNeverLearns, LearnsNothing

-----------------------------------------------------------------------------
(* What the card has stored, and what is in the queue on its way in, are frames. *)

CardShaped ==
    card = [rx |-> card.rx, isr |-> card.isr, stat |-> card.stat, irq |-> card.irq,
            pending |-> card.pending, next |-> card.next, held |-> card.held,
            twice |-> card.twice, sending |-> card.sending, sent |-> card.sent]

Stored == [f : Frames, n : Nat]
PacketsIn == [out : {FALSE}, n : Nat, f : Frames]
PacketsOut(S) == [out : {TRUE}, n : {0}, f : S]

FramesInv ==
    /\ CardShaped /\ card.rx \in Seq(Stored)
    /\ packets \in Nat
    /\ \E S : queue \in Seq(PacketsIn \union PacketsOut(S))

LEMMA AppendOutgoing ==
    ASSUME NEW S, NEW q \in Seq(PacketsIn \union PacketsOut(S)), NEW kind, NEW addr, NEW mac
    PROVE  \E T : Append(q, Outgoing(kind, addr, mac)) \in Seq(PacketsIn \union PacketsOut(T))
<1> DEFINE packet == Outgoing(kind, addr, mac)
           T == S \union {packet.f}
<1>1. packet \in PacketsOut(T)
  BY DEF Outgoing, PacketsOut
<1>2. PacketsIn \union PacketsOut(S) \subseteq PacketsIn \union PacketsOut(T)
  BY DEF PacketsOut
<1> HIDE DEF packet, T
<1>3. q \in Seq(PacketsIn \union PacketsOut(T))
  BY <1>2, SeqMonotonic
<1>4. Append(q, packet) \in Seq(PacketsIn \union PacketsOut(T))
  BY <1>1, <1>3, AppendProperties
<1> QED
  BY <1>4 DEF packet

LEMMA InitFrames == Init => FramesInv
<1> SUFFICES ASSUME Init PROVE FramesInv
  OBVIOUS
<1>1. CardShaped /\ card.rx = <<>>
  BY DEF Init, CardShaped
<1>2. queue = <<>> /\ packets = 0
  BY DEF Init
<1>3. <<>> \in Seq(Stored) /\ <<>> \in Seq(PacketsIn \union PacketsOut({}))
  OBVIOUS
<1> QED
  BY <1>1, <1>2, <1>3 DEF FramesInv

(* What a step does to the queue, besides the interrupt. *)
QueueStep ==
    \/ UNCHANGED queue
    \/ \E kind, addr, mac : queue' = Append(queue, Outgoing(kind, addr, mac))
    \/ queue # <<>> /\ queue' = Tail(queue)
    \/ queue # <<>> /\ \E kind, addr, mac : queue' = Append(Tail(queue), Outgoing(kind, addr, mac))

LEMMA QueueStepKeepsFrames ==
    ASSUME FramesInv, QueueStep
    PROVE  \E S : queue' \in Seq(PacketsIn \union PacketsOut(S))
<1>1. PICK S : queue \in Seq(PacketsIn \union PacketsOut(S))
  BY DEF FramesInv
<1>2. queue # <<>> => Tail(queue) \in Seq(PacketsIn \union PacketsOut(S))
  BY <1>1
<1>3. CASE queue' = queue \/ (queue # <<>> /\ queue' = Tail(queue))
  BY <1>1, <1>2, <1>3
<1>4. ASSUME NEW kind, NEW addr, NEW mac, queue' = Append(queue, Outgoing(kind, addr, mac))
      PROVE  \E T : queue' \in Seq(PacketsIn \union PacketsOut(T))
  BY <1>1, <1>4, AppendOutgoing
<1>5. ASSUME queue # <<>>, NEW kind, NEW addr, NEW mac,
             queue' = Append(Tail(queue), Outgoing(kind, addr, mac))
      PROVE  \E T : queue' \in Seq(PacketsIn \union PacketsOut(T))
  BY <1>2, <1>5, AppendOutgoing
<1> QED
  BY <1>3, <1>4, <1>5 DEF QueueStep

LEMMA ResolvedQueue ==
    ASSUME NEW c, NEW addr, NEW mac, Resolved(c, addr, mac)
    PROVE  QueueStep
BY DEF Resolved, IcmpUnreachable, Transmit, QueueStep

LEMMA ResolveQueue ==
    ASSUME NEW c, NEW addr, Resolve(c, addr)
    PROVE  QueueStep
BY ResolvedQueue DEF Resolve, ArpRequest, Transmit, QueueStep

LEMMA WaitQueue ==
    ASSUME NEW c, Wait(c)
    PROVE  QueueStep
BY ResolvedQueue DEF Wait, Look, WaitEnds, ArpRequest, Transmit, QueueStep

LEMMA NetdQueue ==
    ASSUME NetdStep
    PROVE  QueueStep /\ (UNCHANGED card \/ card' = CardSend(card))
<1>1. CASE th[Netd].pc = "run" /\ queue # <<>> /\ Send
  BY <1>1 DEF Send, QueueStep
<1>2. CASE th[Netd].pc = "run" /\ queue # <<>> /\ Sniff
  BY <1>2 DEF Sniff, UdpSniff, ArpResponder, IcmpResponder, Answer, QueueStep
<1>3. CASE Propagate \/ Link
  BY <1>3 DEF Propagate, Link, QueueStep
<1>4. CASE Reject
  BY <1>4, ResolveQueue DEF Reject
<1> QED
  BY <1>1, <1>2, <1>3, <1>4 DEF NetdStep

LEMMA CallbackKeepsFrames ==
    ASSUME FramesInv, Callback
    PROVE  FramesInv'
<1>1. CardShaped' /\ (card'.rx = card.rx \/ card'.rx = <<>>)
  BY DEF FramesInv, Callback, CardShaped, FreeSent
<1>2. card.rx \in Seq(Stored) /\ card'.rx \in Seq(Stored)
  BY <1>1, EmptySeq DEF FramesInv
<1>3. Incoming(card.rx) \in Seq(PacketsIn)
  <2>1. \A i \in 1..Len(card.rx) : card.rx[i] \in Stored
    BY <1>2, ElementOfSeq
  <2>2. /\ Incoming(card.rx) = [i \in 1..Len(card.rx) |->
                                   [out |-> FALSE, n |-> card.rx[i].n, f |-> card.rx[i].f]]
        /\ Len(card.rx) \in Nat
    BY <1>2 DEF Incoming
  <2>3. \A i \in 1..Len(card.rx) :
           [out |-> FALSE, n |-> card.rx[i].n, f |-> card.rx[i].f] \in PacketsIn
    BY <2>1 DEF Stored, PacketsIn
  <2> QED
    BY <2>2, <2>3
<1>4. PICK S : queue \in Seq(PacketsIn \union PacketsOut(S))
  BY DEF FramesInv
<1>5. queue \o Incoming(card.rx) \in Seq(PacketsIn \union PacketsOut(S))
  <2>1. Incoming(card.rx) \in Seq(PacketsIn \union PacketsOut(S))
    BY <1>3, SeqMonotonic
  <2> QED
    BY <1>4, <2>1, ConcatProperties
<1>6. queue' = queue \/ queue' = queue \o Incoming(card.rx)
  BY DEF Callback, HandlePackets
<1>7. \E T : queue' \in Seq(PacketsIn \union PacketsOut(T))
  BY <1>4, <1>5, <1>6
<1> QED
  BY <1>1, <1>2, <1>7 DEF FramesInv, Callback

LEMMA ArriveKeepsFrames ==
    ASSUME FramesInv, NEW f \in Frames, Arrive(f)
    PROVE  FramesInv'
<1>1. packets \in Nat /\ packets' = packets + 1 /\ UNCHANGED queue
  BY DEF FramesInv, Arrive
<1> DEFINE new == [f |-> f, n |-> packets']
<1>2. new \in Stored
  BY <1>1 DEF Stored
<1>3. CASE card' = [card EXCEPT !.rx = Append(@, new), !.isr = @ \union {"rx"}]
  <2>1. CardShaped' /\ card'.rx = Append(card.rx, new)
    BY <1>3 DEF FramesInv, CardShaped
  <2>2. card'.rx \in Seq(Stored)
    BY <1>2, <2>1, AppendProperties DEF FramesInv
  <2> QED
    BY <1>1, <2>1, <2>2 DEF FramesInv
<1>4. CASE UNCHANGED card
  <2>1. CardShaped' /\ card'.rx \in Seq(Stored) /\ packets' \in Nat
    BY <1>1, <1>4 DEF FramesInv, CardShaped
  <2>2. \E S : queue' \in Seq(PacketsIn \union PacketsOut(S))
    BY <1>1 DEF FramesInv
  <2> QED
    BY <2>1, <2>2 DEF FramesInv
<1> QED
  BY <1>3, <1>4 DEF Arrive

LEMMA NextKeepsFrames == FramesInv /\ [Next]_vars => FramesInv'
<1> SUFFICES ASSUME FramesInv, [Next]_vars PROVE FramesInv'
  OBVIOUS
<1>1. ASSUME QueueStep, UNCHANGED card, packets' = packets \/ packets' = packets + 1
      PROVE  FramesInv'
  <2>1. \E S : queue' \in Seq(PacketsIn \union PacketsOut(S))
    BY <1>1, QueueStepKeepsFrames
  <2>2. packets' \in Nat /\ CardShaped' /\ card'.rx \in Seq(Stored)
    BY <1>1 DEF FramesInv, CardShaped
  <2> QED
    BY <2>1, <2>2 DEF FramesInv
<1> USE DEF QueueStep
<1>2. CASE CardSends \/ Interrupt
  <2>1. CASE CardSends
    BY <2>1 DEF FramesInv, CardShaped, CardSends
  <2>2. CASE Interrupt
    BY <2>2 DEF FramesInv, CardShaped, Interrupt
  <2> QED
    BY <1>2, <2>1, <2>2
<1>3. CASE Callback
  BY <1>3, CallbackKeepsFrames
<1>4. ASSUME NEW f \in Frames, Arrive(f) PROVE FramesInv'
  BY <1>4, ArriveKeepsFrames
<1>5. CASE Tick
  BY <1>1, <1>5 DEF Tick
<1>6. CASE NetdStep
  <2>1. CardShaped' /\ card'.rx = card.rx /\ packets' = packets
    BY <1>6, NetdQueue DEF FramesInv, CardShaped, CardSend, NetdStep
  <2>2. \E S : queue' \in Seq(PacketsIn \union PacketsOut(S))
    BY <1>6, NetdQueue, QueueStepKeepsFrames
  <2> QED
    BY <2>1, <2>2 DEF FramesInv
<1>7. ASSUME NEW c \in Contexts, Wait(c) PROVE FramesInv'
  <2>1. QueueStep /\ UNCHANGED <<card, packets>>
    BY <1>7, WaitQueue DEF Wait
  <2> QED
    BY <1>1, <2>1
<1>8. ASSUME NEW p \in Programs, ConnectTo(p) PROVE FramesInv'
  <2>1. QueueStep /\ UNCHANGED <<card, packets>>
    BY <1>8, ResolveQueue DEF ConnectTo, Others
  <2> QED
    BY <1>1, <2>1
<1>9. ASSUME NEW p \in Programs, Socket(p) \/ RecvFrom(p) \/ Poll(p) PROVE FramesInv'
  BY <1>1, <1>9 DEF Socket, RecvFrom, Poll, Others
<1>10. ASSUME NEW p \in Programs, NEW t \in Timeouts, SetTimeout(p, t) PROVE FramesInv'
  BY <1>1, <1>10 DEF SetTimeout, Others
<1>11. ASSUME NEW p \in Programs, NEW port \in Ports, Bind(p, port) PROVE FramesInv'
  BY <1>1, <1>11 DEF Bind, Others
<1>12. ASSUME NEW p \in Programs, NEW t \in Targets, Connect(p, t) \/ SendTo(p, t)
       PROVE  FramesInv'
  <2>1. QueueStep /\ UNCHANGED card /\ (packets' = packets \/ packets' = packets + 1)
    BY <1>12 DEF Connect, SendTo, UdpWrite, Transmit, Others
  <2> QED
    BY <1>1, <2>1
<1>13. CASE UNCHANGED vars
  BY <1>1, <1>13 DEF vars
<1> QED
  BY <1>2, <1>3, <1>4, <1>5, <1>6, <1>7, <1>8, <1>9, <1>10, <1>11, <1>12, <1>13 DEF Next

-----------------------------------------------------------------------------
(* arp_table: filled from its first entry on, round. *)

Used(i) == arp.entries[i].addr # 0

TableInv ==
    /\ arp.top \in 1 .. TableSize
    /\ DOMAIN arp.entries = 1 .. TableSize
    /\ \A i \in 1 .. TableSize : Used(i) => arp.entries[i].mac # NoMac
    /\ \A i, j \in 1 .. TableSize : i < j /\ Used(j) => Used(i)
    /\ \A i \in 1 .. TableSize : i < arp.top => Used(i)

LEMMA SmallRemainder == \A a, b \in Nat : a < b => a % b = a
OBVIOUS

LEMMA StoreKeepsTable ==
    ASSUME TableInv, NEW f \in Frames, f.k = "answer", Store(f)
    PROVE  TableInv'
<1>1. f.from # 0 /\ f.mac # NoMac /\ TableSize \in Nat \ {0}
  BY PeersHaveAddresses, SizesPositive
<1>2. /\ arp'.top = (arp.top % TableSize) + 1
      /\ DOMAIN arp'.entries = 1 .. TableSize
      /\ \A i \in 1 .. TableSize :
            arp'.entries[i] = IF i = arp.top THEN [addr |-> f.from, mac |-> f.mac] ELSE arp.entries[i]
  BY DEF Store, TableInv
<1>3. /\ \A i \in 1 .. TableSize : Used(i)' <=> i = arp.top \/ Used(i)
      /\ \A i \in 1 .. TableSize : Used(i)' => arp'.entries[i].mac # NoMac
  BY <1>1, <1>2 DEF TableInv, Used
<1>4. CASE arp.top = TableSize
  <2>1. arp'.top = 1
    BY <1>1, <1>2, <1>4
  <2> QED
    BY <1>1, <1>2, <1>3, <1>4, <2>1 DEF TableInv
<1>5. CASE arp.top < TableSize
  <2>1. arp'.top = arp.top + 1
    BY <1>1, <1>2, <1>5, SmallRemainder DEF TableInv
  <2>2. \A i, j \in 1 .. TableSize : i < j /\ Used(j)' => Used(i)'
    BY <1>1, <1>3 DEF TableInv
  <2>3. \A i \in 1 .. TableSize : i < arp'.top => Used(i)'
    BY <1>1, <1>3, <2>1 DEF TableInv
  <2> QED
    BY <1>1, <1>2, <1>3, <1>5, <2>1, <2>2, <2>3 DEF TableInv
<1> QED
  BY <1>1, <1>4, <1>5 DEF TableInv

LEMMA InitTable == Init => TableInv
BY SizesPositive DEF Init, TableInv, Used

LEMMA NextKeepsTable == FramesInv /\ TableInv /\ [Next]_vars => TableInv'
<1> SUFFICES ASSUME FramesInv, TableInv, [Next]_vars PROVE TableInv'
  OBVIOUS
<1>1. CASE arp' = arp
  BY <1>1 DEF TableInv, Used
<1>2. CASE NetdStep
  <2>1. CASE Sniff /\ queue # <<>>
    <3>1. PICK S : queue \in Seq(PacketsIn \union PacketsOut(S))
      BY DEF FramesInv
    <3>2. Head(queue) \in PacketsIn \union PacketsOut(S)
      BY <2>1, <3>1
    <3>3. Head(queue).f \in Frames
      BY <2>1, <3>2 DEF Sniff, PacketsIn, PacketsOut
    <3>4. arp' = arp \/ (Head(queue).f.k = "answer" /\ Store(Head(queue).f))
      BY <2>1 DEF Sniff, UdpSniff, ArpResponder, IcmpResponder, Answer
    <3> QED
      BY <1>1, <3>3, <3>4, StoreKeepsTable
  <2>2. CASE Send
    BY <1>1, <2>2 DEF Send
  <2> QED
    BY <1>1, <1>2, <2>1, <2>2 DEF NetdStep, Propagate, Link, Reject
<1>3. CASE CardSends \/ Interrupt \/ Callback \/ Tick
  BY <1>1, <1>3 DEF CardSends, Interrupt, Callback, Tick
<1>4. ASSUME NEW f \in Frames, Arrive(f) PROVE TableInv'
  BY <1>1, <1>4 DEF Arrive
<1>5. ASSUME NEW c \in Contexts, Wait(c) PROVE TableInv'
  BY <1>1, <1>5 DEF Wait
<1>6. CASE Others
  BY <1>1, <1>6 DEF Others
<1>7. ASSUME NEW p \in Programs, Socket(p) \/ ConnectTo(p) \/ RecvFrom(p) \/ Poll(p)
      PROVE  TableInv'
  BY <1>6, <1>7 DEF Socket, ConnectTo, RecvFrom, Poll
<1>8. ASSUME NEW p \in Programs, NEW t \in Timeouts, SetTimeout(p, t) PROVE TableInv'
  BY <1>6, <1>8 DEF SetTimeout
<1>9. ASSUME NEW p \in Programs, NEW port \in Ports, Bind(p, port) PROVE TableInv'
  BY <1>6, <1>9 DEF Bind
<1>10. ASSUME NEW p \in Programs, NEW t \in Targets, Connect(p, t) \/ SendTo(p, t)
       PROVE  TableInv'
  BY <1>6, <1>10 DEF Connect, SendTo
<1>11. CASE UNCHANGED vars
  BY <1>1, <1>11 DEF vars
<1> QED
  BY <1>2, <1>3, <1>4, <1>5, <1>7, <1>8, <1>9, <1>10, <1>11 DEF Next

LEMMA LeastOfNaturals ==
    ASSUME NEW S \in SUBSET Nat, S # {}
    PROVE  Min(S) \in S /\ \A x \in S : Min(S) <= x
<1> DEFINE R == OpToRel(<, Nat)
<1>1. \A x, y \in Nat : <<y, x>> \in R <=> y < x
  BY DEF OpToRel
<1>2. IsWellFoundedOn(R, Nat)
  BY NatLessThanWellFounded
<1> HIDE DEF R
<1>3. PICK n \in S : \A y \in S : ~(<<y, n>> \in R)
  BY <1>2, WFMin
<1>4. ASSUME NEW x \in S PROVE n <= x
  <2>1. x \in Nat /\ n \in Nat
    OBVIOUS
  <2>2. ~(x < n)
    BY <1>1, <1>3, <2>1
  <2> QED
    BY <2>1, <2>2
<1> QED
  BY <1>4 DEF Min

LEMMA TableIsWhole == TableInv => TableWithoutHoles
<1> SUFFICES ASSUME TableInv, NEW i \in 1 .. TableSize, arp.entries[i].addr # 0
             PROVE  Lookup(arp.entries[i].addr) # NoMac
  BY DEF TableWithoutHoles
<1> DEFINE addr == arp.entries[i].addr
           hits == {j \in 1 .. TableSize : arp.entries[j].addr \in {0, addr}}
<1>1. i \in hits /\ hits \in SUBSET Nat
  OBVIOUS
<1>2. Min(hits) \in hits /\ Min(hits) <= i
  BY <1>1, LeastOfNaturals
<1>3. Used(Min(hits))
  <2>1. Min(hits) \in 1 .. TableSize /\ Used(i) /\ (Min(hits) = i \/ Min(hits) < i)
    BY <1>2, SizesPositive DEF Used
  <2> QED
    BY <2>1 DEF TableInv
<1>4. arp.entries[Min(hits)].mac # NoMac
  BY <1>2, <1>3 DEF TableInv
<1> QED
  BY <1>1, <1>3, <1>4 DEF Lookup, Used

(* However many answers come, in any order and any size of the table, arp_lookup,
   which stops at the first entry without an address, finds every entry's address:
   arp_responder leaves no such entry in front of one in use (net/arp.c). *)
THEOREM TableStaysWhole == Spec => []TableWithoutHoles
<1>1. Init => FramesInv /\ TableInv
  BY InitFrames, InitTable
<1>2. FramesInv /\ TableInv /\ [Next]_vars => FramesInv' /\ TableInv'
  BY NextKeepsFrames, NextKeepsTable
<1>3. TableInv => TableWithoutHoles
  BY TableIsWhole
<1> QED
  BY <1>1, <1>2, <1>3, PTL DEF Spec

-----------------------------------------------------------------------------
(* The send ring.  The driver's sending and sent and the card's next go round apart.  As long
   as every frame sent has had its interrupt, what the card may still read lies between next
   and sending, and what the driver holds is that and, until the interrupt, the one at sent. *)

NextSlot(i) == IF i = TxSlots - 1 THEN 0 ELSE i + 1

Within(x, a, b) == IF a <= b THEN a <= x /\ x < b ELSE a <= x \/ x < b

(* S is the slots from a up to b, round; none or all of them if a = b. *)
Round(a, b, S) ==
    /\ a \in Slots /\ b \in Slots /\ S \subseteq Slots
    /\ a # b => \A x \in Slots : x \in S <=> Within(x, a, b)
    /\ a = b => S = {} \/ S = Slots

RingInv ==
    ~lapped =>
        /\ ~card.twice
        /\ Round(card.next, card.sending, card.pending)
        /\ card.sent \in Slots
        /\ "tx" \in card.stat => "tx" \in card.isr
        /\ IF "tx" \in card.isr
           THEN /\ card.held = card.pending \union {card.sent}
                /\ card.sent \notin card.pending /\ card.next = NextSlot(card.sent)
           ELSE card.held = card.pending /\ card.next = card.sent

LEMMA SlotsGoRound ==
    ASSUME NEW i \in Slots
    PROVE  (i + 1) % TxSlots = NextSlot(i) /\ NextSlot(i) \in Slots
<1>1. TxSlots \in Nat \ {0} /\ i \in Nat /\ i < TxSlots
  BY SizesPositive DEF Slots
<1>2. CASE i = TxSlots - 1
  <2>1. (i + 1) % TxSlots = 0
    BY <1>1, <1>2
  <2> QED
    BY <1>1, <1>2, <2>1 DEF NextSlot, Slots
<1>3. CASE i # TxSlots - 1
  <2>1. i + 1 \in Nat /\ i + 1 < TxSlots
    BY <1>1, <1>3
  <2>2. (i + 1) % TxSlots = i + 1
    BY <1>1, <2>1, SmallRemainder
  <2> QED
    BY <1>1, <1>3, <2>1, <2>2 DEF NextSlot, Slots
<1> QED
  BY <1>2, <1>3

LEMMA RoundFrom ==
    ASSUME NEW a \in Slots, NEW b \in Slots, NEW S \in SUBSET Slots, a # b,
           \A x \in Slots : x \in S <=> Within(x, a, b)
    PROVE  Round(a, b, S)
BY DEF Round

(* The first slot is taken out, and a slot is put in at the end. *)
LEMMA FirstOut ==
    ASSUME NEW a, NEW b, NEW S, Round(a, b, S), S # {}
    PROVE  a \in S /\ Round(NextSlot(a), b, S \ {a})
<1>1. TxSlots \in Nat \ {0} /\ a \in Slots /\ b \in Slots /\ S \subseteq Slots
  BY SizesPositive DEF Round
<1>2. NextSlot(a) \in Slots
  BY <1>1, SlotsGoRound
<1>3. a # b => \A x \in Slots : x \in S <=> Within(x, a, b)
  BY DEF Round
<1>4. a = b => S = Slots
  BY DEF Round
<1>5. \A x \in Slots : x \in Nat /\ x < TxSlots
  BY <1>1 DEF Slots
<1>6. a \in S
  <2>1. a # b => Within(a, a, b)
    BY <1>1, <1>5 DEF Within
  <2> QED
    BY <1>1, <1>3, <1>4, <2>1
<1>7. CASE NextSlot(a) # b
  <2>1. a # b => \A x \in Slots : Within(x, NextSlot(a), b) <=> Within(x, a, b) /\ x # a
    BY <1>1, <1>5, <1>7 DEF Within, NextSlot
  <2>2. a = b => \A x \in Slots : Within(x, NextSlot(a), b) <=> x # a
    BY <1>1, <1>5, <1>7 DEF Within, NextSlot
  <2>3. \A x \in Slots : x \in S \ {a} <=> Within(x, NextSlot(a), b)
    BY <1>3, <1>4, <2>1, <2>2
  <2> QED
    BY <1>1, <1>2, <1>6, <1>7, <2>3, RoundFrom
<1>8. CASE NextSlot(a) = b
  <2>1. \A x \in Slots : a # b /\ Within(x, a, b) => x = a
    BY <1>1, <1>5, <1>8 DEF Within, NextSlot
  <2>2. a = b => \A x \in Slots : x = a
    BY <1>1, <1>5, <1>8 DEF NextSlot
  <2>3. S \ {a} = {}
    BY <1>1, <1>3, <1>4, <2>1, <2>2
  <2> QED
    BY <1>1, <1>2, <1>6, <1>8, <2>3 DEF Round
<1> QED
  BY <1>6, <1>7, <1>8

LEMMA OneIn ==
    ASSUME NEW a, NEW b, NEW S, Round(a, b, S), b \notin S
    PROVE  Round(a, NextSlot(b), S \union {b})
<1>1. TxSlots \in Nat \ {0} /\ a \in Slots /\ b \in Slots /\ S \subseteq Slots
  BY SizesPositive DEF Round
<1>2. NextSlot(b) \in Slots
  BY <1>1, SlotsGoRound
<1>3. CASE NextSlot(b) # a
  <2>1. \A x \in Slots : x \in S \union {b} <=> Within(x, a, NextSlot(b))
    BY <1>1, <1>3 DEF Round, Within, Slots, NextSlot
  <2> QED
    BY <1>1, <1>2, <1>3, <2>1, RoundFrom
<1>4. CASE NextSlot(b) = a
  <2>1. \A x \in Slots : x \in S \union {b}
    BY <1>1, <1>4 DEF Round, Within, Slots, NextSlot
  <2> QED
    BY <1>1, <1>2, <1>4, <2>1 DEF Round
<1> QED
  BY <1>3, <1>4

LEMMA InitRing == Init => RingInv
<1>1. 0 \in Slots
  BY SizesPositive DEF Slots
<1> QED
  BY <1>1 DEF Init, RingInv, Round

LEMMA CardSendsRing ==
    ASSUME CardShaped, RingInv, CardSends
    PROVE  RingInv'
<1> SUFFICES ASSUME ~lapped' PROVE RingInv'
  BY DEF RingInv
<1>1. ~lapped /\ "tx" \notin card.isr
  BY DEF CardSends
<1> DEFINE a == card.next
           b == card.sending
           S == card.pending
<1>2. ~card.twice /\ Round(a, b, S) /\ card.held = S /\ a = card.sent /\ a \in Slots
  BY <1>1 DEF RingInv, Round
<1>3. PICK i \in S :
         /\ a \in S => i = a
         /\ card' = [card EXCEPT !.pending = @ \ {i}, !.next = (i + 1) % TxSlots,
                                 !.isr = @ \union {"tx"}]
  BY DEF CardSends
<1>4. a \in S /\ Round(NextSlot(a), b, S \ {a})
  BY <1>2, <1>3, FirstOut
<1>5. i = a /\ (i + 1) % TxSlots = NextSlot(a)
  BY <1>2, <1>3, <1>4, SlotsGoRound
<1>6. /\ card'.pending = S \ {a} /\ card'.next = NextSlot(a) /\ card'.sending = b
      /\ card'.held = card.held /\ card'.sent = card.sent /\ card'.twice = card.twice
      /\ "tx" \in card'.isr
  BY <1>3, <1>5 DEF CardShaped
<1> HIDE DEF a, b, S
<1>7. card'.held = card'.pending \union {card'.sent}
  BY <1>2, <1>4, <1>6
<1>8. Round(card'.next, card'.sending, card'.pending)
  BY <1>4, <1>6
<1> QED
  BY <1>2, <1>6, <1>7, <1>8 DEF RingInv

(* net_transmit's packet goes to the card. *)
LEMMA CardSendRing ==
    ASSUME CardShaped, RingInv, card' = CardSend(card), lapped' = (lapped \/ card.sending \in card.held)
    PROVE  RingInv'
<1> SUFFICES ASSUME ~lapped' PROVE RingInv'
  BY DEF RingInv
<1>1. ~lapped /\ card.sending \notin card.held
  OBVIOUS
<1> DEFINE b == card.sending
           S == card.pending
<1>2. /\ ~card.twice /\ Round(card.next, b, S) /\ b \in Slots /\ b \notin S
      /\ "tx" \in card.isr => card.sent # b
  BY <1>1 DEF RingInv, Round
<1>3. /\ card'.pending = S \union {b} /\ card'.held = card.held \union {b}
      /\ card'.sending = NextSlot(b) /\ card'.next = card.next /\ card'.sent = card.sent
      /\ card'.twice = card.twice /\ card'.isr = card.isr /\ card'.stat = card.stat
  BY <1>2, SlotsGoRound DEF CardShaped, CardSend
<1>4. Round(card.next, NextSlot(b), S \union {b})
  BY <1>2, OneIn
<1>5. Round(card'.next, card'.sending, card'.pending)
  BY <1>3, <1>4
<1>6. CASE "tx" \in card.isr
  <2>1. card.held = S \union {card.sent} /\ card.sent \notin S /\ card.next = NextSlot(card.sent)
    BY <1>1, <1>6 DEF RingInv
  <2>2. card'.held = card'.pending \union {card'.sent} /\ card'.sent \notin card'.pending
    BY <1>2, <1>3, <1>6, <2>1
  <2> QED
    BY <1>1, <1>2, <1>3, <1>5, <1>6, <2>1, <2>2 DEF RingInv
<1>7. CASE "tx" \notin card.isr
  <2>1. card.held = S /\ card.next = card.sent
    BY <1>1, <1>7 DEF RingInv
  <2>2. card'.held = card'.pending
    BY <1>3, <2>1
  <2> QED
    BY <1>1, <1>2, <1>3, <1>5, <1>7, <2>1, <2>2 DEF RingInv
<1> QED
  BY <1>6, <1>7

LEMMA CallbackRing ==
    ASSUME CardShaped, RingInv, Callback
    PROVE  RingInv'
<1> SUFFICES ASSUME ~lapped' PROVE RingInv'
  BY DEF RingInv
<1>1. ~lapped /\ ("tx" \in card.isr => "tx" \in card.stat)
  BY DEF Callback
<1>2. ~card.twice /\ Round(card.next, card.sending, card.pending) /\ card.sent \in Slots
  BY <1>1 DEF RingInv
<1> DEFINE c == [card EXCEPT !.irq = FALSE, !.isr = {}, !.stat = {},
                             !.rx = IF "rx" \in card.stat THEN <<>> ELSE @]
<1>3. /\ c.pending = card.pending /\ c.held = card.held /\ c.next = card.next
      /\ c.sending = card.sending /\ c.sent = card.sent /\ c.twice = card.twice
      /\ c.isr = {} /\ c.stat = {}
  BY DEF CardShaped
<1>4. CASE "tx" \in card.stat
  <2>1. /\ card.held = card.pending \union {card.sent}
        /\ card.sent \notin card.pending /\ card.next = NextSlot(card.sent)
    BY <1>1, <1>4 DEF RingInv
  <2>2. card' = FreeSent(c)
    BY <1>4 DEF Callback
  <2>3. /\ card'.pending = card.pending /\ card'.held = card.held \ {card.sent}
        /\ card'.next = card.next /\ card'.sending = card.sending
        /\ card'.sent = NextSlot(card.sent)
        /\ card'.twice = (card.twice \/ card.sent \notin card.held)
        /\ card'.isr = {} /\ card'.stat = {}
    BY <1>2, <2>2, SlotsGoRound DEF CardShaped, FreeSent
  <2>4. card'.held = card'.pending /\ card'.next = card'.sent /\ ~card'.twice
    BY <1>2, <2>1, <2>3
  <2>5. card'.sent \in Slots
    BY <1>2, <2>3, SlotsGoRound
  <2> QED
    BY <1>2, <2>3, <2>4, <2>5 DEF RingInv
<1>5. CASE "tx" \notin card.stat
  <2>1. card.held = card.pending /\ card.next = card.sent
    BY <1>1, <1>5 DEF RingInv
  <2>2. card' = c
    BY <1>5 DEF Callback
  <2> HIDE DEF c
  <2> QED
    BY <1>2, <1>3, <2>1, <2>2 DEF RingInv
<1> QED
  BY <1>4, <1>5

(* A step that moves no slot. *)
LEMMA RingUntouched ==
    ASSUME RingInv, UNCHANGED lapped,
           UNCHANGED <<card.pending, card.held, card.next, card.sending, card.sent, card.twice>>,
           "tx" \in card'.isr <=> "tx" \in card.isr,
           "tx" \in card'.stat => "tx" \in card.isr
    PROVE  RingInv'
BY DEF RingInv

LEMMA NextKeepsRing == FramesInv /\ RingInv /\ [Next]_vars => RingInv'
<1> SUFFICES ASSUME FramesInv, RingInv, [Next]_vars PROVE RingInv'
  OBVIOUS
<1>1. CardShaped
  BY DEF FramesInv
<1>2. CASE UNCHANGED <<card, lapped>>
  BY <1>2 DEF RingInv
<1>3. CASE CardSends \/ Callback
  BY <1>1, <1>3, CardSendsRing, CallbackRing
<1>4. CASE Interrupt
  <2>1. UNCHANGED lapped /\ card' = [card EXCEPT !.irq = TRUE, !.stat = card.isr]
    BY <1>4 DEF Interrupt
  <2>2. UNCHANGED <<card.pending, card.held, card.next, card.sending, card.sent, card.twice>>
        /\ card'.isr = card.isr /\ card'.stat = card.isr
    BY <1>1, <2>1 DEF CardShaped
  <2> QED
    BY <2>1, <2>2, RingUntouched
<1>5. ASSUME NEW f \in Frames, Arrive(f) PROVE RingInv'
  <2>1. UNCHANGED lapped
    BY <1>5 DEF Arrive
  <2>2. CASE UNCHANGED card
    BY <1>2, <2>1, <2>2
  <2>3. ASSUME NEW rx, card' = [card EXCEPT !.rx = rx, !.isr = @ \union {"rx"}]
        PROVE  RingInv'
    <3>1. UNCHANGED <<card.pending, card.held, card.next, card.sending, card.sent, card.twice>>
          /\ card'.isr = card.isr \union {"rx"} /\ card'.stat = card.stat
      BY <1>1, <2>3 DEF CardShaped
    <3>2. lapped \/ ("tx" \in card.stat => "tx" \in card.isr)
      BY DEF RingInv
    <3> QED
      BY <2>1, <3>1, <3>2, RingUntouched DEF RingInv
  <2> QED
    BY <1>5, <2>2, <2>3 DEF Arrive
<1>6. CASE NetdStep
  <2>1. CASE Send
    BY <1>1, <2>1, CardSendRing DEF Send
  <2> QED
    BY <1>2, <1>6, <2>1 DEF NetdStep, Sniff, Propagate, Link, Reject
<1>7. CASE Tick
  BY <1>2, <1>7 DEF Tick
<1>8. ASSUME NEW c \in Contexts, Wait(c) PROVE RingInv'
  BY <1>2, <1>8 DEF Wait
<1>9. CASE Others
  BY <1>2, <1>9 DEF Others
<1>10. ASSUME NEW p \in Programs, Socket(p) \/ ConnectTo(p) \/ RecvFrom(p) \/ Poll(p)
       PROVE  RingInv'
  BY <1>9, <1>10 DEF Socket, ConnectTo, RecvFrom, Poll
<1>11. ASSUME NEW p \in Programs, NEW t \in Timeouts, SetTimeout(p, t) PROVE RingInv'
  BY <1>9, <1>11 DEF SetTimeout
<1>12. ASSUME NEW p \in Programs, NEW port \in Ports, Bind(p, port) PROVE RingInv'
  BY <1>9, <1>12 DEF Bind
<1>13. ASSUME NEW p \in Programs, NEW t \in Targets, Connect(p, t) \/ SendTo(p, t)
       PROVE  RingInv'
  BY <1>9, <1>13 DEF Connect, SendTo
<1>14. CASE UNCHANGED vars
  BY <1>2, <1>14 DEF vars
<1> QED
  BY <1>3, <1>4, <1>5, <1>6, <1>7, <1>8, <1>10, <1>11, <1>12, <1>13, <1>14 DEF Next

(* As long as every sent frame has an interrupt of its own and netd does not lap the card, the
   driver frees the buffers in the order the card sends them, each once and none before it
   was sent: for any number of descriptors (rtl8139_send_packet, rtl8139_callback). *)
THEOREM BuffersOutliveSending == Spec => []SendBuffersKept
<1>1. Init => FramesInv /\ RingInv
  BY InitFrames, InitRing
<1>2. FramesInv /\ RingInv /\ [Next]_vars => FramesInv' /\ RingInv'
  BY NextKeepsFrames, NextKeepsRing
<1>3. RingInv => SendBuffersKept
  BY DEF RingInv, SendBuffersKept
<1> QED
  BY <1>1, <1>2, <1>3, PTL DEF Spec

-----------------------------------------------------------------------------
(* Sockets, their clients and the descriptors of programs. *)

IsSeq(s) == \E S : s \in Seq(S)

LEMMA SeqParts ==
    ASSUME NEW s, IsSeq(s)
    PROVE  Len(s) \in Nat /\ DOMAIN s = 1 .. Len(s)
BY DEF IsSeq

LEMMA SeqAppend ==
    ASSUME NEW s, IsSeq(s), NEW e
    PROVE  /\ IsSeq(Append(s, e)) /\ Len(Append(s, e)) = Len(s) + 1
           /\ DOMAIN Append(s, e) = 1 .. Len(s) + 1
           /\ Append(s, e)[Len(s) + 1] = e
           /\ \A i \in 1 .. Len(s) : Append(s, e)[i] = s[i]
<1>1. PICK S : s \in Seq(S)
  BY DEF IsSeq
<1> DEFINE T == S \union {e}
<1>2. s \in Seq(T) /\ e \in T
  BY <1>1, SeqMonotonic
<1> HIDE DEF T
<1> QED
  BY <1>2, AppendProperties DEF IsSeq

LEMMA SeqExcept ==
    ASSUME NEW s, IsSeq(s), NEW t, DOMAIN t = DOMAIN s, t = [i \in DOMAIN t |-> t[i]]
    PROVE  IsSeq(t) /\ Len(t) = Len(s)
<1> DEFINE T == {t[i] : i \in DOMAIN t}
<1>1. Len(s) \in Nat /\ DOMAIN t = 1 .. Len(s)
  BY SeqParts
<1>2. \A i \in 1 .. Len(s) : t[i] \in T
  BY <1>1
<1> HIDE DEF T
<1>3. [i \in 1 .. Len(s) |-> t[i]] \in Seq(T)
  BY <1>1, <1>2
<1>4. t \in Seq(T) /\ Len(t) = Len(s)
  BY <1>1, <1>3
<1> QED
  BY <1>4 DEF IsSeq

LEMMA SeqTail ==
    ASSUME NEW s, IsSeq(s), s # <<>>
    PROVE  /\ IsSeq(Tail(s)) /\ Len(Tail(s)) = Len(s) - 1 /\ Len(s) > 0
           /\ Head(s) = s[1]
           /\ \A i \in 1 .. Len(s) - 1 : Tail(s)[i] = s[i + 1]
<1>1. PICK S : s \in Seq(S)
  BY DEF IsSeq
<1>2. Tail(s) \in Seq(S) /\ Len(Tail(s)) = Len(s) - 1 /\ Len(s) > 0 /\ Head(s) = s[1]
  BY <1>1
<1>3. \A i \in 1 .. Len(s) - 1 : Tail(s)[i] = s[i + 1]
  BY <1>1
<1> QED
  BY <1>2, <1>3 DEF IsSeq

(* socket_get_client finds the client of a peer, if there is one. *)
LEMMA OwnerFound ==
    ASSUME NEW s, NEW f, IsSeq(s.clients)
    PROVE  LET cs == s.clients
               is(k) == cs[k].addr = f.from /\ cs[k].port = f.sport
           IN  /\ Owner(s, f) = 0 => \A k \in DOMAIN cs : ~is(k)
               /\ Owner(s, f) # 0 => Owner(s, f) \in DOMAIN cs /\ is(Owner(s, f))
<1> DEFINE cs == s.clients
           hits == {k \in 1 .. Len(cs) : cs[k].addr = f.from /\ cs[k].port = f.sport}
<1>1. Len(cs) \in Nat /\ DOMAIN cs = 1 .. Len(cs)
  BY SeqParts
<1>2. Owner(s, f) = IF hits # {} THEN Min(hits) ELSE 0
  BY DEF Owner, SelectInSeq
<1>3. hits \in SUBSET Nat
  BY <1>1
<1>4. hits # {} => Min(hits) \in hits
  BY <1>3, LeastOfNaturals
<1> QED
  BY <1>1, <1>2, <1>4

ClientShaped(c) ==
    /\ c = [addr |-> c.addr, port |-> c.port, mac |-> c.mac, packets |-> c.packets]
    /\ IsSeq(c.packets)

SocketShaped(s) ==
    /\ s = [port |-> s.port, timeout |-> s.timeout, clients |-> s.clients]
    /\ IsSeq(s.clients) /\ \A k \in DOMAIN s.clients : ClientShaped(s.clients[k])

(* No client of s goes, or becomes another peer's. *)
Grown(s, t) ==
    /\ SocketShaped(t) /\ DOMAIN s.clients \subseteq DOMAIN t.clients
    /\ \A k \in DOMAIN s.clients :
          t.clients[k].addr = s.clients[k].addr /\ t.clients[k].port = s.clients[k].port

Once(s) ==
    \A k, l \in DOMAIN s.clients :
        s.clients[k].addr = s.clients[l].addr /\ s.clients[k].port = s.clients[l].port => k = l

(* A client that is appended, and one whose packets change. *)
LEMMA ClientAppended ==
    ASSUME NEW s, SocketShaped(s), NEW c, ClientShaped(c),
           NEW t, t = [s EXCEPT !.clients = Append(@, c)]
    PROVE  /\ Grown(s, t) /\ DOMAIN t.clients = 1 .. Len(s.clients) + 1
           /\ DOMAIN s.clients = 1 .. Len(s.clients) /\ Len(s.clients) \in Nat
           /\ \A k \in DOMAIN s.clients : t.clients[k] = s.clients[k]
           /\ t.clients[Len(s.clients) + 1] = c
<1>1. IsSeq(s.clients) /\ Len(s.clients) \in Nat /\ DOMAIN s.clients = 1 .. Len(s.clients)
  BY SeqParts DEF SocketShaped
<1>2. t.clients = Append(s.clients, c) /\ t = [port |-> t.port, timeout |-> t.timeout, clients |-> t.clients]
  BY DEF SocketShaped
<1>3. /\ IsSeq(t.clients) /\ DOMAIN t.clients = 1 .. Len(s.clients) + 1
      /\ t.clients[Len(s.clients) + 1] = c
      /\ \A k \in 1 .. Len(s.clients) : t.clients[k] = s.clients[k]
  BY <1>1, <1>2, SeqAppend
<1>4. \A k \in DOMAIN t.clients : ClientShaped(t.clients[k])
  BY <1>1, <1>3 DEF SocketShaped
<1> QED
  BY <1>1, <1>2, <1>3, <1>4 DEF Grown, SocketShaped

LEMMA NoSuchClient ==
    ASSUME NEW s, SocketShaped(s), NEW i, i \notin DOMAIN s.clients, NEW ps,
           NEW t, t = [s EXCEPT !.clients[i].packets = ps]
    PROVE  t = s
<1>1. s.clients = [k \in DOMAIN s.clients |-> s.clients[k]]
  BY DEF SocketShaped, IsSeq
<1>2. PICK a, b, cs : s = [port |-> a, timeout |-> b, clients |-> cs]
  BY DEF SocketShaped
<1>3. t = [port |-> a, timeout |-> b, clients |-> [cs EXCEPT ![i] = [cs[i] EXCEPT !.packets = ps]]]
  BY <1>2
<1>4. cs = s.clients
  BY <1>2
<1> DEFINE c == [cs[i] EXCEPT !.packets = ps]
<1> HIDE DEF c
<1>5. [cs EXCEPT ![i] = c] = cs
  BY <1>1, <1>4
<1> QED
  BY <1>2, <1>3, <1>5 DEF c

LEMMA PacketsSet ==
    ASSUME NEW s, SocketShaped(s), NEW i \in DOMAIN s.clients, NEW ps, IsSeq(ps),
           NEW t, t = [s EXCEPT !.clients[i].packets = ps]
    PROVE  /\ Grown(s, t) /\ DOMAIN t.clients = DOMAIN s.clients
           /\ t.clients[i].packets = ps
           /\ \A k \in DOMAIN s.clients : k # i => t.clients[k] = s.clients[k]
           /\ Once(s) => Once(t)
<1>1. IsSeq(s.clients)
  BY DEF SocketShaped
<1>2. /\ t = [port |-> t.port, timeout |-> t.timeout, clients |-> t.clients]
      /\ t.clients = [s.clients EXCEPT ![i] = [s.clients[i] EXCEPT !.packets = ps]]
  BY DEF SocketShaped
<1>3. ClientShaped(s.clients[i])
  BY DEF SocketShaped
<1> DEFINE c == [s.clients[i] EXCEPT !.packets = ps]
<1>4. /\ ClientShaped(c) /\ c.packets = ps
      /\ c.addr = s.clients[i].addr /\ c.port = s.clients[i].port
  BY <1>3 DEF ClientShaped
<1> HIDE DEF c
<1>5. /\ DOMAIN t.clients = DOMAIN s.clients
      /\ t.clients = [k \in DOMAIN t.clients |-> t.clients[k]]
      /\ t.clients[i] = c
      /\ \A k \in DOMAIN s.clients : k # i => t.clients[k] = s.clients[k]
  BY <1>2 DEF c
<1>6. IsSeq(t.clients)
  BY <1>1, <1>5, SeqExcept
<1>7. \A k \in DOMAIN s.clients :
         /\ ClientShaped(t.clients[k])
         /\ t.clients[k].addr = s.clients[k].addr /\ t.clients[k].port = s.clients[k].port
  BY <1>4, <1>5 DEF SocketShaped
<1>8. SocketShaped(t)
  BY <1>2, <1>5, <1>6, <1>7 DEF SocketShaped
<1>9. Once(s) => Once(t)
  BY <1>5, <1>7 DEF Once
<1> QED
  BY <1>4, <1>5, <1>7, <1>8, <1>9 DEF Grown

(* A client for a peer that has none. *)
LEMMA PeerAdded ==
    ASSUME NEW s, SocketShaped(s), NEW f, Owner(s, f) = 0,
           NEW c, ClientShaped(c), c.addr = f.from, c.port = f.sport,
           NEW t, t = [s EXCEPT !.clients = Append(@, c)]
    PROVE  Once(s) => Once(t)
<1> SUFFICES ASSUME Once(s) PROVE Once(t)
  OBVIOUS
<1> DEFINE m == Len(s.clients) + 1
           same(x, k, l) == x.clients[k].addr = x.clients[l].addr
                            /\ x.clients[k].port = x.clients[l].port
<1>1. /\ DOMAIN t.clients = 1 .. Len(s.clients) + 1
      /\ DOMAIN s.clients = 1 .. Len(s.clients) /\ Len(s.clients) \in Nat
      /\ \A k \in DOMAIN s.clients : t.clients[k] = s.clients[k]
      /\ t.clients[Len(s.clients) + 1] = c
  BY ClientAppended
<1>2. \A k \in DOMAIN s.clients : ~(s.clients[k].addr = f.from /\ s.clients[k].port = f.sport)
  BY OwnerFound DEF SocketShaped
<1>3. \A k \in DOMAIN t.clients : k \in DOMAIN s.clients \/ k = m
  BY <1>1
<1>4. \A k, l \in DOMAIN s.clients : same(t, k, l) => k = l
  BY <1>1 DEF Once
<1>5. \A k \in DOMAIN s.clients : ~same(t, k, m) /\ ~same(t, m, k)
  BY <1>1, <1>2
<1>6. \A k, l \in DOMAIN t.clients : same(t, k, l) => k = l
  BY <1>3, <1>4, <1>5
<1> QED
  BY <1>6 DEF Once

FdShaped(d) ==
    /\ d = [open |-> d.open, sock |-> d.sock, client |-> d.client, port |-> d.port,
            flags |-> d.flags, timeout |-> d.timeout]
    /\ d.flags \subseteq {"server", "connected"}

LEMMA FdPort ==
    ASSUME NEW d, FdShaped(d), NEW v, NEW w
    PROVE  LET r == [open |-> d.open, sock |-> v, client |-> d.client, port |-> w,
                     flags |-> d.flags, timeout |-> d.timeout]
           IN  [d EXCEPT !.sock = v, !.port = w] = r
<1>1. PICK e : e = [d EXCEPT !.sock = v, !.port = w]
  OBVIOUS
<1>2. PICK o, s, c, p, f, t :
         d = [open |-> o, sock |-> s, client |-> c, port |-> p, flags |-> f, timeout |-> t]
  BY DEF FdShaped
<1>3. e = [open |-> o, sock |-> v, client |-> c, port |-> w, flags |-> f, timeout |-> t]
  BY <1>1, <1>2
<1> QED
  BY <1>1, <1>2, <1>3

LEMMA FdFlags ==
    ASSUME NEW d, FdShaped(d), NEW v, NEW x
    PROVE  LET r == [open |-> d.open, sock |-> v, client |-> d.client, port |-> d.port,
                     flags |-> x, timeout |-> d.timeout]
           IN  [d EXCEPT !.sock = v, !.flags = x] = r
<1>1. PICK e : e = [d EXCEPT !.sock = v, !.flags = x]
  OBVIOUS
<1>2. PICK o, s, c, p, f, t :
         d = [open |-> o, sock |-> s, client |-> c, port |-> p, flags |-> f, timeout |-> t]
  BY DEF FdShaped
<1>3. e = [open |-> o, sock |-> v, client |-> c, port |-> p, flags |-> x, timeout |-> t]
  BY <1>1, <1>2
<1> QED
  BY <1>1, <1>2, <1>3

Descriptors == fd = [p \in Programs |-> fd[p]] /\ \A p \in Programs : FdShaped(fd[p])

SocketsShaped == IsSeq(sockets) /\ \A i \in DOMAIN sockets : SocketShaped(sockets[i])

Connecting(t) == t.pc \in {"connect", "resolve"}

(* Place and descriptor of a program that fit together; ss are the sockets. *)
Well(t, d, ss) ==
    /\ d.sock \in {0} \union DOMAIN ss
    /\ d.flags # {} \/ Connecting(t) => d.sock # 0
    /\ Connecting(t) => d.flags = {}
    /\ t.pc = "poll" => d.flags # {}
    /\ d.flags # {} /\ "server" \notin d.flags => d.client \in DOMAIN ss[d.sock].clients

(* Nobody gives a server's socket a client but socket_queue_packet. *)
Apart(p, q) == "server" \in fd[p].flags /\ Connecting(th[q]) => fd[p].sock # fd[q].sock

KnowsOnce(p) == "server" \in fd[p].flags => Once(sockets[fd[p].sock])

SocketInv ==
    /\ Threads /\ Descriptors /\ SocketsShaped
    /\ \A p \in Programs : Well(th[p], fd[p], sockets) /\ KnowsOnce(p)
    /\ \A p, q \in Programs : Apart(p, q)

(* The datagram netd has in hand. *)
WorkShaped ==
    /\ work = [f |-> work.f, n |-> work.n, at |-> work.at, told |-> work.told,
               client |-> work.client, list |-> work.list]
    /\ work.at \in Nat /\ IsSeq(work.list)

Serving == th[Netd].pc \in {"serve", "link"}

(* What a step does to the datagram netd has in hand. *)
HandOver ==
    /\ collided \subseteq collided'
    /\ \/ (Serving <=> Serving') /\ UNCHANGED work
       \/ ~Serving'
       \/ /\ ~Serving /\ queue # <<>> /\ ~Head(queue).out /\ queue' = Tail(queue)
          /\ work'.n = Head(queue).n /\ UNCHANGED <<card, packets>>
       \/ Serving /\ Serving' /\ work'.n = work.n /\ work'.at >= work.at

SocketsGrow ==
    /\ SocketsShaped' /\ DOMAIN sockets \subseteq DOMAIN sockets'
    /\ \A i \in DOMAIN sockets : Grown(sockets[i], sockets'[i])

LEMMA SocketsKept ==
    ASSUME SocketInv, UNCHANGED sockets
    PROVE  SocketsGrow
BY DEF SocketInv, SocketsShaped, SocketsGrow, Grown

LEMMA NoSocketZero ==
    ASSUME SocketInv
    PROVE  0 \notin DOMAIN sockets /\ DOMAIN sockets = 1 .. Len(sockets) /\ Len(sockets) \in Nat
BY SeqParts DEF SocketInv, SocketsShaped

LEMMA WellGrows ==
    ASSUME SocketInv, SocketsGrow, NEW p \in Programs, NEW t,
           Connecting(t) => Connecting(th[p]),
           t.pc = "poll" => th[p].pc = "poll" \/ fd[p].flags # {}
    PROVE  Well(t, fd[p], sockets')
<1> DEFINE d == fd[p]
<1>1. Well(th[p], d, sockets) /\ 0 \notin DOMAIN sockets
  BY NoSocketZero DEF SocketInv
<1>2. d.sock \in DOMAIN sockets => DOMAIN sockets[d.sock].clients \subseteq DOMAIN sockets'[d.sock].clients
  BY DEF SocketsGrow, Grown
<1>3. DOMAIN sockets \subseteq DOMAIN sockets'
  BY DEF SocketsGrow
<1>4. /\ d.sock \in {0} \union DOMAIN sockets
      /\ d.flags # {} \/ Connecting(th[p]) => d.sock # 0
      /\ Connecting(th[p]) => d.flags = {}
      /\ th[p].pc = "poll" => d.flags # {}
      /\ d.flags # {} /\ "server" \notin d.flags => d.client \in DOMAIN sockets[d.sock].clients
  BY <1>1 DEF Well
<1> HIDE DEF d
<1>5. /\ d.sock \in {0} \union DOMAIN sockets'
      /\ d.flags # {} \/ Connecting(t) => d.sock # 0
      /\ Connecting(t) => d.flags = {}
  BY <1>3, <1>4
<1>6. t.pc = "poll" => d.flags # {}
  BY <1>4 DEF d
<1>7. d.flags # {} /\ "server" \notin d.flags => d.client \in DOMAIN sockets'[d.sock].clients
  BY <1>2, <1>4
<1> QED
  BY <1>5, <1>6, <1>7 DEF Well, d

(* A step of one program, p, whose descriptor becomes d. *)
LEMMA OwnStep ==
    ASSUME SocketInv, SocketsGrow, NEW p \in Programs, NEW t, Shaped(t), NEW d, FdShaped(d),
           th' = [th EXCEPT ![p] = t], fd' = [fd EXCEPT ![p] = d],
           Well(t, d, sockets'), "server" \in d.flags => Once(sockets'[d.sock]),
           \A q \in Programs \ {p} :
              /\ KnowsOnce(q) => KnowsOnce(q)'
              /\ "server" \in d.flags /\ Connecting(th[q]) => d.sock # fd[q].sock
              /\ "server" \in fd[q].flags /\ Connecting(t) => d.sock # fd[q].sock
    PROVE  SocketInv'
<1>1. /\ Threads /\ Descriptors /\ \A q \in Programs : KnowsOnce(q)
      /\ \A q, r \in Programs : Apart(q, r)
  BY DEF SocketInv
<1>2. p \in Contexts /\ Programs \subseteq Contexts
  BY DEF Contexts
<1>3. Threads' /\ th'[p] = t /\ \A q \in Programs \ {p} : th'[q] = th[q]
  BY <1>1, <1>2, SetThread
<1>4. Descriptors' /\ fd'[p] = d /\ \A q \in Programs \ {p} : fd'[q] = fd[q]
  BY <1>1 DEF Descriptors
<1>5. \A q \in Programs : Well(th'[q], fd'[q], sockets')
  <2> SUFFICES ASSUME NEW q \in Programs PROVE Well(th'[q], fd'[q], sockets')
    OBVIOUS
  <2>1. CASE q = p
    BY <1>3, <1>4, <2>1
  <2>2. CASE q # p
    BY <1>3, <1>4, <2>2, WellGrows
  <2> QED
    BY <2>1, <2>2
<1>6. \A q \in Programs : KnowsOnce(q)'
  BY <1>1, <1>4 DEF KnowsOnce
<1>7. ~Connecting(t) \/ "server" \notin d.flags
  BY DEF Well
<1>8. \A q, r \in Programs : Apart(q, r)'
  <2> SUFFICES ASSUME NEW q \in Programs, NEW r \in Programs PROVE Apart(q, r)'
    OBVIOUS
  <2>1. CASE q = p /\ r = p
    BY <1>3, <1>4, <1>7, <2>1 DEF Apart
  <2>2. CASE q = p /\ r # p
    BY <1>3, <1>4, <2>2 DEF Apart
  <2>3. CASE q # p /\ r = p
    BY <1>3, <1>4, <2>3 DEF Apart
  <2>4. CASE q # p /\ r # p
    BY <1>1, <1>3, <1>4, <2>4 DEF Apart
  <2> QED
    BY <2>1, <2>2, <2>3, <2>4
<1>9. SocketsShaped'
  BY DEF SocketsGrow
<1> QED
  BY <1>3, <1>4, <1>5, <1>6, <1>8, <1>9 DEF SocketInv

(* A step that changes no descriptor and makes no program connect. *)
LEMMA SharedStep ==
    ASSUME SocketInv, SocketsGrow, Threads', UNCHANGED fd,
           \A p \in Programs :
              /\ Connecting(th'[p]) => Connecting(th[p])
              /\ th'[p].pc = "poll" => th[p].pc = "poll" \/ fd[p].flags # {}
              /\ KnowsOnce(p) => KnowsOnce(p)'
    PROVE  SocketInv'
<1>1. \A p \in Programs : Well(th'[p], fd'[p], sockets')
  BY WellGrows
<1>2. Descriptors' /\ SocketsShaped' /\ \A p \in Programs : KnowsOnce(p)'
  BY DEF SocketInv, Descriptors, SocketsGrow
<1>3. \A p, q \in Programs : Apart(p, q)'
  BY DEF SocketInv, Apart
<1> QED
  BY <1>1, <1>2, <1>3 DEF SocketInv

LEMMA SocketSet ==
    ASSUME SocketInv, NEW i \in DOMAIN sockets, NEW t, Grown(sockets[i], t),
           sockets' = [sockets EXCEPT ![i] = t]
    PROVE  /\ SocketsGrow /\ DOMAIN sockets' = DOMAIN sockets /\ sockets'[i] = t
           /\ \A j \in DOMAIN sockets : j # i => sockets'[j] = sockets[j]
<1>1. IsSeq(sockets) /\ \A j \in DOMAIN sockets : SocketShaped(sockets[j])
  BY DEF SocketInv, SocketsShaped
<1>2. /\ DOMAIN sockets' = DOMAIN sockets /\ sockets' = [j \in DOMAIN sockets' |-> sockets'[j]]
      /\ sockets'[i] = t /\ \A j \in DOMAIN sockets : j # i => sockets'[j] = sockets[j]
  OBVIOUS
<1>3. IsSeq(sockets')
  BY <1>1, <1>2, SeqExcept
<1>4. \A j \in DOMAIN sockets : Grown(sockets[j], sockets'[j])
  BY <1>1, <1>2 DEF Grown
<1>5. \A j \in DOMAIN sockets' : SocketShaped(sockets'[j])
  BY <1>2, <1>4 DEF Grown
<1> QED
  BY <1>2, <1>3, <1>4, <1>5 DEF SocketsGrow, SocketsShaped

LEMMA SocketAdded ==
    ASSUME SocketInv, NEW port, NEW timeout, sockets' = Append(sockets, NewSocket(port, timeout))
    PROVE  /\ SocketsGrow /\ DOMAIN sockets' = 1 .. Len(sockets) + 1
           /\ Len(sockets') = Len(sockets) + 1 /\ Len(sockets) + 1 \notin DOMAIN sockets
           /\ sockets'[Len(sockets) + 1].clients = <<>>
           /\ \A j \in DOMAIN sockets : sockets'[j] = sockets[j]
<1> DEFINE s == NewSocket(port, timeout)
<1>1. /\ IsSeq(sockets) /\ \A j \in DOMAIN sockets : SocketShaped(sockets[j])
      /\ DOMAIN sockets = 1 .. Len(sockets) /\ Len(sockets) \in Nat
  BY NoSocketZero DEF SocketInv, SocketsShaped
<1>2. s.clients = <<>> /\ SocketShaped(s)
  <2>1. IsSeq(<<>>) /\ DOMAIN <<>> = {}
    <3>1. <<>> \in Seq({})
      OBVIOUS
    <3> QED
      BY <3>1 DEF IsSeq
  <2> QED
    BY <2>1 DEF SocketShaped, NewSocket
<1> HIDE DEF s
<1>3. sockets' = Append(sockets, s)
  BY DEF s
<1>4. /\ IsSeq(sockets') /\ Len(sockets') = Len(sockets) + 1
      /\ DOMAIN sockets' = 1 .. Len(sockets) + 1 /\ sockets'[Len(sockets) + 1] = s
      /\ \A j \in 1 .. Len(sockets) : sockets'[j] = sockets[j]
  BY <1>1, <1>3, SeqAppend
<1>5. \A j \in DOMAIN sockets : Grown(sockets[j], sockets'[j])
  BY <1>1, <1>4 DEF Grown
<1>6. \A j \in DOMAIN sockets' : SocketShaped(sockets'[j])
  BY <1>1, <1>2, <1>4
<1> QED
  BY <1>1, <1>2, <1>4, <1>5, <1>6 DEF SocketsGrow, SocketsShaped

(* A step that leaves the sockets and the descriptors alone. *)
LEMMA ThreadsOnly ==
    ASSUME SocketInv, Threads', UNCHANGED <<fd, sockets>>,
           \A p \in Programs :
              /\ Connecting(th'[p]) => Connecting(th[p])
              /\ th'[p].pc = "poll" => th[p].pc = "poll" \/ fd[p].flags # {}
    PROVE  SocketInv'
<1>1. SocketsGrow /\ \A p \in Programs : KnowsOnce(p) => KnowsOnce(p)'
  BY SocketsKept DEF KnowsOnce
<1> QED
  BY <1>1, SharedStep

LEMMA OneThread ==
    ASSUME SocketInv, UNCHANGED <<fd, sockets>>, NEW c \in Contexts, NEW t, Shaped(t),
           th' = [th EXCEPT ![c] = t],
           c \in Programs => (Connecting(t) => Connecting(th[c])),
           c \in Programs => (t.pc = "poll" => fd[c].flags # {})
    PROVE  SocketInv'
<1>1. Threads' /\ th'[c] = t /\ \A q \in Contexts \ {c} : th'[q] = th[q]
  BY SetThread DEF SocketInv
<1>2. \A p \in Programs : p = c \/ p \in Contexts \ {c}
  BY DEF Contexts
<1> QED
  BY <1>1, <1>2, ThreadsOnly

LEMMA ResolvedSockets ==
    ASSUME SocketInv, NEW c \in Contexts, NEW addr, NEW mac, Resolved(c, addr, mac),
           c \in Programs => Connecting(th[c])
    PROVE  SocketInv'
<1>1. th' = [th EXCEPT ![c] = Idle] /\ Shaped(Idle) /\ ~Connecting(Idle) /\ Idle.pc # "poll"
  BY ShapedIdle DEF Resolved, Connecting
<1>2. CASE c = Netd
  <2>1. UNCHANGED <<sockets, fd>>
    BY <1>2 DEF Resolved
  <2> QED
    BY <1>1, <2>1, OneThread
<1>3. CASE c \in Programs /\ c # Netd
  <2> DEFINE i == fd[c].sock
             s == sockets[i]
             client == NewClient(addr, fd[c].port, mac, <<>>)
             t == [s EXCEPT !.clients = Append(@, client)]
             d == [fd[c] EXCEPT !.client = Len(t.clients), !.flags = @ \union {"connected"}]
  <2>1. Connecting(th[c]) /\ Well(th[c], fd[c], sockets) /\ FdShaped(fd[c])
    BY <1>3 DEF SocketInv, Descriptors
  <2>2. i \in DOMAIN sockets /\ fd[c].flags = {} /\ SocketShaped(s)
    BY <2>1 DEF Well, SocketInv, SocketsShaped
  <2>3. ClientShaped(client)
    <3>1. <<>> \in Seq({})
      OBVIOUS
    <3>2. IsSeq(<<>>)
      BY <3>1 DEF IsSeq
    <3> QED
      BY <3>2 DEF ClientShaped, NewClient
  <2>4. sockets' = [sockets EXCEPT ![i] = t]
    BY <1>3 DEF Resolved
  <2> HIDE DEF client
  <2>5. /\ Grown(s, t) /\ DOMAIN t.clients = 1 .. Len(s.clients) + 1 /\ Len(s.clients) \in Nat
    BY <2>2, <2>3, ClientAppended
  <2>6. IsSeq(t.clients) /\ Len(t.clients) \in DOMAIN t.clients
    <3>1. IsSeq(t.clients)
      BY <2>5 DEF Grown, SocketShaped
    <3> QED
      BY <2>5, <3>1, SeqParts
  <2>7. /\ SocketsGrow /\ DOMAIN sockets' = DOMAIN sockets /\ sockets'[i] = t
        /\ \A j \in DOMAIN sockets : j # i => sockets'[j] = sockets[j]
    BY <2>2, <2>4, <2>5, SocketSet
  <2>8. fd' = [fd EXCEPT ![c] = d]
    <3>1. fd' = [fd EXCEPT ![c].client = Len(sockets'[i].clients),
                           ![c].flags = @ \union {"connected"}]
      BY <1>3 DEF Resolved
    <3>2. fd = [p \in Programs |-> fd[p]]
      BY DEF SocketInv, Descriptors
    <3> QED
      BY <1>3, <2>7, <3>1, <3>2
  <2>9. /\ FdShaped(d) /\ d.flags = {"connected"} /\ d.sock = i /\ d.client = Len(t.clients)
    <3> DEFINE m == Len(t.clients)
    <3>1. d = [fd[c] EXCEPT !.client = m, !.flags = @ \union {"connected"}]
      OBVIOUS
    <3> HIDE DEF m, d
    <3>2. /\ fd[c] = [open |-> fd[c].open, sock |-> fd[c].sock, client |-> fd[c].client,
                      port |-> fd[c].port, flags |-> fd[c].flags, timeout |-> fd[c].timeout]
          /\ fd[c].flags = {}
      BY <2>1, <2>2 DEF FdShaped
    <3>3. d = [open |-> fd[c].open, sock |-> fd[c].sock, client |-> m,
               port |-> fd[c].port, flags |-> {"connected"}, timeout |-> fd[c].timeout]
      BY <3>1, <3>2
    <3>4. d.client = m /\ d.sock = i /\ d.flags = {"connected"} /\ FdShaped(d)
      BY <3>3 DEF FdShaped
    <3> QED
      BY <3>4 DEF m
  <2> HIDE DEF t, d
  <2>10. Well(Idle, d, sockets')
    BY <1>1, <2>2, <2>6, <2>7, <2>9, NoSocketZero DEF Well
  <2>11. \A q \in Programs \ {c} : KnowsOnce(q) => KnowsOnce(q)'
    <3> SUFFICES ASSUME NEW q \in Programs \ {c}, KnowsOnce(q), "server" \in fd[q].flags
                 PROVE  Once(sockets'[fd[q].sock])
      BY <2>8 DEF KnowsOnce, SocketInv, Descriptors
    <3>1. fd[q].sock # i
      BY <1>3, <2>1 DEF SocketInv, Apart
    <3>2. fd[q].sock \in DOMAIN sockets
      BY DEF SocketInv, Well
    <3> QED
      BY <2>7, <3>1, <3>2 DEF KnowsOnce
  <2> QED
    BY <1>1, <1>3, <2>7, <2>8, <2>9, <2>10, <2>11, OwnStep
<1> QED
  BY <1>2, <1>3 DEF Contexts

LEMMA ResolveSockets ==
    ASSUME SocketInv, NEW c \in Contexts, NEW addr, Resolve(c, addr),
           c \in Programs => Connecting(th[c])
    PROVE  SocketInv'
<1>1. CASE \E mac : Resolved(c, addr, mac)
  BY <1>1, ResolvedSockets
<1>2. CASE UNCHANGED <<sockets, fd>> /\ th' = [th EXCEPT ![c] = Waiting(addr, 1)]
  BY <1>2, OneThread, ShapedWaiting
<1> QED
  BY <1>1, <1>2 DEF Resolve

LEMMA WaitSockets ==
    ASSUME SocketInv, NEW c \in Contexts, Wait(c)
    PROVE  SocketInv'
<1>1. th[c].pc = "resolve" /\ (Look(c) \/ WaitEnds(c)) /\ Connecting(th[c])
  BY DEF Wait, Connecting
<1>2. CASE \E mac : Resolved(c, th[c].addr, mac)
  BY <1>1, <1>2, ResolvedSockets
<1>3. CASE /\ UNCHANGED <<sockets, fd>>
           /\ th' = [th EXCEPT ![c] = Waiting(th[c].addr, th[c].tries + 1)]
  BY <1>1, <1>3, OneThread, ShapedWaiting
<1> QED
  BY <1>1, <1>2, <1>3 DEF Look, WaitEnds

LEMMA SocketsUntouched ==
    ASSUME SocketInv, UNCHANGED <<th, fd, sockets>>
    PROVE  SocketInv'
<1>1. Threads'
  BY DEF SocketInv, Threads
<1> QED
  BY <1>1, ThreadsOnly

(* netd moves, and no program. *)
LEMMA NetdMoves ==
    ASSUME Threads, \/ UNCHANGED th
                    \/ \E pc, addr : th' = [th EXCEPT ![Netd] = Standing(pc, addr, 0)]
    PROVE  Threads' /\ \A p \in Programs : th'[p] = th[p]
<1>1. Netd \in Contexts /\ \A p \in Programs : p \in Contexts \ {Netd}
  BY NetdIsNoProgram DEF Contexts
<1>2. CASE UNCHANGED th
  BY <1>2 DEF Threads
<1>3. ASSUME NEW pc, NEW addr, th' = [th EXCEPT ![Netd] = Standing(pc, addr, 0)]
      PROVE  Threads' /\ \A p \in Programs : th'[p] = th[p]
  <2> DEFINE t == Standing(pc, addr, 0)
  <2>1. Shaped(t) /\ th' = [th EXCEPT ![Netd] = t]
    BY <1>3, ShapedStanding
  <2> HIDE DEF t
  <2> QED
    BY <1>1, <2>1, SetThread
<1> QED
  BY <1>2, <1>3

(* Socket i becomes t, which has netd's datagram: in a new client, or in the packets of one;
   if not, a program has taken from these meanwhile. *)
Served(i, t) ==
    /\ i \in DOMAIN sockets /\ sockets' = [sockets EXCEPT ![i] = t]
    /\ Grown(sockets[i], t) /\ (Once(sockets[i]) => Once(t))
    /\ i >= work.at /\ work'.at = i + 1 /\ work'.n = work.n
    /\ i \in collided' \/ \A k \in DOMAIN t.clients :
          \/ k \in DOMAIN sockets[i].clients /\ t.clients[k].packets = sockets[i].clients[k].packets
          \/ /\ k \in DOMAIN sockets[i].clients
             /\ t.clients[k].packets = Append(sockets[i].clients[k].packets, UserPacket)
          \/ k \notin DOMAIN sockets[i].clients /\ t.clients[k].packets = <<UserPacket>>

LEMMA PropagateServes ==
    ASSUME SocketInv, WorkShaped, Propagate
    PROVE  UNCHANGED sockets \/ (UNCHANGED th /\ \E i, t : Served(i, t))
<1> DEFINE left == {i \in Matching(work.f) : i >= work.at}
           i == Min(left)
           s == sockets[i]
           f == work.f
           c == NewClient(f.from, f.sport, f.mac, <<UserPacket>>)
           t == [s EXCEPT !.clients = Append(@, c)]
<1>1. left = {} => UNCHANGED sockets
  BY DEF Propagate
<1>2. left # {} => QueuePacket(i)
  BY DEF Propagate
<1>3. CASE left # {} /\ Owner(s, f) = 0
  <2>1. left \in SUBSET Nat /\ left \subseteq DOMAIN sockets
    BY NoSocketZero DEF Matching
  <2>2. i \in left /\ i \in DOMAIN sockets /\ i >= work.at
    BY <1>3, <2>1, LeastOfNaturals
  <2>3. /\ sockets' = [sockets EXCEPT ![i] = t] /\ UNCHANGED th
        /\ work' = [work EXCEPT !.at = i + 1, !.told = TRUE]
    BY <1>2, <1>3 DEF QueuePacket
  <2>4. SocketShaped(s)
    BY <2>2 DEF SocketInv, SocketsShaped
  <2>5. <<UserPacket>> \in Seq({UserPacket})
    OBVIOUS
  <2>6. /\ ClientShaped(c) /\ c.packets = <<UserPacket>> /\ c.addr = f.from /\ c.port = f.sport
    BY <2>5 DEF ClientShaped, NewClient, IsSeq
  <2>7. work'.at = i + 1 /\ work'.n = work.n
    BY <2>3 DEF WorkShaped
  <2> HIDE DEF c, i, f
  <2>8. /\ Grown(s, t) /\ DOMAIN t.clients = 1 .. Len(s.clients) + 1
        /\ DOMAIN s.clients = 1 .. Len(s.clients) /\ Len(s.clients) \in Nat
        /\ \A k \in DOMAIN s.clients : t.clients[k] = s.clients[k]
        /\ t.clients[Len(s.clients) + 1] = c
    BY <2>4, <2>6, ClientAppended
  <2>9. Once(s) => Once(t)
    BY <1>3, <2>4, <2>6, PeerAdded
  <2> HIDE DEF t
  <2>10. \A k \in DOMAIN t.clients :
           \/ k \in DOMAIN s.clients /\ t.clients[k].packets = s.clients[k].packets
           \/ k \notin DOMAIN s.clients /\ t.clients[k].packets = <<UserPacket>>
    BY <2>6, <2>8
  <2>11. Served(i, t)
    BY <2>2, <2>3, <2>7, <2>8, <2>9, <2>10 DEF Served
  <2> QED
    BY <2>3, <2>11
<1>4. CASE left # {} /\ Owner(s, f) # 0
  BY <1>2, <1>4 DEF QueuePacket
<1> QED
  BY <1>1, <1>3, <1>4

LEMMA LinkServes ==
    ASSUME SocketInv, WorkShaped, Link
    PROVE  UNCHANGED sockets \/ \E t : Served(work.at, t)
<1> DEFINE i == work.at
           k == work.client
           list == sockets[i].clients[k].packets
<1>1. PICK kept \in {work.list, list} :
         sockets' = [sockets EXCEPT ![i].clients[k].packets = Append(kept, UserPacket)]
  BY DEF Link
<1> DEFINE ps == Append(kept, UserPacket)
           t == [sockets[i] EXCEPT !.clients[k].packets = ps]
<1>2. work'.at = i + 1 /\ work'.n = work.n /\ i >= work.at
  BY DEF Link, WorkShaped
<1>3. list = work.list \/ i \in collided'
  BY DEF Link
<1>4. sockets' = [sockets EXCEPT ![i] = t]
  BY <1>1
<1>5. sockets = [j \in DOMAIN sockets |-> sockets[j]]
  BY DEF SocketInv, SocketsShaped, IsSeq
<1>6. CASE i \notin DOMAIN sockets
  <2> HIDE DEF t, i
  <2> QED
    BY <1>4, <1>5, <1>6
<1>7. CASE i \in DOMAIN sockets /\ k \notin DOMAIN sockets[i].clients
  <2>1. SocketShaped(sockets[i])
    BY <1>7 DEF SocketInv, SocketsShaped
  <2>2. t = [sockets[i] EXCEPT !.clients[k].packets = ps]
    OBVIOUS
  <2> HIDE DEF t, i, k, ps
  <2>3. t = sockets[i]
    BY <1>7, <2>1, <2>2, NoSuchClient
  <2> QED
    BY <1>4, <1>5, <2>3
<1>8. CASE i \in DOMAIN sockets /\ k \in DOMAIN sockets[i].clients
  <2>1. SocketShaped(sockets[i])
    BY <1>8 DEF SocketInv, SocketsShaped
  <2>2. IsSeq(list) /\ IsSeq(work.list)
    BY <1>8, <2>1 DEF SocketShaped, ClientShaped, WorkShaped
  <2>3. IsSeq(ps)
    BY <2>2, SeqAppend
  <2> DEFINE x == UserPacket
  <2>4. kept = list \/ i \in collided'
    BY <1>3
  <2>5. ps = Append(kept, x)
    OBVIOUS
  <2> HIDE DEF ps, x
  <2>6. t = [sockets[i] EXCEPT !.clients[k].packets = ps]
    OBVIOUS
  <2> HIDE DEF t, i, k
  <2>7. /\ Grown(sockets[i], t) /\ DOMAIN t.clients = DOMAIN sockets[i].clients
        /\ t.clients[k].packets = ps
        /\ \A l \in DOMAIN sockets[i].clients : l # k => t.clients[l] = sockets[i].clients[l]
        /\ Once(sockets[i]) => Once(t)
    BY ONLY <1>8, <2>1, <2>3, <2>6, PacketsSet
  <2>8. i \in collided' \/ \A l \in DOMAIN t.clients :
           /\ l \in DOMAIN sockets[i].clients
           /\ \/ t.clients[l].packets = sockets[i].clients[l].packets
              \/ t.clients[l].packets = Append(sockets[i].clients[l].packets, x)
    BY <2>4, <2>5, <2>7 DEF list
  <2>9. Served(i, t)
    BY <1>2, <1>4, <1>8, <2>7, <2>8 DEF Served, x
  <2> QED
    BY <2>9 DEF i
<1> QED
  BY <1>6, <1>7, <1>8

LEMMA NetdSockets ==
    ASSUME SocketInv, WorkShaped, NetdStep
    PROVE  SocketInv'
<1>1. CASE Send
  BY <1>1, SocketsUntouched DEF Send
<1>2. ASSUME UNCHANGED fd, UNCHANGED sockets \/ \E i, t : Served(i, t), Propagate \/ Link \/ \E f, n : UdpSniff(f, n)
      PROVE  SocketInv'
  <2>1. Threads' /\ \A p \in Programs : th'[p] = th[p]
    BY <1>2, ServingThread, NetdMoves DEF SocketInv
  <2>2. CASE UNCHANGED sockets
    BY <1>2, <2>1, <2>2, ThreadsOnly
  <2>3. ASSUME NEW i, NEW t, Served(i, t) PROVE SocketInv'
    <3>1. /\ i \in DOMAIN sockets /\ sockets' = [sockets EXCEPT ![i] = t]
          /\ Grown(sockets[i], t) /\ (Once(sockets[i]) => Once(t))
      BY <2>3 DEF Served
    <3>2. /\ SocketsGrow /\ sockets'[i] = t
          /\ \A j \in DOMAIN sockets : j # i => sockets'[j] = sockets[j]
      BY <3>1, SocketSet
    <3>3. ASSUME NEW p \in Programs, KnowsOnce(p), "server" \in fd[p].flags
          PROVE  Once(sockets'[fd[p].sock])
      <4>1. fd[p].sock \in DOMAIN sockets
        BY <3>3 DEF SocketInv, Well
      <4> QED
        BY <3>1, <3>2, <3>3, <4>1 DEF KnowsOnce
    <3>4. \A p \in Programs : KnowsOnce(p) => KnowsOnce(p)'
      BY <1>2, <3>3 DEF KnowsOnce
    <3> QED
      BY <1>2, <2>1, <3>2, <3>4, SharedStep
  <2> QED
    BY <1>2, <2>2, <2>3
<1>3. CASE Sniff
  <2> DEFINE f == Head(queue).f
  <2>1. UNCHANGED <<th, fd, sockets>> \/ (UdpSniff(f, Head(queue).n) /\ UNCHANGED <<fd, sockets>>)
    BY <1>3 DEF Sniff, UdpSniff, ArpResponder, IcmpResponder, Answer
  <2> QED
    BY <1>2, <2>1, SocketsUntouched
<1>4. CASE Propagate
  BY <1>2, <1>4, PropagateServes DEF Propagate
<1>5. CASE Link
  BY <1>2, <1>5, LinkServes DEF Link
<1>6. CASE Reject
  <2>1. Resolve(Netd, th[Netd].addr)
    BY <1>6 DEF Reject
  <2> QED
    BY <2>1, ResolveSockets, NetdIsNoProgram DEF Contexts
<1> QED
  BY <1>1, <1>3, <1>4, <1>5, <1>6 DEF NetdStep

LEMMA TickSockets ==
    ASSUME SocketInv, Tick
    PROVE  SocketInv'
<1>1. /\ UNCHANGED <<fd, sockets>>
      /\ th' = [c \in Contexts |-> [th[c] EXCEPT !.left = IF @ > 0 THEN @ - 1 ELSE 0]]
  BY DEF Tick
<1>2. \A c \in Contexts : Shaped(th'[c]) /\ th'[c].pc = th[c].pc
  BY <1>1 DEF SocketInv, Threads, Shaped
<1>3. Threads'
  BY <1>1, <1>2 DEF Threads
<1>4. \A p \in Programs : Connecting(th'[p]) => Connecting(th[p])
  BY <1>2 DEF Connecting, Contexts
<1>5. \A p \in Programs : th'[p].pc = "poll" => th[p].pc = "poll"
  BY <1>2 DEF Contexts
<1> QED
  BY <1>1, <1>3, <1>4, <1>5, ThreadsOnly

LEMMA InitSockets == Init => SocketInv
<1> SUFFICES ASSUME Init PROVE SocketInv
  OBVIOUS
<1>1. Threads /\ \A c \in Contexts : th[c].pc = "run"
  BY ShapedIdle DEF Init, Threads
<1>2. Descriptors /\ \A p \in Programs : fd[p].sock = 0 /\ fd[p].flags = {}
  BY DEF Init, Descriptors, FdShaped, NoFd
<1>3. SocketsShaped
  <2>1. sockets \in Seq({}) /\ DOMAIN sockets = {}
    BY DEF Init
  <2> QED
    BY <2>1 DEF SocketsShaped, IsSeq
<1>4. \A p \in Programs : Well(th[p], fd[p], sockets) /\ KnowsOnce(p)
  BY <1>1, <1>2 DEF Well, KnowsOnce, Connecting, Contexts
<1>5. \A p, q \in Programs : Apart(p, q)
  BY <1>2 DEF Apart
<1> QED
  BY <1>1, <1>2, <1>3, <1>4, <1>5 DEF SocketInv

(* A step of a program that stays where it is. *)
LEMMA ThreadStays ==
    ASSUME SocketInv, UNCHANGED th, NEW p \in Programs
    PROVE  th' = [th EXCEPT ![p] = th[p]] /\ Shaped(th[p])
BY DEF SocketInv, Threads, Contexts

LEMMA SocketCall ==
    ASSUME SocketInv, NEW p \in Programs, Socket(p)
    PROVE  SocketInv'
<1> DEFINE d == [NoFd EXCEPT !.open = TRUE]
<1>1. UNCHANGED <<th, sockets>> /\ th[p].pc = "run" /\ fd' = [fd EXCEPT ![p] = d]
  BY DEF Socket
<1>2. FdShaped(d) /\ d.sock = 0 /\ d.flags = {}
  <2>1. d = [NoFd EXCEPT !.open = TRUE]
    OBVIOUS
  <2> HIDE DEF d
  <2>2. PICK o, s, c, q, f, t :
          /\ NoFd = [open |-> o, sock |-> s, client |-> c, port |-> q, flags |-> f, timeout |-> t]
          /\ s = 0 /\ f = {}
    BY DEF NoFd
  <2>3. d = [open |-> TRUE, sock |-> s, client |-> c, port |-> q, flags |-> f, timeout |-> t]
    BY <2>1, <2>2
  <2> QED
    BY <2>2, <2>3 DEF FdShaped
<1> HIDE DEF d
<1>3. SocketsGrow /\ \A q \in Programs : KnowsOnce(q) => q = p \/ KnowsOnce(q)'
  BY <1>1, SocketsKept DEF KnowsOnce, SocketInv, Descriptors
<1>4. th' = [th EXCEPT ![p] = th[p]] /\ Shaped(th[p]) /\ ~Connecting(th[p])
  BY <1>1, ThreadStays DEF Connecting
<1>5. Well(th[p], d, sockets')
  BY <1>1, <1>2, <1>4 DEF Well
<1> QED
  BY <1>1, <1>2, <1>3, <1>4, <1>5, OwnStep

LEMMA SetTimeoutSockets ==
    ASSUME SocketInv, NEW p \in Programs, NEW t, SetTimeout(p, t)
    PROVE  SocketInv'
<1> DEFINE i == fd[p].sock
           d == [fd[p] EXCEPT !.timeout = t]
           s == [sockets[i] EXCEPT !.timeout = t]
<1>1. /\ UNCHANGED th /\ th[p].pc = "run"
      /\ sockets' = IF i = 0 THEN sockets ELSE [sockets EXCEPT ![i] = s]
      /\ fd' = [fd EXCEPT ![p] = d]
  BY DEF SetTimeout
<1>2. FdShaped(fd[p]) /\ Well(th[p], fd[p], sockets) /\ KnowsOnce(p)
  BY DEF SocketInv, Descriptors
<1>3. /\ FdShaped(d) /\ d.sock = i /\ d.flags = fd[p].flags /\ d.client = fd[p].client
  BY <1>2 DEF FdShaped
<1> HIDE DEF d
<1>4. SocketsGrow /\ \A j \in DOMAIN sockets : sockets'[j].clients = sockets[j].clients
  <2>1. CASE i = 0
    BY <1>1, <2>1, SocketsKept
  <2>2. CASE i # 0
    <3>1. i \in DOMAIN sockets /\ SocketShaped(sockets[i])
      BY <1>2, <2>2 DEF Well, SocketInv, SocketsShaped
    <3>2. s.clients = sockets[i].clients /\ Grown(sockets[i], s)
      BY <3>1 DEF SocketShaped, Grown
    <3> HIDE DEF s
    <3>3. sockets' = [sockets EXCEPT ![i] = s]
      BY <1>1, <2>2
    <3>4. /\ SocketsGrow /\ sockets'[i] = s
          /\ \A j \in DOMAIN sockets : j # i => sockets'[j] = sockets[j]
      BY <3>1, <3>2, <3>3, SocketSet
    <3> QED
      BY <3>2, <3>4
  <2> QED
    BY <2>1, <2>2
<1>5. ASSUME NEW q \in Programs, KnowsOnce(q), "server" \in fd[q].flags
      PROVE  fd[q].sock \in DOMAIN sockets /\ Once(sockets'[fd[q].sock])
  <2>1. fd[q].sock \in DOMAIN sockets
    BY <1>5 DEF SocketInv, Well
  <2> QED
    BY <1>4, <1>5, <2>1 DEF KnowsOnce, Once
<1>6. \A q \in Programs \ {p} : KnowsOnce(q) => KnowsOnce(q)'
  BY <1>1, <1>5 DEF KnowsOnce, SocketInv, Descriptors
<1>7. th' = [th EXCEPT ![p] = th[p]] /\ Shaped(th[p])
  BY <1>1, ThreadStays
<1>8. Well(th[p], fd[p], sockets') /\ ~Connecting(th[p])
  BY <1>1, <1>2, <1>4, WellGrows DEF Connecting, Well
<1>9. Well(th[p], d, sockets')
  BY <1>3, <1>8 DEF Well
<1>10. "server" \in d.flags => Once(sockets'[d.sock])
  BY <1>2, <1>3, <1>5
<1>11. \A q \in Programs \ {p} : "server" \in d.flags /\ Connecting(th[q]) => d.sock # fd[q].sock
  BY <1>3 DEF SocketInv, Apart
<1> QED
  BY <1>1, <1>3, <1>4, <1>6, <1>7, <1>8, <1>9, <1>10, <1>11, OwnStep

(* What bind and connect have in common: p has a new socket, which is nobody else's. *)
LEMMA NewSocketStep ==
    ASSUME SocketInv, NEW p \in Programs, NEW t, Shaped(t), NEW d, FdShaped(d),
           NEW port, NEW timeout, sockets' = Append(sockets, NewSocket(port, timeout)),
           th' = [th EXCEPT ![p] = t], fd' = [fd EXCEPT ![p] = d], d.sock = Len(sockets'),
           t.pc # "poll", Connecting(t) => d.flags = {},
           d.flags # {} => "server" \in d.flags
    PROVE  SocketInv'
<1> DEFINE new == Len(sockets) + 1
<1>1. /\ SocketsGrow /\ new \in DOMAIN sockets' /\ new \notin DOMAIN sockets /\ d.sock = new
      /\ sockets'[new].clients = <<>> /\ \A j \in DOMAIN sockets : sockets'[j] = sockets[j]
      /\ new # 0
  BY SocketAdded, NoSocketZero
<1> HIDE DEF new
<1>2. Well(t, d, sockets')
  BY <1>1 DEF Well
<1>3. Once(sockets'[d.sock])
  BY <1>1 DEF Once
<1>4. ASSUME NEW q \in Programs \ {p}
      PROVE  /\ "server" \in fd[q].flags \/ Connecting(th[q]) => fd[q].sock \in DOMAIN sockets
             /\ KnowsOnce(q) => KnowsOnce(q)'
  <2>1. "server" \in fd[q].flags \/ Connecting(th[q]) => fd[q].sock \in DOMAIN sockets
    BY DEF SocketInv, Well
  <2>2. fd'[q] = fd[q]
    BY <1>4 DEF SocketInv, Descriptors
  <2> QED
    BY <1>1, <2>1, <2>2 DEF KnowsOnce
<1> QED
  BY <1>1, <1>2, <1>3, <1>4, OwnStep

LEMMA BindSockets ==
    ASSUME SocketInv, NEW p \in Programs, NEW port, Bind(p, port)
    PROVE  SocketInv'
<1> DEFINE new == Len(sockets')
           d == [fd[p] EXCEPT !.sock = new, !.flags = {"server"}]
<1>1. /\ UNCHANGED th /\ th[p].pc = "run"
      /\ sockets' = Append(sockets, NewSocket(port, fd[p].timeout))
      /\ fd' = [fd EXCEPT ![p].sock = new, ![p].flags = {"server"}]
  BY DEF Bind, Unused
<1>2. FdShaped(fd[p]) /\ fd = [q \in Programs |-> fd[q]]
  BY DEF SocketInv, Descriptors
<1> HIDE DEF new
<1>3. FdShaped(d) /\ d.sock = new /\ d.flags = {"server"}
  <2> DEFINE flags == {"server"}
  <2>1. flags \in SUBSET {"server", "connected"} /\ flags = {"server"}
    OBVIOUS
  <2>2. d = [fd[p] EXCEPT !.sock = new, !.flags = flags]
    OBVIOUS
  <2> HIDE DEF d, flags
  <2>3. d = [open |-> fd[p].open, sock |-> new, client |-> fd[p].client, port |-> fd[p].port,
             flags |-> flags, timeout |-> fd[p].timeout]
    BY <1>2, <2>2, FdFlags
  <2> QED
    BY <2>1, <2>3 DEF FdShaped
<1>4. fd' = [fd EXCEPT ![p] = d]
  BY <1>1, <1>2
<1> HIDE DEF d
<1>5. th' = [th EXCEPT ![p] = th[p]] /\ Shaped(th[p]) /\ ~Connecting(th[p])
  BY <1>1, ThreadStays DEF Connecting
<1> QED
  BY <1>1, <1>3, <1>4, <1>5, NewSocketStep DEF new

LEMMA ConnectSockets ==
    ASSUME SocketInv, NEW p \in Programs, NEW target, Connect(p, target)
    PROVE  SocketInv'
<1> DEFINE new == Len(sockets')
           d == [fd[p] EXCEPT !.sock = new, !.port = target.port]
           t == Standing("connect", target.addr, 0)
<1>1. /\ th' = [th EXCEPT ![p] = t] /\ fd[p].flags = {}
      /\ sockets' = Append(sockets, NewSocket(EphemeralPort, fd[p].timeout))
      /\ fd' = [fd EXCEPT ![p].sock = new, ![p].port = target.port]
  BY DEF Connect, Unused
<1>2. FdShaped(fd[p]) /\ fd = [q \in Programs |-> fd[q]]
  BY DEF SocketInv, Descriptors
<1> HIDE DEF new
<1>3. FdShaped(d) /\ d.sock = new /\ d.flags = {}
  <2>1. d = [fd[p] EXCEPT !.sock = new, !.port = target.port]
    OBVIOUS
  <2> HIDE DEF d
  <2>2. d = [open |-> fd[p].open, sock |-> new, client |-> fd[p].client, port |-> target.port,
             flags |-> fd[p].flags, timeout |-> fd[p].timeout]
    BY <1>2, <2>1, FdPort
  <2> QED
    BY <1>1, <2>2 DEF FdShaped
<1>4. fd' = [fd EXCEPT ![p] = d]
  BY <1>1, <1>2
<1>5. Shaped(t) /\ t.pc # "poll"
  BY ShapedStanding
<1> HIDE DEF d, t
<1> QED
  BY <1>1, <1>3, <1>4, <1>5, NewSocketStep DEF new

LEMMA RecvSockets ==
    ASSUME SocketInv, NEW p \in Programs, RecvFrom(p)
    PROVE  SocketInv'
<1>1. /\ UNCHANGED <<fd, sockets>> /\ p \in Contexts
      /\ fd[p].flags = {} => th'[p].pc = "junk"
  BY DEF RecvFrom, Contexts
<1>2. CASE th' = [th EXCEPT ![p] = Standing("poll", 0, fd[p].timeout)]
  <2> DEFINE t == Standing("poll", 0, fd[p].timeout)
  <2>1. Shaped(t) /\ ~Connecting(t) /\ t.pc = "poll"
    BY ShapedStanding DEF Connecting
  <2>2. th'[p].pc = "poll"
    BY <1>1, <1>2, SetStanding DEF SocketInv
  <2> HIDE DEF t
  <2> QED
    BY <1>1, <1>2, <2>1, <2>2, OneThread DEF t
<1>3. CASE th' = [th EXCEPT ![p] = Junk]
  <2>1. Shaped(Junk) /\ ~Connecting(Junk) /\ Junk.pc # "poll"
    BY ShapedStanding DEF Junk, Connecting
  <2> QED
    BY <1>1, <1>3, <2>1, OneThread
<1> QED
  BY <1>2, <1>3 DEF RecvFrom

(* What NextClient finds is a client with packets. *)
LEMMA NextClientFound ==
    ASSUME SocketInv, NEW p \in Programs, th[p].pc = "poll", NextClient(p) # 0
    PROVE  LET cs == sockets[fd[p].sock].clients
           IN  /\ fd[p].sock \in DOMAIN sockets /\ NextClient(p) \in DOMAIN cs
               /\ cs[NextClient(p)].packets # <<>>
<1> DEFINE cs == sockets[fd[p].sock].clients
           hits == {k \in 1 .. Len(cs) : cs[k].packets # <<>>}
<1>1. fd[p].sock \in DOMAIN sockets /\ (/\ "server" \notin fd[p].flags => fd[p].client \in DOMAIN cs)
  BY DEF SocketInv, Well
<1>2. Len(cs) \in Nat /\ DOMAIN cs = 1 .. Len(cs)
  BY <1>1, SeqParts DEF SocketInv, SocketsShaped, SocketShaped
<1>3. CASE "server" \in fd[p].flags
  <2>1. NextClient(p) = IF hits # {} THEN Min(hits) ELSE 0
    BY <1>3 DEF NextClient, SelectInSeq
  <2>2. hits \in SUBSET Nat
    BY <1>2
  <2>3. hits # {} => Min(hits) \in hits
    BY <2>2, LeastOfNaturals
  <2> QED
    BY <1>1, <1>2, <2>1, <2>3
<1>4. CASE "server" \notin fd[p].flags
  BY <1>1, <1>4 DEF NextClient
<1> QED
  BY <1>3, <1>4

LEMMA PollSockets ==
    ASSUME SocketInv, NEW p \in Programs, Poll(p)
    PROVE  SocketInv'
<1> DEFINE s == fd[p].sock
<1>1. /\ UNCHANGED fd /\ th[p].pc = "poll" /\ p \in Contexts
      /\ th' = [th EXCEPT ![p] = Idle] \/ th' = [th EXCEPT ![p] = Junk]
      /\ \/ UNCHANGED sockets
         \/ /\ NextClient(p) # 0
            /\ sockets' = [sockets EXCEPT ![s] = Take(@, NextClient(p))]
  BY DEF Poll, Contexts
<1>2. SocketsGrow /\ \A i \in DOMAIN sockets : Once(sockets[i]) => Once(sockets'[i])
  <2>1. CASE UNCHANGED sockets
    BY <2>1, SocketsKept
  <2>2. CASE NextClient(p) # 0 /\ sockets' = [sockets EXCEPT ![s] = Take(@, NextClient(p))]
    <3> DEFINE i == NextClient(p)
               ps == Tail(sockets[s].clients[i].packets)
               t == Take(sockets[s], i)
    <3>1. /\ s \in DOMAIN sockets /\ i \in DOMAIN sockets[s].clients
          /\ sockets[s].clients[i].packets # <<>>
      BY <1>1, <2>2, NextClientFound
    <3>2. SocketShaped(sockets[s])
      BY <3>1 DEF SocketInv, SocketsShaped
    <3>3. IsSeq(ps)
      BY <3>1, <3>2, SeqTail DEF SocketShaped, ClientShaped
    <3>4. t = [sockets[s] EXCEPT !.clients[i].packets = ps]
      BY DEF Take
    <3> HIDE DEF t, ps, i
    <3>5. Grown(sockets[s], t) /\ (Once(sockets[s]) => Once(t))
      BY <3>1, <3>2, <3>3, <3>4, PacketsSet
    <3>6. sockets' = [sockets EXCEPT ![s] = t]
      BY <2>2 DEF t, i
    <3> QED
      BY <3>1, <3>5, <3>6, SocketSet
  <2> QED
    BY <1>1, <2>1, <2>2
<1>3. \A q \in Programs : "server" \in fd[q].flags => fd[q].sock \in DOMAIN sockets
  BY DEF SocketInv, Well
<1>4. \A q \in Programs : KnowsOnce(q) => KnowsOnce(q)'
  BY <1>1, <1>2, <1>3 DEF KnowsOnce
<1>5. Threads' /\ th'[p].pc \in {"run", "junk"} /\ \A q \in Contexts \ {p} : th'[q] = th[q]
  <2>1. CASE th' = [th EXCEPT ![p] = Idle]
    BY <1>1, <2>1, SetThread, ShapedIdle DEF SocketInv
  <2>2. CASE th' = [th EXCEPT ![p] = Junk]
    <3>1. Junk.pc = "junk"
      BY ShapedStanding DEF Junk
    <3> QED
      BY <1>1, <2>2, <3>1, SetThread, ShapedIdle DEF SocketInv
  <2> QED
    BY <1>1, <2>1, <2>2
<1>6. \A q \in Programs : q = p \/ q \in Contexts \ {p}
  BY DEF Contexts
<1> QED
  BY <1>1, <1>2, <1>4, <1>5, <1>6, SharedStep DEF Connecting

(* netd takes one datagram at a time and goes through the sockets upwards. *)
LEMMA WorkStays ==
    ASSUME WorkShaped, UNCHANGED <<work, collided>>, th'[Netd].pc = th[Netd].pc
    PROVE  WorkShaped' /\ HandOver
BY DEF WorkShaped, HandOver, Serving

LEMMA ProgramWork ==
    ASSUME Threads, WorkShaped, UNCHANGED <<work, collided>>, NEW p \in Programs, NEW t,
           th' = [th EXCEPT ![p] = t]
    PROVE  WorkShaped' /\ HandOver
<1>1. Netd \in Contexts /\ p # Netd
  BY NetdIsNoProgram DEF Contexts
<1>2. th'[Netd] = th[Netd]
  BY <1>1 DEF Threads
<1> QED
  BY <1>2, WorkStays

LEMMA NoList == IsSeq(<<>>)
<1>1. <<>> \in Seq({})
  OBVIOUS
<1> QED
  BY <1>1 DEF IsSeq

LEMMA InitWork == Init => WorkShaped
BY NoList DEF Init, NoWork, WorkShaped

LEMMA NoWorkShaped ==
    ASSUME work' = NoWork
    PROVE  WorkShaped'
BY NoList DEF NoWork, WorkShaped

LEMMA UdpSniffWork ==
    ASSUME Threads, th[Netd].pc = "run", queue # <<>>, ~Head(queue).out, UNCHANGED <<card, packets, collided>>,
           NEW f, UdpSniff(f, Head(queue).n)
    PROVE  WorkShaped' /\ HandOver
<1> DEFINE n == Head(queue).n
<1>1. /\ work' = [NoWork EXCEPT !.f = f, !.n = n, !.at = 1] /\ queue' = Tail(queue)
      /\ th' = [th EXCEPT ![Netd] = Standing("serve", 0, 0)]
  BY DEF UdpSniff
<1> HIDE DEF n
<1>2. /\ work' = [f |-> f, n |-> n, at |-> 1, told |-> FALSE, client |-> 0, list |-> <<>>]
  BY <1>1 DEF NoWork
<1>3. WorkShaped' /\ work'.n = n
  BY <1>2, NoList DEF WorkShaped
<1> QED
  BY <1>1, <1>3 DEF HandOver, Serving, n

LEMMA PropagateWork ==
    ASSUME SocketInv, WorkShaped, Propagate
    PROVE  WorkShaped' /\ HandOver
<1> DEFINE left == {i \in Matching(work.f) : i >= work.at}
           i == Min(left)
           k == Owner(sockets[i], work.f)
           list == sockets[i].clients[k].packets
<1>1. /\ Netd \in Contexts /\ Threads /\ collided' = collided
      /\ th[Netd].pc = "serve" /\ Serving
  BY DEF Propagate, Contexts, SocketInv, Serving
<1>2. left # {} => i \in DOMAIN sockets /\ i \in Nat /\ i >= work.at
  <2>1. left \in SUBSET Nat /\ left \subseteq DOMAIN sockets
    BY NoSocketZero DEF Matching
  <2> QED
    BY <2>1, LeastOfNaturals
<1>3. CASE left # {} /\ k = 0
  <2>1. QueuePacket(i)
    BY <1>3 DEF Propagate
  <2>2. work' = [work EXCEPT !.at = i + 1, !.told = TRUE] /\ UNCHANGED th
    BY <1>3, <2>1 DEF QueuePacket
  <2> HIDE DEF i
  <2>3. work' = [f |-> work.f, n |-> work.n, at |-> i + 1, told |-> TRUE,
                 client |-> work.client, list |-> work.list]
    BY <2>2 DEF WorkShaped
  <2>4. WorkShaped' /\ work'.n = work.n /\ work'.at >= work.at
    BY <1>2, <1>3, <2>3 DEF WorkShaped
  <2> QED
    BY <1>1, <2>2, <2>4 DEF HandOver, Serving
<1>4. CASE left # {} /\ k # 0
  <2>1. QueuePacket(i)
    BY <1>4 DEF Propagate
  <2>2. /\ work' = [work EXCEPT !.at = i, !.client = k, !.list = list]
        /\ th' = [th EXCEPT ![Netd] = Standing("link", 0, 0)]
    BY <1>4, <2>1 DEF QueuePacket
  <2>3. IsSeq(list)
    <3>1. SocketShaped(sockets[i])
      BY <1>2, <1>4 DEF SocketInv, SocketsShaped
    <3>2. k \in DOMAIN sockets[i].clients
      BY <1>4, <3>1, OwnerFound DEF SocketShaped
    <3> QED
      BY <3>1, <3>2 DEF SocketShaped, ClientShaped
  <2> HIDE DEF i, k, list
  <2>4. work' = [f |-> work.f, n |-> work.n, at |-> i, told |-> work.told, client |-> k, list |-> list]
    BY <2>2 DEF WorkShaped
  <2>5. WorkShaped' /\ work'.n = work.n /\ work'.at >= work.at
    BY <1>2, <1>4, <2>3, <2>4 DEF WorkShaped
  <2>6. th'[Netd].pc = "link"
    BY <1>1, <2>2, SetStanding
  <2> QED
    BY <1>1, <2>5, <2>6 DEF HandOver, Serving
<1>5. CASE left = {}
  <2>1. /\ work' = NoWork
        /\ th' = [th EXCEPT ![Netd] = IF work.told THEN Idle ELSE Standing("reject", work.f.from, 0)]
    BY <1>5 DEF Propagate
  <2>2. th'[Netd].pc \in {"run", "reject"}
    BY <1>1, <2>1, SetIdle, SetStanding
  <2> QED
    BY <1>1, <2>1, <2>2, NoWorkShaped DEF HandOver, Serving
<1> QED
  BY <1>3, <1>4, <1>5

LEMMA LinkWork ==
    ASSUME Threads, WorkShaped, Link
    PROVE  WorkShaped' /\ HandOver
<1>1. /\ th[Netd].pc = "link" /\ th' = [th EXCEPT ![Netd] = Standing("serve", 0, 0)] /\ Netd \in Contexts
      /\ work' = [work EXCEPT !.at = @ + 1, !.told = TRUE, !.client = 0, !.list = <<>>]
      /\ collided \subseteq collided'
  BY DEF Link, Contexts
<1>2. th'[Netd].pc = "serve"
  BY <1>1, SetStanding
<1>3. work' = [f |-> work.f, n |-> work.n, at |-> work.at + 1, told |-> TRUE, client |-> 0, list |-> <<>>]
  BY <1>1 DEF WorkShaped
<1>4. WorkShaped' /\ work'.n = work.n /\ work'.at >= work.at
  BY <1>3, NoList DEF WorkShaped
<1> QED
  BY <1>1, <1>2, <1>4 DEF HandOver, Serving

LEMMA NetdWork ==
    ASSUME SocketInv, WorkShaped, NetdStep
    PROVE  WorkShaped' /\ HandOver
<1>0. Threads /\ Netd \in Contexts
  BY DEF SocketInv, Contexts
<1>1. CASE Send
  BY <1>1, WorkStays DEF Send
<1>2. CASE th[Netd].pc = "run" /\ queue # <<>> /\ Sniff
  <2> DEFINE f == Head(queue).f
  <2>1. /\ ~Head(queue).out /\ UNCHANGED <<card, packets, collided>>
        /\ UNCHANGED <<th, work>> \/ UdpSniff(f, Head(queue).n)
    BY <1>2 DEF Sniff, ArpResponder, IcmpResponder, Answer, NetdStep
  <2> QED
    BY <1>0, <1>2, <2>1, WorkStays, UdpSniffWork
<1>3. CASE Propagate \/ Link
  BY <1>0, <1>3, PropagateWork, LinkWork
<1>4. CASE Reject
  <2>1. UNCHANGED <<work, collided>> /\ Resolve(Netd, th[Netd].addr)
    BY <1>4 DEF Reject
  <2>2. th'[Netd].pc \in {"run", "resolve"}
    BY <1>0, <2>1, ResolveThread, SetIdle, SetWaiting
  <2> QED
    BY <2>1, <2>2 DEF WorkShaped, HandOver, Serving
<1> QED
  BY <1>1, <1>2, <1>3, <1>4 DEF NetdStep

LEMMA WaitWork ==
    ASSUME Threads, WorkShaped, NEW c \in Contexts, Wait(c)
    PROVE  WorkShaped' /\ HandOver
<1>1. UNCHANGED <<work, collided>> /\ (Look(c) \/ WaitEnds(c))
  BY DEF Wait
<1>2. \/ th' = [th EXCEPT ![c] = Idle]
      \/ th' = [th EXCEPT ![c] = Waiting(th[c].addr, th[c].tries + 1)]
  BY <1>1, ResolvedThread DEF Look, WaitEnds
<1>3. CASE c \in Programs
  BY <1>1, <1>2, <1>3, ProgramWork
<1>4. CASE c = Netd
  <2>1. th'[Netd].pc \in {"run", "resolve"}
    BY <1>2, <1>4, SetIdle, SetWaiting
  <2> QED
    BY <1>1, <2>1 DEF WorkShaped, HandOver, Serving
<1> QED
  BY <1>3, <1>4 DEF Contexts

LEMMA TickWork ==
    ASSUME Threads, WorkShaped, Tick
    PROVE  WorkShaped' /\ HandOver
<1>1. /\ UNCHANGED <<work, collided>> /\ Netd \in Contexts
      /\ th' = [c \in Contexts |-> [th[c] EXCEPT !.left = IF @ > 0 THEN @ - 1 ELSE 0]]
  BY DEF Tick, Contexts
<1>2. th'[Netd].pc = th[Netd].pc
  BY <1>1 DEF Threads, Shaped
<1> QED
  BY <1>1, <1>2, WorkStays

LEMMA NextWork == SocketInv /\ WorkShaped /\ [Next]_vars => WorkShaped' /\ HandOver
<1> SUFFICES ASSUME SocketInv, WorkShaped, [Next]_vars PROVE WorkShaped' /\ HandOver
  OBVIOUS
<1>0. Threads
  BY DEF SocketInv
<1>1. CASE UNCHANGED <<work, collided, th>>
  BY <1>1, WorkStays
<1>2. CASE CardSends \/ Interrupt \/ Callback
  BY <1>1, <1>2 DEF CardSends, Interrupt, Callback
<1>3. ASSUME NEW f \in Frames, Arrive(f) PROVE WorkShaped' /\ HandOver
  BY <1>1, <1>3 DEF Arrive
<1>4. CASE Tick \/ NetdStep
  BY <1>0, <1>4, TickWork, NetdWork
<1>5. ASSUME NEW c \in Contexts, Wait(c) PROVE WorkShaped' /\ HandOver
  BY <1>0, <1>5, WaitWork
<1>6. ASSUME NEW p \in Programs, Socket(p) \/ \E t \in Timeouts : SetTimeout(p, t)
      PROVE  WorkShaped' /\ HandOver
  BY <1>1, <1>6 DEF Socket, SetTimeout, Others
<1>7. ASSUME NEW p \in Programs,
             (\E port \in Ports : Bind(p, port)) \/ \E t \in Targets : SendTo(p, t)
      PROVE  WorkShaped' /\ HandOver
  BY <1>1, <1>7 DEF Bind, SendTo, Others
<1>8. ASSUME NEW p \in Programs, NEW t \in Targets, Connect(p, t)
      PROVE  WorkShaped' /\ HandOver
  BY <1>0, <1>8, ProgramWork DEF Connect, Others
<1>9. ASSUME NEW p \in Programs, ConnectTo(p) PROVE WorkShaped' /\ HandOver
  <2>1. UNCHANGED <<work, collided>> /\ Resolve(p, th[p].addr)
    BY <1>9 DEF ConnectTo, Others
  <2> QED
    BY <1>0, <2>1, ResolveThread, ProgramWork
<1>10. ASSUME NEW p \in Programs, RecvFrom(p) \/ Poll(p) PROVE WorkShaped' /\ HandOver
  <2>1. UNCHANGED <<work, collided>> /\ \E t : th' = [th EXCEPT ![p] = t]
    BY <1>10 DEF RecvFrom, Poll, Others
  <2> QED
    BY <1>0, <2>1, ProgramWork
<1>11. CASE UNCHANGED vars
  BY <1>1, <1>11 DEF vars
<1> QED
  BY <1>2, <1>3, <1>4, <1>5, <1>6, <1>7, <1>8, <1>9, <1>10, <1>11 DEF Next

LEMMA NextKeepsSockets == SocketInv /\ WorkShaped /\ [Next]_vars => SocketInv'
<1> SUFFICES ASSUME SocketInv, WorkShaped, [Next]_vars PROVE SocketInv'
  OBVIOUS
<1>1. CASE CardSends \/ Interrupt \/ Callback
  BY <1>1, SocketsUntouched DEF CardSends, Interrupt, Callback
<1>2. ASSUME NEW f \in Frames, Arrive(f) PROVE SocketInv'
  BY <1>2, SocketsUntouched DEF Arrive
<1>3. CASE Tick \/ NetdStep
  BY <1>3, TickSockets, NetdSockets
<1>4. ASSUME NEW c \in Contexts, Wait(c) PROVE SocketInv'
  BY <1>4, WaitSockets
<1>5. ASSUME NEW p \in Programs, Socket(p) \/ \E t \in Timeouts : SetTimeout(p, t)
      PROVE  SocketInv'
  BY <1>5, SocketCall, SetTimeoutSockets
<1>6. ASSUME NEW p \in Programs,
             (\E port \in Ports : Bind(p, port)) \/ \E t \in Targets : Connect(p, t)
      PROVE  SocketInv'
  BY <1>6, BindSockets, ConnectSockets
<1>7. ASSUME NEW p \in Programs, ConnectTo(p) PROVE SocketInv'
  <2>1. p \in Contexts /\ Connecting(th[p]) /\ Resolve(p, th[p].addr)
    BY <1>7 DEF ConnectTo, Connecting, Contexts
  <2> QED
    BY <2>1, ResolveSockets
<1>8. ASSUME NEW p \in Programs, NEW t \in Targets, SendTo(p, t) PROVE SocketInv'
  BY <1>8, SocketsUntouched DEF SendTo
<1>9. ASSUME NEW p \in Programs, RecvFrom(p) \/ Poll(p) PROVE SocketInv'
  BY <1>9, RecvSockets, PollSockets
<1>10. CASE UNCHANGED vars
  BY <1>10, SocketsUntouched DEF vars
<1> QED
  BY <1>1, <1>2, <1>3, <1>4, <1>5, <1>6, <1>7, <1>8, <1>9, <1>10 DEF Next

(* Whatever frames arrive between the calls of any number of programs, a server's socket has
   one client for a peer: socket_queue_packet looks before it makes one, and a program that
   waits in socket_connect adds its client to a socket no server has (net/socket.c). *)
THEOREM PeersKnownOnce == Spec => []ServerKnowsPeerOnce
<1>1. SocketInv => ServerKnowsPeerOnce
  BY DEF SocketInv, KnowsOnce, Once, ServerKnowsPeerOnce
<1>2. Init => SocketInv /\ WorkShaped
  BY InitSockets, InitWork
<1>3. SocketInv /\ WorkShaped /\ [Next]_vars => (SocketInv /\ WorkShaped)'
  BY NextKeepsSockets, NextWork
<1> QED
  BY <1>1, <1>2, <1>3, PTL DEF Spec

-----------------------------------------------------------------------------
(* The frames that wait for netd, in network_queue and in the card's buffer. *)

Under(q, rx, n) == (\E i \in DOMAIN q : ~q[i].out /\ q[i].n = n) \/ \E i \in DOMAIN rx : rx[i].n = n

Line(q, rx) ==
    /\ \A i, j \in DOMAIN q : i < j /\ ~q[i].out /\ ~q[j].out => q[i].n < q[j].n
    /\ \A i, j \in DOMAIN rx : i < j => rx[i].n < rx[j].n
    /\ \A i \in DOMAIN q, j \in DOMAIN rx : ~q[i].out => q[i].n < rx[j].n

LineInv ==
    /\ FramesInv /\ Line(queue, card.rx)
    /\ \A n : Under(queue, card.rx, n) => n \in Nat /\ n <= packets

(* What joins the line is newer than all that arrived before. *)
MovesOn ==
    /\ packets' >= packets
    /\ \A n : Under(queue', card'.rx, n) => Under(queue, card.rx, n) \/ (n \in Nat /\ n > packets)

LEMMA LineTail ==
    ASSUME NEW S, NEW q \in Seq(S), q # <<>>, NEW rx, Line(q, rx)
    PROVE  /\ Line(Tail(q), rx)
           /\ \A n : Under(Tail(q), rx, n) => Under(q, rx, n) /\ (~Head(q).out => Head(q).n < n)
<1>1. /\ Len(q) \in Nat /\ Len(q) > 0 /\ DOMAIN q = 1 .. Len(q) /\ Head(q) = q[1]
      /\ DOMAIN Tail(q) = 1 .. Len(q) - 1
      /\ \A i \in 1 .. Len(q) - 1 : Tail(q)[i] = q[i + 1]
  OBVIOUS
<1>2. \A i \in DOMAIN Tail(q) : i + 1 \in DOMAIN q /\ 1 < i + 1 /\ Tail(q)[i] = q[i + 1]
  BY <1>1
<1>3. 1 \in DOMAIN q
  BY <1>1
<1>4. \A i, j \in DOMAIN Tail(q) : i < j => i + 1 < j + 1
  BY <1>1
<1> QED
  BY <1>1, <1>2, <1>3, <1>4 DEF Line, Under

LEMMA LineOut ==
    ASSUME NEW S, NEW q \in Seq(S), NEW rx, Line(q, rx), NEW kind, NEW addr, NEW mac
    PROVE  LET r == Append(q, Outgoing(kind, addr, mac))
           IN  Line(r, rx) /\ \A n : Under(r, rx, n) => Under(q, rx, n)
<1> DEFINE e == Outgoing(kind, addr, mac)
           r == Append(q, e)
<1>1. e.out
  BY DEF Outgoing
<1> HIDE DEF e
<1>2. /\ Len(q) \in Nat /\ DOMAIN q = 1 .. Len(q) /\ DOMAIN r = 1 .. Len(q) + 1
      /\ r[Len(q) + 1] = e /\ \A i \in 1 .. Len(q) : r[i] = q[i]
  OBVIOUS
<1> HIDE DEF r
<1>3. \A i \in DOMAIN r : ~r[i].out => i \in DOMAIN q /\ r[i] = q[i]
  BY <1>1, <1>2
<1>4. Line(r, rx) /\ \A n : Under(r, rx, n) => Under(q, rx, n)
  BY <1>3 DEF Line, Under
<1> QED
  BY <1>4 DEF e, r

LEMMA LineHandled ==
    ASSUME NEW S, NEW q \in Seq(S), NEW rx \in Seq(Stored), Line(q, rx)
    PROVE  LET r == q \o Incoming(rx)
           IN  Line(r, <<>>) /\ \A n : Under(r, <<>>, n) => Under(q, rx, n)
<1> DEFINE s == Incoming(rx)
           r == q \o s
<1>1. Len(q) \in Nat /\ DOMAIN q = 1 .. Len(q) /\ Len(rx) \in Nat /\ DOMAIN rx = 1 .. Len(rx)
  OBVIOUS
<1>2. /\ s \in Seq({s[i] : i \in 1 .. Len(rx)}) /\ Len(s) = Len(rx)
      /\ \A i \in 1 .. Len(rx) : ~s[i].out /\ s[i].n = rx[i].n
  <2>1. s = [i \in 1 .. Len(rx) |-> [out |-> FALSE, n |-> rx[i].n, f |-> rx[i].f]]
    BY <1>1 DEF Incoming
  <2> DEFINE T == {s[i] : i \in 1 .. Len(rx)}
  <2> HIDE DEF s
  <2>2. \A i \in 1 .. Len(rx) : s[i] \in T /\ ~s[i].out /\ s[i].n = rx[i].n
    BY <2>1
  <2>3. s = [i \in 1 .. Len(rx) |-> s[i]]
    BY <2>1
  <2> HIDE DEF T
  <2>4. s \in Seq(T) /\ Len(s) = Len(rx)
    BY <1>1, <2>2, <2>3
  <2> QED
    BY <2>2, <2>4 DEF T
<1> HIDE DEF s
<1>3. /\ DOMAIN r = 1 .. Len(q) + Len(rx)
      /\ \A i \in 1 .. Len(q) : r[i] = q[i]
      /\ \A i \in Len(q) + 1 .. Len(q) + Len(rx) : r[i] = s[i - Len(q)]
  <2> DEFINE T == S \union {s[i] : i \in 1 .. Len(rx)}
  <2>1. q \in Seq(T) /\ s \in Seq(T)
    BY <1>2, SeqMonotonic
  <2> HIDE DEF T
  <2>2. /\ r \in Seq(T) /\ Len(r) = Len(q) + Len(s)
        /\ \A i \in 1 .. Len(r) : r[i] = IF i <= Len(q) THEN q[i] ELSE s[i - Len(q)]
    BY <2>1, ConcatProperties
  <2> HIDE DEF r
  <2> QED
    BY <1>1, <1>2, <2>2
<1> HIDE DEF r
<1>4. ASSUME NEW i \in DOMAIN r
      PROVE  \/ i \in DOMAIN q /\ r[i] = q[i]
             \/ i > Len(q) /\ i - Len(q) \in DOMAIN rx /\ r[i].n = rx[i - Len(q)].n
  <2>1. CASE i <= Len(q)
    BY <1>1, <1>3, <2>1
  <2>2. CASE i > Len(q)
    <3>1. i - Len(q) \in 1 .. Len(rx) /\ r[i] = s[i - Len(q)]
      BY <1>1, <1>3, <2>2
    <3> QED
      BY <1>1, <1>2, <2>2, <3>1
  <2> QED
    BY <1>1, <1>3, <2>1, <2>2
<1>5. \A n : Under(r, <<>>, n) => Under(q, rx, n)
  BY <1>4 DEF Under
<1>6. ASSUME NEW i \in DOMAIN r, NEW j \in DOMAIN r, i < j, ~r[i].out, ~r[j].out
      PROVE  r[i].n < r[j].n
  <2>1. CASE j <= Len(q)
    <3>1. i \in DOMAIN q /\ j \in DOMAIN q /\ r[i] = q[i] /\ r[j] = q[j]
      BY <1>1, <1>3, <1>6, <2>1
    <3> QED
      BY <1>6, <3>1 DEF Line
  <2>2. CASE i <= Len(q) /\ j > Len(q)
    <3>1. i \in DOMAIN q /\ r[i] = q[i] /\ j - Len(q) \in DOMAIN rx /\ r[j].n = rx[j - Len(q)].n
      BY <1>1, <1>3, <1>4, <2>2
    <3> QED
      BY <1>6, <3>1 DEF Line
  <2>3. CASE i > Len(q)
    <3>1. /\ i - Len(q) \in DOMAIN rx /\ r[i].n = rx[i - Len(q)].n
          /\ j - Len(q) \in DOMAIN rx /\ r[j].n = rx[j - Len(q)].n /\ i - Len(q) < j - Len(q)
      BY <1>1, <1>3, <1>4, <1>6, <2>3
    <3> QED
      BY <3>1 DEF Line
  <2> QED
    BY <1>1, <1>3, <2>1, <2>2, <2>3
<1>7. Line(r, <<>>)
  BY <1>6 DEF Line
<1> QED
  BY <1>5, <1>7 DEF r, s

LEMMA LineJoined ==
    ASSUME NEW q, NEW rx \in Seq(Stored), NEW e, NEW m \in Nat, e.n = m, Line(q, rx),
           \A n : Under(q, rx, n) => n < m
    PROVE  LET sx == Append(rx, e)
           IN  Line(q, sx) /\ \A n : Under(q, sx, n) => Under(q, rx, n) \/ n = m
<1> DEFINE sx == Append(rx, e)
<1>1. /\ Len(rx) \in Nat /\ DOMAIN rx = 1 .. Len(rx) /\ DOMAIN sx = 1 .. Len(rx) + 1
      /\ sx[Len(rx) + 1] = e /\ \A i \in 1 .. Len(rx) : sx[i] = rx[i]
  BY SeqAppend DEF IsSeq
<1> HIDE DEF sx
<1>2. /\ \A i \in DOMAIN sx : (i \in DOMAIN rx /\ sx[i] = rx[i]) \/ sx[i].n = m
      /\ \A i, j \in DOMAIN sx : i < j => i \in DOMAIN rx /\ sx[i] = rx[i]
  <2>1. ASSUME NEW i \in DOMAIN sx
        PROVE  (i \in DOMAIN rx /\ sx[i] = rx[i]) \/ (i = Len(rx) + 1 /\ sx[i] = e)
    <3>1. CASE i \in 1 .. Len(rx)
      BY <1>1, <3>1
    <3>2. CASE i = Len(rx) + 1
      BY <1>1, <3>2
    <3> QED
      BY <1>1, <3>1, <3>2
  <2>2. \A i, j \in DOMAIN sx : i < j => i \in DOMAIN rx
    BY <1>1
  <2> QED
    BY <1>1, <2>1, <2>2
<1>3. \A i \in DOMAIN rx : rx[i].n < m
  BY DEF Under
<1>4. \A i \in DOMAIN q : ~q[i].out => q[i].n < m
  BY DEF Under
<1>5. \A n : Under(q, sx, n) => Under(q, rx, n) \/ n = m
  BY <1>2 DEF Under
<1>6. Line(q, sx)
  BY <1>2, <1>3, <1>4 DEF Line
<1> QED
  BY <1>5, <1>6 DEF sx

LEMMA LineFromParts ==
    ASSUME FramesInv', Line(queue', card'.rx), packets' >= packets,
           \A n : Under(queue', card'.rx, n) =>
                 n \in Nat /\ n <= packets' /\ (Under(queue, card.rx, n) \/ n > packets)
    PROVE  LineInv' /\ MovesOn
<1>1. Line(queue, card.rx)' /\ \A n : Under(queue, card.rx, n)' <=> Under(queue', card'.rx, n)
  BY DEF Line, Under
<1>2. LineInv'
  BY <1>1 DEF LineInv
<1>3. MovesOn
  BY DEF MovesOn
<1> QED
  BY <1>2, <1>3

LEMMA QueueStepLine ==
    ASSUME LineInv, FramesInv', QueueStep, card'.rx = card.rx,
           packets' = packets \/ packets' = packets + 1
    PROVE  LineInv' /\ MovesOn
<1>1. PICK S : queue \in Seq(PacketsIn \union PacketsOut(S))
  BY DEF LineInv, FramesInv
<1> DEFINE T == PacketsIn \union PacketsOut(S)
           rx == card.rx
           r == Tail(queue)
<1>2. queue \in Seq(T) /\ (queue # <<>> => r \in Seq(T)) /\ Line(queue, rx)
  BY <1>1 DEF LineInv
<1> HIDE DEF T
<1>3. queue # <<>> => Line(r, rx) /\ \A n : Under(r, rx, n) => Under(queue, rx, n)
  BY <1>2, LineTail
<1>4. Line(queue', rx) /\ \A n : Under(queue', rx, n) => Under(queue, rx, n)
  <2>1. CASE UNCHANGED queue
    BY <1>2, <2>1
  <2>2. CASE \E kind, addr, mac : queue' = Append(queue, Outgoing(kind, addr, mac))
    BY <1>2, <2>2, LineOut
  <2>3. CASE queue # <<>> /\ queue' = Tail(queue)
    BY <1>3, <2>3
  <2>4. CASE queue # <<>> /\ \E kind, addr, mac : queue' = Append(Tail(queue), Outgoing(kind, addr, mac))
    <3>1. PICK kind, addr, mac : queue' = Append(r, Outgoing(kind, addr, mac))
      BY <2>4
    <3>2. r \in Seq(T) /\ Line(r, rx)
      BY <1>2, <1>3, <2>4
    <3> HIDE DEF r
    <3>3. Line(queue', rx) /\ \A n : Under(queue', rx, n) => Under(r, rx, n)
      BY <3>1, <3>2, LineOut
    <3> QED
      BY <1>3, <2>4, <3>3
  <2> QED
    BY <2>1, <2>2, <2>3, <2>4 DEF QueueStep
<1>5. packets' >= packets /\ packets \in Nat
  BY DEF LineInv, FramesInv
<1>6. \A n : Under(queue', card'.rx, n) => Under(queue, card.rx, n)
  BY <1>4
<1>7. \A n : Under(queue', card'.rx, n) => n \in Nat /\ n <= packets'
  BY <1>5, <1>6 DEF LineInv
<1> QED
  BY <1>4, <1>5, <1>6, <1>7, LineFromParts

LEMMA CallbackLine ==
    ASSUME LineInv, FramesInv', Callback
    PROVE  LineInv' /\ MovesOn
<1>1. PICK S : queue \in Seq(PacketsIn \union PacketsOut(S))
  BY DEF LineInv, FramesInv
<1>2. /\ card.rx \in Seq(Stored) /\ Line(queue, card.rx) /\ CardShaped /\ packets \in Nat
      /\ packets' = packets
  BY DEF LineInv, FramesInv, Callback
<1>3. /\ Line(queue', card'.rx)
      /\ \A n : Under(queue', card'.rx, n) => Under(queue, card.rx, n)
  <2>1. CASE "rx" \in card.stat
    <3>1. card'.rx = <<>> /\ queue' = queue \o Incoming(card.rx)
      BY <1>2, <2>1 DEF Callback, HandlePackets, FreeSent, CardShaped
    <3> QED
      BY <1>1, <1>2, <3>1, LineHandled
  <2>2. CASE "rx" \notin card.stat
    <3>1. card'.rx = card.rx /\ queue' = queue
      BY <1>2, <2>2 DEF Callback, FreeSent, CardShaped
    <3> QED
      BY <1>2, <3>1
  <2> QED
    BY <2>1, <2>2
<1>4. \A n : Under(queue', card'.rx, n) => n \in Nat /\ n <= packets'
  BY <1>2, <1>3 DEF LineInv
<1> QED
  BY <1>2, <1>3, <1>4, LineFromParts

LEMMA ArriveLine ==
    ASSUME LineInv, FramesInv', NEW f \in Frames, Arrive(f)
    PROVE  LineInv' /\ MovesOn
<1>1. /\ card.rx \in Seq(Stored) /\ Line(queue, card.rx) /\ CardShaped /\ packets \in Nat
      /\ packets' = packets + 1 /\ UNCHANGED queue
  BY DEF LineInv, FramesInv, Arrive
<1> DEFINE e == [f |-> f, n |-> packets']
<1>2. /\ Line(queue', card'.rx)
      /\ \A n : Under(queue', card'.rx, n) => Under(queue, card.rx, n) \/ n = packets'
  <2>1. CASE card' = [card EXCEPT !.rx = Append(@, e), !.isr = @ \union {"rx"}]
    <3>1. card'.rx = Append(card.rx, e)
      BY <1>1, <2>1 DEF CardShaped
    <3>2. e.n = packets' /\ packets' \in Nat
      BY <1>1
    <3>3. \A n : Under(queue, card.rx, n) => n < packets'
      BY <1>1 DEF LineInv
    <3> HIDE DEF e
    <3>4. LET sx == Append(card.rx, e)
          IN  Line(queue, sx) /\ \A n : Under(queue, sx, n) => Under(queue, card.rx, n) \/ n = packets'
      BY <1>1, <3>2, <3>3, LineJoined
    <3> QED
      BY <1>1, <3>1, <3>4
  <2>2. CASE UNCHANGED card
    BY <1>1, <2>2
  <2> QED
    BY <2>1, <2>2 DEF Arrive
<1>3. packets' \in Nat /\ packets' > packets /\ packets' >= packets
  BY <1>1
<1>4. \A n : Under(queue', card'.rx, n) =>
         n \in Nat /\ n <= packets' /\ (Under(queue, card.rx, n) \/ n > packets)
  BY <1>1, <1>2, <1>3 DEF LineInv
<1> QED
  BY <1>2, <1>3, <1>4, LineFromParts

LEMMA InitLine == Init => LineInv
<1> SUFFICES ASSUME Init PROVE LineInv
  OBVIOUS
<1>1. queue = <<>> /\ card.rx = <<>> /\ FramesInv
  BY InitFrames DEF Init
<1> QED
  BY <1>1 DEF LineInv, Line, Under

LEMMA NextLine == LineInv /\ [Next]_vars => LineInv' /\ MovesOn
<1> SUFFICES ASSUME LineInv, [Next]_vars PROVE LineInv' /\ MovesOn
  OBVIOUS
<1>1. FramesInv /\ FramesInv'
  BY NextKeepsFrames DEF LineInv
<1>2. ASSUME QueueStep, UNCHANGED card, packets' = packets \/ packets' = packets + 1
      PROVE  LineInv' /\ MovesOn
  BY <1>1, <1>2, QueueStepLine
<1>3. CASE CardSends \/ Interrupt
  <2>1. card'.rx = card.rx /\ UNCHANGED <<queue, packets>>
    BY <1>1, <1>3 DEF CardSends, Interrupt, FramesInv, CardShaped
  <2> QED
    BY <1>1, <2>1, QueueStepLine DEF QueueStep
<1>4. CASE Callback
  BY <1>1, <1>4, CallbackLine
<1>5. ASSUME NEW f \in Frames, Arrive(f) PROVE LineInv' /\ MovesOn
  BY <1>1, <1>5, ArriveLine
<1>6. CASE Tick
  BY <1>2, <1>6 DEF Tick, QueueStep
<1>7. CASE NetdStep
  <2>1. QueueStep /\ card'.rx = card.rx /\ packets' = packets
    BY <1>1, <1>7, NetdQueue DEF FramesInv, CardShaped, CardSend, NetdStep
  <2> QED
    BY <1>1, <2>1, QueueStepLine
<1>8. ASSUME NEW c \in Contexts, Wait(c) PROVE LineInv' /\ MovesOn
  <2>1. QueueStep /\ UNCHANGED <<card, packets>>
    BY <1>8, WaitQueue DEF Wait
  <2> QED
    BY <1>2, <2>1
<1>9. ASSUME NEW p \in Programs, ConnectTo(p) PROVE LineInv' /\ MovesOn
  <2>1. QueueStep /\ UNCHANGED <<card, packets>>
    BY <1>9, ResolveQueue DEF ConnectTo, Others
  <2> QED
    BY <1>2, <2>1
<1>10. ASSUME NEW p \in Programs, Socket(p) \/ RecvFrom(p) \/ Poll(p) PROVE LineInv' /\ MovesOn
  BY <1>2, <1>10 DEF Socket, RecvFrom, Poll, Others, QueueStep
<1>11. ASSUME NEW p \in Programs, (\E t \in Timeouts : SetTimeout(p, t)) \/ \E port \in Ports : Bind(p, port)
       PROVE LineInv' /\ MovesOn
  BY <1>2, <1>11 DEF SetTimeout, Bind, Others, QueueStep
<1>12. ASSUME NEW p \in Programs, NEW t \in Targets, Connect(p, t) \/ SendTo(p, t)
       PROVE  LineInv' /\ MovesOn
  <2>1. QueueStep /\ UNCHANGED card /\ (packets' = packets \/ packets' = packets + 1)
    BY <1>12 DEF Connect, SendTo, UdpWrite, Transmit, Others, QueueStep
  <2> QED
    BY <1>2, <2>1
<1>13. CASE UNCHANGED vars
  BY <1>2, <1>13 DEF vars, QueueStep
<1> QED
  BY <1>3, <1>4, <1>5, <1>6, <1>7, <1>8, <1>9, <1>10, <1>11, <1>12, <1>13 DEF Next

-----------------------------------------------------------------------------
(* What the clients hold, and what programs took, is older than what is under way. *)

Passed == {n \in Nat : n <= packets /\ \A m \in Nat : Under(queue, card.rx, m) => n < m}

(* What netd has let pass to socket i: all, but for the datagram in its hands and socket i to come. *)
PassedAt(i) == {n \in Passed : Serving /\ i >= work.at => n < work.n}

HandInv == Serving => work.n \in Passed

PacketShaped(x) == x = [n |-> x.n, len |-> x.len, peer |-> x.peer]

Ordered(ps, N) ==
    /\ \A i \in DOMAIN ps : PacketShaped(ps[i]) /\ ps[i].n \in N
    /\ \A i, j \in DOMAIN ps : i < j => ps[i].n < ps[j].n

Received(g, N) ==
    /\ IsSeq(g) /\ \A i \in DOMAIN g : g[i].n \in N
    /\ \A i, j \in DOMAIN g : i < j /\ g[i].peer = g[j].peer => g[i].n < g[j].n

(* What came from a client of s is older than what that client still has. *)
Before(g, s) ==
    \A i \in DOMAIN g : \A k \in DOMAIN s.clients : k = g[i].peer =>
        \A j \in DOMAIN s.clients[k].packets : g[i].n < s.clients[k].packets[j].n

ClientsOrdered == \A i \in DOMAIN sockets \ collided : \A k \in DOMAIN sockets[i].clients :
                      Ordered(sockets[i].clients[k].packets, PassedAt(i))

Heard(p, i) ==
    fd[p].sock = i /\ got[p] # <<>> => Received(got[p], PassedAt(i)) /\ Before(got[p], sockets[i])

(* A descriptor keeps its socket once it has flags. *)
Opened == \A p \in Programs : fd[p].flags # {} \/ Connecting(th[p]) => fd[p].open

OrderInv ==
    /\ LineInv /\ SocketInv /\ WorkShaped /\ HandInv /\ Opened /\ ClientsOrdered
    /\ got = [p \in Programs |-> got[p]]
    /\ \A p \in Programs : got[p] # <<>> => fd[p].flags # {}
    /\ \A i \in DOMAIN sockets \ collided : \A p \in Programs : Heard(p, i)

(* What a step never takes back. *)
PassedStep ==
    /\ collided \subseteq collided' /\ HandInv'
    /\ \A i \in Nat : PassedAt(i) \subseteq PassedAt(i)'

LEMMA PassedGrows ==
    ASSUME LineInv, LineInv', MovesOn
    PROVE  Passed \subseteq Passed'
<1>1. packets \in Nat /\ packets' \in Nat /\ packets' >= packets
  BY DEF LineInv, FramesInv, MovesOn
<1> SUFFICES ASSUME NEW n \in Passed PROVE n \in Passed'
  OBVIOUS
<1>2. n \in Nat /\ n <= packets /\ \A m \in Nat : Under(queue, card.rx, m) => n < m
  BY DEF Passed
<1>3. \A m \in Nat : Under(queue', card'.rx, m) => n < m
  BY <1>1, <1>2 DEF MovesOn
<1>4. \A m : Under(queue, card.rx, m)' <=> Under(queue', card'.rx, m)
  BY DEF Under
<1> QED
  BY <1>1, <1>2, <1>3, <1>4 DEF Passed

(* The frame netd takes is newer than all that went before, and older than all behind it. *)
LEMMA HeadPasses ==
    ASSUME LineInv, LineInv', queue # <<>>, ~Head(queue).out, queue' = Tail(queue),
           UNCHANGED <<card, packets>>
    PROVE  Head(queue).n \in Passed' /\ \A n \in Passed : n < Head(queue).n
<1> DEFINE n == Head(queue).n
           rx == card.rx
<1>1. PICK S : queue \in Seq(PacketsIn \union PacketsOut(S)) /\ Line(queue, rx)
  BY DEF LineInv, FramesInv
<1> DEFINE T == PacketsIn \union PacketsOut(S)
<1>2. queue \in Seq(T)
  BY <1>1
<1> HIDE DEF T
<1>3. 1 \in DOMAIN queue /\ Head(queue) = queue[1]
  BY <1>2
<1>4. Under(queue, rx, n)
  BY <1>3 DEF Under
<1>5. \A m : Under(queue', rx, m) => n < m
  BY <1>1, <1>2, LineTail
<1>6. n \in Nat /\ n <= packets
  BY <1>4 DEF LineInv
<1>7. \A m : Under(queue, card.rx, m)' <=> Under(queue', rx, m)
  BY DEF Under
<1> HIDE DEF n
<1>8. n \in Passed'
  BY <1>5, <1>6, <1>7 DEF Passed
<1>9. \A m \in Passed : m < n
  BY <1>4, <1>6 DEF Passed
<1> QED
  BY <1>8, <1>9 DEF n

LEMMA HandGrows ==
    ASSUME LineInv, LineInv', MovesOn, WorkShaped, WorkShaped', HandInv, HandOver
    PROVE  PassedStep
<1>1. Passed \subseteq Passed' /\ Passed \subseteq Nat /\ Passed' \subseteq Nat
  <2>1. Passed \subseteq Nat /\ Passed' \subseteq Nat
    BY DEF Passed
  <2> QED
    BY <2>1, PassedGrows
<1>2. collided \subseteq collided' /\ work.at \in Nat /\ work'.at \in Nat
  BY DEF HandOver, WorkShaped
<1> SUFFICES HandInv' /\ \A i \in Nat : PassedAt(i) \subseteq PassedAt(i)'
  BY <1>2 DEF PassedStep
<1>3. CASE (Serving <=> Serving') /\ UNCHANGED work
  BY <1>1, <1>3 DEF HandInv, PassedAt
<1>4. CASE ~Serving'
  BY <1>1, <1>4 DEF HandInv, PassedAt
<1>5. CASE /\ ~Serving /\ queue # <<>> /\ ~Head(queue).out /\ queue' = Tail(queue)
           /\ work'.n = Head(queue).n /\ UNCHANGED <<card, packets>>
  <2>1. work'.n \in Passed' /\ \A n \in Passed : n < work'.n
    BY <1>5, HeadPasses
  <2> QED
    BY <1>1, <2>1 DEF HandInv, PassedAt
<1>6. CASE Serving /\ Serving' /\ work'.n = work.n /\ work'.at >= work.at
  <2>1. \A i \in Nat : i >= work'.at => i >= work.at
    BY <1>2, <1>6
  <2>2. HandInv'
    BY <1>1, <1>6 DEF HandInv
  <2>3. \A i \in Nat : PassedAt(i) \subseteq PassedAt(i)'
    BY <1>1, <1>6, <2>1 DEF PassedAt
  <2> QED
    BY <2>2, <2>3
<1> QED
  BY <1>3, <1>4, <1>5, <1>6 DEF HandOver

(* A packet that is new to socket i. *)
Fresh(i, x) == PacketShaped(x) /\ x.n \in PassedAt(i)' /\ \A n \in PassedAt(i) : n < x.n

LEMMA OrderedTail ==
    ASSUME NEW ps, IsSeq(ps), ps # <<>>, NEW N, Ordered(ps, N)
    PROVE  /\ Ordered(Tail(ps), N) /\ Head(ps) = ps[1] /\ 1 \in DOMAIN ps
           /\ \A i \in DOMAIN Tail(ps) :
                 i + 1 \in DOMAIN ps /\ Tail(ps)[i] = ps[i + 1] /\ ps[1].n < ps[i + 1].n
<1>1. /\ IsSeq(Tail(ps)) /\ Len(Tail(ps)) = Len(ps) - 1 /\ Len(ps) > 0 /\ Head(ps) = ps[1]
      /\ \A i \in 1 .. Len(ps) - 1 : Tail(ps)[i] = ps[i + 1]
  BY SeqTail
<1>2. /\ Len(ps) \in Nat /\ DOMAIN ps = 1 .. Len(ps) /\ DOMAIN Tail(ps) = 1 .. Len(ps) - 1
  BY <1>1, SeqParts
<1>3. /\ 1 \in DOMAIN ps
      /\ \A i \in DOMAIN Tail(ps) : i + 1 \in DOMAIN ps /\ Tail(ps)[i] = ps[i + 1] /\ 1 < i + 1
      /\ \A i, j \in DOMAIN Tail(ps) : i < j => i + 1 < j + 1
  BY <1>1, <1>2
<1> QED
  BY <1>1, <1>3 DEF Ordered

LEMMA OrderedAppend ==
    ASSUME NEW ps, IsSeq(ps), NEW M, NEW N, Ordered(ps, M), M \subseteq N,
           NEW x, PacketShaped(x), x.n \in N, \A n \in M : n < x.n
    PROVE  Ordered(Append(ps, x), N)
<1> DEFINE qs == Append(ps, x)
<1>1. /\ Len(ps) \in Nat /\ DOMAIN ps = 1 .. Len(ps) /\ DOMAIN qs = 1 .. Len(ps) + 1
      /\ qs[Len(ps) + 1] = x /\ \A i \in 1 .. Len(ps) : qs[i] = ps[i]
  BY SeqAppend, SeqParts
<1> HIDE DEF qs
<1>2. \A i \in DOMAIN qs : (i \in DOMAIN ps /\ qs[i] = ps[i]) \/ qs[i] = x
  <2>1. \A i \in DOMAIN qs : i \in 1 .. Len(ps) \/ i = Len(ps) + 1
    BY <1>1
  <2> QED
    BY <1>1, <2>1
<1>3. \A i, j \in DOMAIN qs : i < j => i \in DOMAIN ps /\ qs[i] = ps[i]
  <2>1. \A i, j \in DOMAIN qs : i < j => i \in DOMAIN ps
    BY <1>1
  <2> QED
    BY <1>1, <2>1
<1>4. Ordered(qs, N)
  BY <1>2, <1>3 DEF Ordered
<1> QED
  BY <1>4 DEF qs

(* What a step may make of the packets of client k of socket i. *)
ClientStep(i, k) ==
    LET ps == sockets'[i].clients[k].packets
        old == sockets[i].clients[k].packets
        known == i \in DOMAIN sockets /\ k \in DOMAIN sockets[i].clients
    IN  \/ ps = <<>>
        \/ known /\ ps = old
        \/ known /\ old # <<>> /\ ps = Tail(old)
        \/ \E x : Fresh(i, x) /\ (ps = <<x>> \/ (known /\ ps = Append(old, x)))

ClientsStep == \A i \in DOMAIN sockets' \ collided' : \A k \in DOMAIN sockets'[i].clients : ClientStep(i, k)

(* Order within a client, and towards what was taken from it before. *)
LEMMA ClientKeepsOrder ==
    ASSUME OrderInv, NEW i, NEW k, i \notin collided, PassedAt(i) \subseteq PassedAt(i)', ClientStep(i, k)
    PROVE  LET ps == sockets'[i].clients[k].packets
           IN  /\ Ordered(ps, PassedAt(i)')
               /\ \A n \in PassedAt(i) :
                     (i \in DOMAIN sockets /\ k \in DOMAIN sockets[i].clients =>
                         \A j \in DOMAIN sockets[i].clients[k].packets :
                            n < sockets[i].clients[k].packets[j].n)
                     => \A j \in DOMAIN ps : n < ps[j].n
<1> DEFINE ps == sockets'[i].clients[k].packets
           old == sockets[i].clients[k].packets
           known == i \in DOMAIN sockets /\ k \in DOMAIN sockets[i].clients
<1> DEFINE M == PassedAt(i)
           N == PassedAt(i)'
<1>1. M \subseteq N
  OBVIOUS
<1>2. known => IsSeq(old) /\ Ordered(old, M)
  BY DEF OrderInv, ClientsOrdered, SocketInv, SocketsShaped, SocketShaped, ClientShaped
<1> HIDE DEF M, N
<1>3. known => Ordered(old, N)
  BY <1>1, <1>2 DEF Ordered
<1> DEFINE After(n) == \A j \in DOMAIN ps : n < ps[j].n
           Later(n) == \A j \in DOMAIN old : n < old[j].n
<1>4. /\ Ordered(ps, N) /\ \A n \in M : (known => Later(n)) => After(n)
  <2>1. CASE ps = <<>>
    BY <2>1 DEF Ordered
  <2>2. CASE known /\ ps = old
    BY <1>3, <2>2
  <2>3. CASE known /\ old # <<>> /\ ps = Tail(old)
    <3>1. IsSeq(old) /\ Ordered(old, N)
      BY <1>2, <1>3, <2>3
    <3> HIDE DEF old, ps
    <3>2. /\ Ordered(ps, N)
          /\ \A j \in DOMAIN ps : j + 1 \in DOMAIN old /\ ps[j] = old[j + 1]
      BY <2>3, <3>1, OrderedTail
    <3> QED
      BY <2>3, <3>2
  <2>4. ASSUME NEW x, Fresh(i, x), ps = <<x>> \/ (known /\ ps = Append(old, x))
        PROVE  Ordered(ps, N) /\ \A n \in M : (known => Later(n)) => After(n)
    <3>1. PacketShaped(x) /\ x.n \in N /\ \A n \in M : n < x.n
      BY <2>4 DEF Fresh, M, N
    <3>2. CASE ps = <<x>>
      <4> HIDE DEF ps
      <4>1. DOMAIN ps = {1} /\ ps[1] = x
        BY <3>2
      <4> QED
        BY <3>1, <4>1 DEF Ordered
    <3>3. CASE known /\ ps = Append(old, x)
      <4>1. IsSeq(old) /\ Ordered(old, M)
        BY <1>2, <3>3
      <4> HIDE DEF old, ps
      <4>2. Ordered(ps, N)
        BY <1>1, <3>1, <3>3, <4>1, OrderedAppend
      <4>3. /\ Len(old) \in Nat /\ DOMAIN old = 1 .. Len(old) /\ DOMAIN ps = 1 .. Len(old) + 1
            /\ ps[Len(old) + 1] = x /\ \A j \in 1 .. Len(old) : ps[j] = old[j]
        BY <3>3, <4>1, SeqAppend, SeqParts
      <4>4. \A j \in DOMAIN ps : (j \in DOMAIN old /\ ps[j] = old[j]) \/ ps[j] = x
        <5>1. \A j \in DOMAIN ps : j \in 1 .. Len(old) \/ j = Len(old) + 1
          BY <4>3
        <5> QED
          BY <4>3, <5>1
      <4> QED
        BY <3>1, <3>3, <4>2, <4>4
    <3> QED
      BY <2>4, <3>2, <3>3
  <2> QED
    BY <2>1, <2>2, <2>3, <2>4 DEF ClientStep
<1> QED
  BY <1>4 DEF M, N

LEMMA OrderKept ==
    ASSUME OrderInv, SocketInv', PassedStep, ClientsStep,
           \A p \in Programs : fd[p].flags # {} => fd'[p].flags # {} /\ fd'[p].sock = fd[p].sock
    PROVE  /\ ClientsOrdered' /\ DOMAIN sockets' \subseteq Nat
           /\ \A i \in DOMAIN sockets' \ collided' : \A p \in Programs :
                 fd'[p].sock = i /\ got[p] # <<>> =>
                    Received(got[p], PassedAt(i)') /\ Before(got[p], sockets'[i])
<1>1. DOMAIN sockets' \subseteq Nat
  BY SeqParts DEF SocketInv, SocketsShaped
<1>2. \A i \in DOMAIN sockets' \ collided' : i \notin collided /\ PassedAt(i) \subseteq PassedAt(i)'
  BY <1>1 DEF PassedStep
<1>3. ClientsOrdered'
  <2>1. ASSUME NEW i \in DOMAIN sockets' \ collided', NEW k \in DOMAIN sockets'[i].clients
        PROVE  Ordered(sockets'[i].clients[k].packets, PassedAt(i)')
    <3>1. i \notin collided /\ PassedAt(i) \subseteq PassedAt(i)' /\ ClientStep(i, k)
      BY <1>2 DEF ClientsStep
    <3> QED
      BY <3>1, ClientKeepsOrder
  <2>2. \A i \in DOMAIN sockets' \ collided' : \A k \in DOMAIN sockets'[i].clients :
            Ordered(sockets[i].clients[k].packets, PassedAt(i))'
    BY <2>1 DEF Ordered
  <2> QED
    BY <2>2 DEF ClientsOrdered
<1>4. ASSUME NEW i \in DOMAIN sockets' \ collided', NEW p \in Programs, fd'[p].sock = i, got[p] # <<>>
      PROVE  Received(got[p], PassedAt(i)') /\ Before(got[p], sockets'[i])
  <2> DEFINE g == got[p]
             N == PassedAt(i)'
  <2>1. fd[p].flags # {} /\ fd[p].sock = i
    BY <1>4 DEF OrderInv
  <2>2. i \in DOMAIN sockets
    BY <2>1 DEF OrderInv, SocketInv, Well
  <2>3. i \notin collided /\ PassedAt(i) \subseteq N
    BY <1>2
  <2>4. Received(g, PassedAt(i)) /\ Before(g, sockets[i])
    BY <1>4, <2>1, <2>2, <2>3 DEF OrderInv, Heard
  <2>5. Received(g, N)
    <3> HIDE DEF N
    <3> QED
      BY <2>3, <2>4 DEF Received
  <2> HIDE DEF g
  <2>6. ASSUME NEW m \in DOMAIN g, NEW k \in DOMAIN sockets'[i].clients, k = g[m].peer
        PROVE  \A j \in DOMAIN sockets'[i].clients[k].packets :
                   g[m].n < sockets'[i].clients[k].packets[j].n
    <3>1. g[m].n \in PassedAt(i)
      BY <2>4, <2>6 DEF Received
    <3>2. i \in DOMAIN sockets /\ k \in DOMAIN sockets[i].clients =>
             \A j \in DOMAIN sockets[i].clients[k].packets : g[m].n < sockets[i].clients[k].packets[j].n
      BY <2>4, <2>6 DEF Before
    <3>3. ClientStep(i, k)
      BY <2>6 DEF ClientsStep
    <3> QED
      BY <2>3, <3>1, <3>2, <3>3, ClientKeepsOrder
  <2>7. Before(g, sockets'[i])
    BY <2>6 DEF Before
  <2> QED
    BY <2>5, <2>7 DEF g
<1> QED
  BY <1>1, <1>3, <1>4

(* A step in which no program takes a packet. *)
LEMMA NothingTaken ==
    ASSUME OrderInv, LineInv', SocketInv', WorkShaped', PassedStep, Opened', ClientsStep, UNCHANGED got,
           \A p \in Programs : fd[p].flags # {} => fd'[p].flags # {} /\ fd'[p].sock = fd[p].sock
    PROVE  OrderInv'
<1>1. /\ ClientsOrdered'
      /\ \A i \in DOMAIN sockets' \ collided' : \A p \in Programs :
            fd'[p].sock = i /\ got[p] # <<>> =>
               Received(got[p], PassedAt(i)') /\ Before(got[p], sockets'[i])
  BY OrderKept
<1>2. ASSUME NEW i \in DOMAIN sockets' \ collided', NEW p \in Programs PROVE Heard(p, i)'
  BY <1>1 DEF Heard, Received, Before
<1>3. HandInv'
  BY DEF PassedStep
<1> QED
  BY <1>1, <1>2, <1>3 DEF OrderInv

(* What a step may do to the descriptors. *)
FdStep ==
    \A p \in Programs :
        /\ fd[p].flags # {} => fd'[p].flags # {} /\ fd'[p].sock = fd[p].sock
        /\ fd[p].open => fd'[p].open
        /\ fd'[p].flags # {} \/ Connecting(th'[p]) =>
              fd[p].flags # {} \/ Connecting(th[p]) \/ fd'[p].open

LEMMA FdStepOpened ==
    ASSUME Opened, FdStep
    PROVE  /\ Opened'
           /\ \A p \in Programs : fd[p].flags # {} => fd'[p].flags # {} /\ fd'[p].sock = fd[p].sock
<1>1. \A p \in Programs : fd'[p].flags # {} \/ Connecting(th'[p]) => fd'[p].open
  BY DEF Opened, FdStep
<1> QED
  BY <1>1 DEF Opened, FdStep, Connecting

LEMMA SocketsStill ==
    ASSUME UNCHANGED sockets
    PROVE  ClientsStep
BY DEF ClientsStep, ClientStep

LEMMA QuietStep ==
    ASSUME UNCHANGED <<sockets, fd>>, \A p \in Programs : Connecting(th'[p]) => Connecting(th[p])
    PROVE  ClientsStep /\ FdStep
BY SocketsStill DEF FdStep

LEMMA QuietThread ==
    ASSUME Threads, UNCHANGED <<sockets, fd>>, NEW c \in Contexts, NEW t, Shaped(t),
           th' = [th EXCEPT ![c] = t],
           c \in Programs => (Connecting(t) => Connecting(th[c]))
    PROVE  ClientsStep /\ FdStep
<1>1. th'[c] = t /\ \A q \in Contexts \ {c} : th'[q] = th[q]
  BY SetThread
<1>2. \A p \in Programs : p = c \/ p \in Contexts \ {c}
  BY DEF Contexts
<1> QED
  BY <1>1, <1>2, QuietStep

(* One descriptor changes. *)
LEMMA OwnFdStep ==
    ASSUME SocketInv, NEW p \in Programs, NEW d, fd' = [fd EXCEPT ![p] = d],
           fd[p].flags # {} => d.flags # {} /\ d.sock = fd[p].sock, fd[p].open => d.open,
           d.flags # {} \/ Connecting(th'[p]) => fd[p].flags # {} \/ Connecting(th[p]) \/ d.open,
           \A q \in Programs \ {p} : th'[q] = th[q]
    PROVE  FdStep
<1>1. fd'[p] = d /\ \A q \in Programs \ {p} : fd'[q] = fd[q]
  BY DEF SocketInv, Descriptors
<1>2. \A q \in Programs : q = p \/ q \in Programs \ {p}
  OBVIOUS
<1> QED
  BY <1>1, <1>2 DEF FdStep

LEMMA SocketAddedClients ==
    ASSUME SocketInv, NEW port, NEW timeout, sockets' = Append(sockets, NewSocket(port, timeout))
    PROVE  ClientsStep
<1>1. /\ DOMAIN sockets' = 1 .. Len(sockets) + 1 /\ DOMAIN sockets = 1 .. Len(sockets) /\ Len(sockets) \in Nat
      /\ sockets'[Len(sockets) + 1].clients = <<>>
      /\ \A j \in DOMAIN sockets : sockets'[j] = sockets[j]
  BY SocketAdded, NoSocketZero
<1>2. \A i \in DOMAIN sockets' : i \in DOMAIN sockets \/ i = Len(sockets) + 1
  BY <1>1
<1>3. DOMAIN sockets'[Len(sockets) + 1].clients = {}
  BY <1>1
<1> QED
  BY <1>1, <1>2, <1>3 DEF ClientsStep, ClientStep

(* One socket changes. *)
LEMMA SocketSetClients ==
    ASSUME SocketInv, NEW i \in DOMAIN sockets, NEW t, Grown(sockets[i], t),
           sockets' = [sockets EXCEPT ![i] = t],
           i \in collided' \/ \A k \in DOMAIN t.clients : ClientStep(i, k)
    PROVE  ClientsStep
<1>1. /\ DOMAIN sockets' = DOMAIN sockets /\ sockets'[i] = t
      /\ \A j \in DOMAIN sockets : j # i => sockets'[j] = sockets[j]
  BY SocketSet
<1>2. ASSUME NEW j \in DOMAIN sockets' \ collided', NEW k \in DOMAIN sockets'[j].clients PROVE ClientStep(j, k)
  <2>1. CASE j = i
    BY <1>1, <1>2, <2>1
  <2>2. CASE j # i
    BY <1>1, <1>2, <2>2 DEF ClientStep
  <2> QED
    BY <2>1, <2>2
<1> QED
  BY <1>2 DEF ClientsStep

LEMMA ResolvedOrder ==
    ASSUME SocketInv, NEW c \in Contexts, NEW addr, NEW mac, Resolved(c, addr, mac),
           c \in Programs => Connecting(th[c])
    PROVE  ClientsStep /\ FdStep
<1>1. /\ Threads /\ th' = [th EXCEPT ![c] = Idle] /\ Shaped(Idle) /\ ~Connecting(Idle)
  BY ShapedIdle DEF Resolved, Connecting, SocketInv
<1>2. CASE c = Netd
  <2>1. UNCHANGED <<sockets, fd>>
    BY <1>2 DEF Resolved
  <2> QED
    BY <1>1, <2>1, QuietThread
<1>3. CASE c \in Programs /\ c # Netd
  <2> DEFINE i == fd[c].sock
             s == sockets[i]
             client == NewClient(addr, fd[c].port, mac, <<>>)
             t == [s EXCEPT !.clients = Append(@, client)]
             m == Len(sockets'[i].clients)
             d == [fd[c] EXCEPT !.client = m, !.flags = @ \union {"connected"}]
  <2>1. Connecting(th[c]) /\ Well(th[c], fd[c], sockets) /\ FdShaped(fd[c])
    BY <1>3 DEF SocketInv, Descriptors
  <2>2. i \in DOMAIN sockets /\ fd[c].flags = {} /\ SocketShaped(s)
    BY <2>1 DEF Well, SocketInv, SocketsShaped
  <2>3. ClientShaped(client) /\ client.packets = <<>>
    <3>1. <<>> \in Seq({})
      OBVIOUS
    <3>2. IsSeq(<<>>)
      BY <3>1 DEF IsSeq
    <3> QED
      BY <3>2 DEF ClientShaped, NewClient
  <2>4. /\ sockets' = [sockets EXCEPT ![i] = t]
        /\ fd' = [fd EXCEPT ![c].client = m, ![c].flags = @ \union {"connected"}]
    BY <1>3 DEF Resolved
  <2> HIDE DEF client, m
  <2>5. /\ Grown(s, t) /\ DOMAIN t.clients = 1 .. Len(s.clients) + 1 /\ Len(s.clients) \in Nat
        /\ DOMAIN s.clients = 1 .. Len(s.clients)
        /\ \A k \in DOMAIN s.clients : t.clients[k] = s.clients[k]
        /\ t.clients[Len(s.clients) + 1] = client
    BY <2>2, <2>3, ClientAppended
  <2> HIDE DEF t
  <2>6. sockets'[i] = t
    BY <2>2, <2>4
  <2>7. ASSUME NEW k \in DOMAIN t.clients PROVE ClientStep(i, k)
    <3>1. CASE k \in 1 .. Len(s.clients)
      BY <2>2, <2>5, <2>6, <3>1 DEF ClientStep
    <3>2. CASE k = Len(s.clients) + 1
      BY <2>3, <2>5, <2>6, <3>2 DEF ClientStep
    <3> QED
      BY <2>5, <3>1, <3>2
  <2>8. ClientsStep
    BY <2>2, <2>4, <2>5, <2>7, SocketSetClients
  <2>9. fd' = [fd EXCEPT ![c] = d]
    <3>1. fd = [p \in Programs |-> fd[p]]
      BY DEF SocketInv, Descriptors
    <3> QED
      BY <1>3, <2>4, <3>1
  <2>10. d.open = fd[c].open /\ d.sock = i
    <3>1. d = [fd[c] EXCEPT !.client = m, !.flags = @ \union {"connected"}]
      OBVIOUS
    <3> HIDE DEF d
    <3>2. fd[c] = [open |-> fd[c].open, sock |-> fd[c].sock, client |-> fd[c].client,
                   port |-> fd[c].port, flags |-> fd[c].flags, timeout |-> fd[c].timeout]
      BY <2>1 DEF FdShaped
    <3>3. d = [open |-> fd[c].open, sock |-> fd[c].sock, client |-> m,
               port |-> fd[c].port, flags |-> fd[c].flags \union {"connected"}, timeout |-> fd[c].timeout]
      BY <3>1, <3>2
    <3> QED
      BY <3>3
  <2> HIDE DEF d
  <2>11. \A q \in Programs \ {c} : th'[q] = th[q]
    BY <1>1, SetThread DEF Contexts
  <2>12. FdStep
    BY <1>3, <2>1, <2>2, <2>9, <2>10, <2>11, OwnFdStep
  <2> QED
    BY <2>8, <2>12
<1> QED
  BY <1>2, <1>3 DEF Contexts

LEMMA ResolveOrder ==
    ASSUME SocketInv, NEW c \in Contexts, NEW addr, Resolve(c, addr),
           c \in Programs => Connecting(th[c])
    PROVE  ClientsStep /\ FdStep
<1>1. CASE \E mac : Resolved(c, addr, mac)
  BY <1>1, ResolvedOrder
<1>2. CASE UNCHANGED <<sockets, fd>> /\ th' = [th EXCEPT ![c] = Waiting(addr, 1)]
  BY <1>2, QuietThread, ShapedWaiting DEF SocketInv
<1> QED
  BY <1>1, <1>2 DEF Resolve

LEMMA WaitOrder ==
    ASSUME SocketInv, NEW c \in Contexts, Wait(c)
    PROVE  ClientsStep /\ FdStep
<1>1. th[c].pc = "resolve" /\ (Look(c) \/ WaitEnds(c)) /\ Connecting(th[c])
  BY DEF Wait, Connecting
<1>2. CASE \E mac : Resolved(c, th[c].addr, mac)
  BY <1>1, <1>2, ResolvedOrder
<1>3. CASE /\ UNCHANGED <<sockets, fd>>
           /\ th' = [th EXCEPT ![c] = Waiting(th[c].addr, th[c].tries + 1)]
  BY <1>1, <1>3, QuietThread, ShapedWaiting DEF SocketInv
<1> QED
  BY <1>1, <1>2, <1>3 DEF Look, WaitEnds

(* What netd stores is newer than all the socket had before. *)
LEMMA ServedOrder ==
    ASSUME SocketInv, WorkShaped, HandInv, Serving, UNCHANGED <<queue, card, packets>>,
           NEW i, NEW t, Served(i, t)
    PROVE  ClientsStep
<1> DEFINE x == UserPacket
<1>1. /\ i \in DOMAIN sockets /\ sockets' = [sockets EXCEPT ![i] = t] /\ Grown(sockets[i], t)
      /\ i >= work.at /\ work'.at = i + 1
  BY DEF Served
<1>2. i \in Nat /\ ~(i >= work'.at)
  BY <1>1, NoSocketZero
<1>3. PacketShaped(x) /\ x.n = work.n
  BY DEF UserPacket, PacketShaped
<1>4. Passed' = Passed
  BY DEF Passed, Under
<1>5. work.n \in PassedAt(i)' /\ \A n \in PassedAt(i) : n < work.n
  BY <1>1, <1>2, <1>4 DEF HandInv, PassedAt
<1> HIDE DEF x
<1>6. Fresh(i, x)
  BY <1>3, <1>5 DEF Fresh
<1>7. sockets'[i] = t
  BY <1>1
<1>8. i \in collided' \/ \A k \in DOMAIN t.clients :
          \/ k \in DOMAIN sockets[i].clients /\ t.clients[k].packets = sockets[i].clients[k].packets
          \/ k \in DOMAIN sockets[i].clients /\ t.clients[k].packets = Append(sockets[i].clients[k].packets, x)
          \/ k \notin DOMAIN sockets[i].clients /\ t.clients[k].packets = <<x>>
  BY DEF Served, x
<1>9. i \in collided' \/ \A k \in DOMAIN t.clients : ClientStep(i, k)
  BY <1>1, <1>6, <1>7, <1>8 DEF ClientStep
<1> QED
  BY <1>1, <1>9, SocketSetClients

LEMMA NetdOrder ==
    ASSUME SocketInv, WorkShaped, HandInv, NetdStep
    PROVE  ClientsStep /\ FdStep
<1>1. CASE Send
  BY <1>1, QuietStep DEF Send
<1>2. ASSUME Propagate \/ Link \/ \E f, n : UdpSniff(f, n), UNCHANGED fd, ClientsStep
      PROVE  ClientsStep /\ FdStep
  <2>1. \A p \in Programs : th'[p] = th[p]
    BY <1>2, ServingThread, NetdMoves DEF SocketInv
  <2> QED
    BY <1>2, <2>1 DEF FdStep
<1>3. CASE Sniff
  <2> DEFINE f == Head(queue).f
  <2>1. \/ UNCHANGED <<th, fd, sockets>>
        \/ UdpSniff(f, Head(queue).n) /\ UNCHANGED <<fd, sockets>>
    BY <1>3 DEF Sniff, UdpSniff, ArpResponder, IcmpResponder, Answer
  <2> QED
    BY <1>2, <2>1, QuietStep, SocketsStill
<1>4. ASSUME Propagate \/ Link, UNCHANGED sockets \/ \E i, t : Served(i, t)
      PROVE  ClientsStep /\ FdStep
  <2>1. Serving /\ UNCHANGED <<fd, queue, card, packets>>
    BY <1>4 DEF Propagate, Link, Serving, NetdStep
  <2>2. ClientsStep
    BY <1>4, <2>1, SocketsStill, ServedOrder
  <2> QED
    BY <1>2, <1>4, <2>1, <2>2
<1>5. CASE Propagate
  BY <1>4, <1>5, PropagateServes
<1>6. CASE Link
  BY <1>4, <1>6, LinkServes
<1>7. CASE Reject
  <2>1. Resolve(Netd, th[Netd].addr)
    BY <1>7 DEF Reject
  <2> QED
    BY <2>1, ResolveOrder, NetdIsNoProgram DEF Contexts
<1> QED
  BY <1>1, <1>3, <1>5, <1>6, <1>7 DEF NetdStep

LEMMA TickOrder ==
    ASSUME SocketInv, Tick
    PROVE  ClientsStep /\ FdStep
<1>1. /\ UNCHANGED <<fd, sockets>>
      /\ th' = [c \in Contexts |-> [th[c] EXCEPT !.left = IF @ > 0 THEN @ - 1 ELSE 0]]
  BY DEF Tick
<1>2. \A c \in Contexts : th'[c].pc = th[c].pc
  BY <1>1 DEF SocketInv, Threads, Shaped
<1>3. \A p \in Programs : Connecting(th'[p]) => Connecting(th[p])
  BY <1>2 DEF Connecting, Contexts
<1> QED
  BY <1>1, <1>3, QuietStep

LEMMA SocketOrder ==
    ASSUME SocketInv, Opened, NEW p \in Programs, Socket(p)
    PROVE  ClientsStep /\ FdStep
<1> DEFINE d == [NoFd EXCEPT !.open = TRUE]
<1>1. UNCHANGED <<th, sockets>> /\ ~fd[p].open /\ fd' = [fd EXCEPT ![p] = d]
  BY DEF Socket
<1>2. fd[p].flags = {} /\ d.open
  BY <1>1 DEF Opened, NoFd
<1> HIDE DEF d
<1>3. FdStep
  BY <1>1, <1>2, OwnFdStep
<1> QED
  BY <1>1, <1>3, SocketsStill

LEMMA SetTimeoutOrder ==
    ASSUME SocketInv, NEW p \in Programs, NEW t, SetTimeout(p, t)
    PROVE  ClientsStep /\ FdStep
<1> DEFINE i == fd[p].sock
           d == [fd[p] EXCEPT !.timeout = t]
           s == [sockets[i] EXCEPT !.timeout = t]
<1>1. /\ UNCHANGED th
      /\ sockets' = IF i = 0 THEN sockets ELSE [sockets EXCEPT ![i] = s]
      /\ fd' = [fd EXCEPT ![p] = d]
  BY DEF SetTimeout
<1>2. FdShaped(fd[p]) /\ Well(th[p], fd[p], sockets)
  BY DEF SocketInv, Descriptors
<1>3. d.sock = i /\ d.flags = fd[p].flags /\ d.open = fd[p].open
  BY <1>2 DEF FdShaped
<1> HIDE DEF d
<1>4. FdStep
  BY <1>1, <1>3, OwnFdStep
<1>5. CASE i = 0
  BY <1>1, <1>4, <1>5, SocketsStill
<1>6. CASE i # 0
  <2>1. i \in DOMAIN sockets /\ SocketShaped(sockets[i])
    BY <1>2, <1>6 DEF Well, SocketInv, SocketsShaped
  <2>2. s.clients = sockets[i].clients /\ Grown(sockets[i], s)
    BY <2>1 DEF SocketShaped, Grown
  <2> HIDE DEF s
  <2>3. sockets' = [sockets EXCEPT ![i] = s]
    BY <1>1, <1>6
  <2>4. sockets'[i] = s
    BY <2>1, <2>3
  <2>5. \A k \in DOMAIN s.clients : ClientStep(i, k)
    BY <2>1, <2>2, <2>4 DEF ClientStep
  <2>6. ClientsStep
    BY <2>1, <2>2, <2>3, <2>5, SocketSetClients
  <2> QED
    BY <1>4, <2>6
<1> QED
  BY <1>5, <1>6

(* bind and connect: an unused descriptor gets a socket. *)
LEMMA UnusedOrder ==
    ASSUME SocketInv, NEW p \in Programs, Unused(p),
           NEW port, NEW timeout, sockets' = Append(sockets, NewSocket(port, timeout)),
           NEW d, fd' = [fd EXCEPT ![p] = d], d.open = fd[p].open,
           \A q \in Programs \ {p} : th'[q] = th[q]
    PROVE  ClientsStep /\ FdStep
<1>1. fd[p].open /\ fd[p].flags = {}
  BY DEF Unused
<1>2. FdStep
  BY <1>1, OwnFdStep
<1> QED
  BY <1>2, SocketAddedClients

LEMMA BindOrder ==
    ASSUME SocketInv, NEW p \in Programs, NEW port, Bind(p, port)
    PROVE  ClientsStep /\ FdStep
<1> DEFINE new == Len(sockets')
           flags == {"server"}
           d == [fd[p] EXCEPT !.sock = new, !.flags = flags]
<1>1. /\ UNCHANGED th /\ Unused(p)
      /\ sockets' = Append(sockets, NewSocket(port, fd[p].timeout))
      /\ fd' = [fd EXCEPT ![p].sock = new, ![p].flags = flags]
  BY DEF Bind
<1>2. FdShaped(fd[p]) /\ fd = [q \in Programs |-> fd[q]]
  BY DEF SocketInv, Descriptors
<1> HIDE DEF new, flags
<1>3. fd' = [fd EXCEPT ![p] = d]
  BY <1>1, <1>2
<1>4. d = [open |-> fd[p].open, sock |-> new, client |-> fd[p].client, port |-> fd[p].port,
           flags |-> flags, timeout |-> fd[p].timeout]
  BY <1>2, FdFlags
<1> HIDE DEF d
<1>5. d.open = fd[p].open /\ \A q \in Programs \ {p} : th'[q] = th[q]
  BY <1>1, <1>4
<1> QED
  BY <1>1, <1>3, <1>5, UnusedOrder

LEMMA ConnectOrder ==
    ASSUME SocketInv, NEW p \in Programs, NEW target, Connect(p, target)
    PROVE  ClientsStep /\ FdStep
<1> DEFINE new == Len(sockets')
           d == [fd[p] EXCEPT !.sock = new, !.port = target.port]
<1>1. /\ Unused(p) /\ th' = [th EXCEPT ![p] = Standing("connect", target.addr, 0)]
      /\ sockets' = Append(sockets, NewSocket(EphemeralPort, fd[p].timeout))
      /\ fd' = [fd EXCEPT ![p].sock = new, ![p].port = target.port]
  BY DEF Connect
<1>2. FdShaped(fd[p]) /\ fd = [q \in Programs |-> fd[q]] /\ Threads
  BY DEF SocketInv, Descriptors
<1> HIDE DEF new
<1>3. fd' = [fd EXCEPT ![p] = d]
  BY <1>1, <1>2
<1>4. d = [open |-> fd[p].open, sock |-> new, client |-> fd[p].client, port |-> target.port,
           flags |-> fd[p].flags, timeout |-> fd[p].timeout]
  BY <1>2, FdPort
<1> HIDE DEF d
<1>5. d.open = fd[p].open
  BY <1>4
<1>6. \A q \in Programs \ {p} : th'[q] = th[q]
  BY <1>1, <1>2 DEF Threads, Contexts
<1> QED
  BY <1>1, <1>3, <1>5, <1>6, UnusedOrder

LEMMA RecvOrder ==
    ASSUME SocketInv, NEW p \in Programs, RecvFrom(p)
    PROVE  ClientsStep /\ FdStep
<1>1. UNCHANGED <<fd, sockets>> /\ p \in Contexts /\ Threads
  BY DEF RecvFrom, Contexts, SocketInv
<1>2. CASE th' = [th EXCEPT ![p] = Standing("poll", 0, fd[p].timeout)]
  <2> DEFINE t == Standing("poll", 0, fd[p].timeout)
  <2>1. Shaped(t) /\ ~Connecting(t)
    BY ShapedStanding DEF Connecting
  <2> HIDE DEF t
  <2> QED
    BY <1>1, <1>2, <2>1, QuietThread DEF t
<1>3. CASE th' = [th EXCEPT ![p] = Junk]
  <2>1. Shaped(Junk) /\ ~Connecting(Junk)
    BY ShapedStanding DEF Junk, Connecting
  <2> QED
    BY <1>1, <1>3, <2>1, QuietThread
<1> QED
  BY <1>2, <1>3 DEF RecvFrom

(* Taking a packet. *)
LEMMA TakeStep ==
    ASSUME SocketInv, NEW p \in Programs, th[p].pc = "poll", NextClient(p) # 0,
           sockets' = [sockets EXCEPT ![fd[p].sock] = Take(@, NextClient(p))]
    PROVE  LET s == fd[p].sock
               i == NextClient(p)
           IN  /\ s \in DOMAIN sockets /\ i \in DOMAIN sockets[s].clients
               /\ sockets[s].clients[i].packets # <<>>
               /\ sockets'[s].clients[i].packets = Tail(sockets[s].clients[i].packets)
               /\ ClientsStep
<1> DEFINE s == fd[p].sock
           i == NextClient(p)
           ps == Tail(sockets[s].clients[i].packets)
           t == Take(sockets[s], i)
<1>1. /\ s \in DOMAIN sockets /\ i \in DOMAIN sockets[s].clients
      /\ sockets[s].clients[i].packets # <<>>
  BY NextClientFound
<1>2. SocketShaped(sockets[s])
  BY <1>1 DEF SocketInv, SocketsShaped
<1>3. IsSeq(ps)
  BY <1>1, <1>2, SeqTail DEF SocketShaped, ClientShaped
<1>4. t = [sockets[s] EXCEPT !.clients[i].packets = ps]
  BY DEF Take
<1>5. sockets' = [sockets EXCEPT ![s] = t]
  OBVIOUS
<1> HIDE DEF t, ps, i, s
<1>6. /\ Grown(sockets[s], t) /\ DOMAIN t.clients = DOMAIN sockets[s].clients
      /\ t.clients[i].packets = ps
      /\ \A k \in DOMAIN sockets[s].clients : k # i => t.clients[k] = sockets[s].clients[k]
  BY <1>1, <1>2, <1>3, <1>4, PacketsSet
<1>7. sockets'[s] = t
  BY <1>1, <1>5
<1>8. ASSUME NEW k \in DOMAIN t.clients PROVE ClientStep(s, k)
  <2>1. CASE k = i
    BY <1>1, <1>6, <1>7, <2>1 DEF ClientStep, ps
  <2>2. CASE k # i
    BY <1>1, <1>6, <1>7, <2>2 DEF ClientStep
  <2> QED
    BY <2>1, <2>2
<1>9. ClientsStep
  BY <1>1, <1>5, <1>6, <1>8, SocketSetClients
<1> QED
  BY <1>1, <1>6, <1>7, <1>9 DEF ps, i, s

LEMMA PeerSet ==
    ASSUME NEW x, PacketShaped(x), NEW k
    PROVE  [x EXCEPT !.peer = k].n = x.n /\ [x EXCEPT !.peer = k].peer = k
BY DEF PacketShaped

LEMMA GotTaken ==
    ASSUME OrderInv, SocketInv', PassedStep, NEW p \in Programs,
           th[p].pc = "poll", NextClient(p) # 0, UNCHANGED fd, fd[p].sock \notin collided',
           sockets' = [sockets EXCEPT ![fd[p].sock] = Take(@, NextClient(p))],
           NEW y, y.peer = NextClient(p), y.n = Head(sockets[fd[p].sock].clients[NextClient(p)].packets).n
    PROVE  \A s : s = fd[p].sock =>
              Received(Append(got[p], y), PassedAt(s)') /\ Before(Append(got[p], y), sockets'[s])
<1> SUFFICES ASSUME NEW s, s = fd[p].sock
             PROVE  Received(Append(got[p], y), PassedAt(s)') /\ Before(Append(got[p], y), sockets'[s])
  OBVIOUS
<1> DEFINE i == NextClient(p)
           old == sockets[s].clients[i].packets
           M == PassedAt(s)
           N == PassedAt(s)'
           g == got[p]
           h == Append(g, y)
<1>1. /\ s \in DOMAIN sockets /\ i \in DOMAIN sockets[s].clients /\ old # <<>>
      /\ sockets'[s].clients[i].packets = Tail(old) /\ ClientsStep
  BY TakeStep DEF OrderInv
<1>2. IsSeq(old) /\ Ordered(old, M)
  <2>1. s \in DOMAIN sockets \ collided
    BY <1>1 DEF PassedStep
  <2> QED
    BY <1>1, <2>1 DEF OrderInv, ClientsOrdered, SocketInv, SocketsShaped, SocketShaped, ClientShaped
<1>3. s \in DOMAIN sockets' \ collided' /\ s \in Nat
  <2>1. s \in DOMAIN sockets'
    BY <1>1
  <2> QED
    BY <1>1, <2>1, NoSocketZero DEF OrderInv
<1>4. /\ Received(g, N) /\ IsSeq(g)
      /\ g # <<>> => Before(g, sockets[s]) /\ Before(g, sockets'[s])
  <2>1. CASE g = <<>>
    BY <2>1, NoList DEF Received
  <2>2. CASE g # <<>>
    <3>1. Received(g, N) /\ Before(g, sockets'[s])
      BY <1>1, <1>3, <2>2, OrderKept
    <3>2. s \in DOMAIN sockets \ collided
      BY <1>1 DEF PassedStep
    <3>3. IsSeq(g) /\ Before(g, sockets[s])
      BY <2>2, <3>2 DEF OrderInv, Heard, Received
    <3> QED
      BY <3>1, <3>3
  <2> QED
    BY <2>1, <2>2
<1>5. M \subseteq N
  BY <1>3 DEF PassedStep
<1> HIDE DEF old, i, g, h, M, N
<1>6. /\ Head(old) = old[1] /\ 1 \in DOMAIN old
      /\ \A j \in DOMAIN Tail(old) : old[1].n < Tail(old)[j].n
  BY <1>1, <1>2, OrderedTail
<1>7. y.n = old[1].n /\ y.peer = i /\ y.n \in N
  <2>1. y.n = Head(old).n /\ y.peer = i
    BY DEF old, i
  <2> QED
    BY <1>2, <1>5, <1>6, <2>1 DEF Ordered
<1>8. /\ Len(g) \in Nat /\ DOMAIN g = 1 .. Len(g) /\ DOMAIN h = 1 .. Len(g) + 1 /\ IsSeq(h)
      /\ h[Len(g) + 1] = y /\ \A j \in 1 .. Len(g) : h[j] = g[j]
  BY <1>4, SeqAppend, SeqParts DEF h
<1>9. \A j \in DOMAIN h : (j \in DOMAIN g /\ h[j] = g[j]) \/ (j = Len(g) + 1 /\ h[j] = y)
  <2>1. \A j \in DOMAIN h : j \in 1 .. Len(g) \/ j = Len(g) + 1
    BY <1>8
  <2> QED
    BY <1>8, <2>1
<1>10. \A j, l \in DOMAIN h : j < l => j \in DOMAIN g /\ h[j] = g[j]
  <2>1. \A j, l \in DOMAIN h : j < l => j \in DOMAIN g
    BY <1>8
  <2> QED
    BY <1>8, <2>1
<1>11. \A j \in DOMAIN g : g # <<>>
  BY <1>8
<1>12. \A j \in DOMAIN g : g[j].peer = i => g[j].n < old[1].n
  BY <1>1, <1>4, <1>6, <1>11 DEF Before, old
<1>13. Received(h, N)
  BY <1>4, <1>7, <1>8, <1>9, <1>10, <1>12 DEF Received
<1>14. ASSUME NEW j \in DOMAIN h, NEW k \in DOMAIN sockets'[s].clients, k = h[j].peer
       PROVE  \A l \in DOMAIN sockets'[s].clients[k].packets : h[j].n < sockets'[s].clients[k].packets[l].n
  <2>1. CASE j \in DOMAIN g /\ h[j] = g[j]
    BY <1>4, <1>11, <1>14, <2>1 DEF Before
  <2>2. CASE h[j] = y
    BY <1>1, <1>6, <1>7, <1>14, <2>2
  <2> QED
    BY <1>9, <2>1, <2>2
<1>15. Before(h, sockets'[s])
  BY <1>14 DEF Before
<1> QED
  BY <1>13, <1>15 DEF h, g, N

LEMMA PollOrder ==
    ASSUME OrderInv, LineInv', SocketInv', WorkShaped', PassedStep, NEW p \in Programs, Poll(p)
    PROVE  OrderInv'
<1> DEFINE s == fd[p].sock
           i == NextClient(p)
           old == sockets[s].clients[i].packets
           y == [Head(old) EXCEPT !.peer = i]
<1>1. /\ UNCHANGED fd /\ th[p].pc = "poll"
      /\ th' = [th EXCEPT ![p] = Idle] \/ th' = [th EXCEPT ![p] = Junk]
      /\ \/ UNCHANGED <<sockets, got>>
         \/ /\ i # 0 /\ sockets' = [sockets EXCEPT ![s] = Take(@, i)]
            /\ UNCHANGED got \/ got' = [got EXCEPT ![p] = Append(@, y)]
  BY DEF Poll
<1>2. i # 0 /\ sockets' = [sockets EXCEPT ![s] = Take(@, i)] =>
         s \in DOMAIN sockets /\ i \in DOMAIN sockets[s].clients /\ old # <<>> /\ ClientsStep
  BY <1>1, TakeStep DEF OrderInv
<1> HIDE DEF y, old, s, i
<1>3. ClientsStep
  BY <1>1, <1>2, SocketsStill
<1>4. FdStep
  <2>1. Threads /\ p \in Contexts /\ ~Connecting(Idle) /\ ~Connecting(Junk)
    BY ShapedStanding DEF OrderInv, SocketInv, Contexts, Connecting, Idle, Junk
  <2>2. \A q \in Programs : Connecting(th'[q]) => Connecting(th[q])
    <3>1. \A q \in Programs \ {p} : th'[q] = th[q]
      BY <1>1, <2>1 DEF Threads, Contexts
    <3>2. ~Connecting(th'[p])
      BY <1>1, <2>1 DEF Threads
    <3> QED
      BY <3>1, <3>2
  <2> QED
    BY <1>1, <2>2 DEF FdStep
<1>5. /\ Opened'
      /\ \A q \in Programs : fd[q].flags # {} => fd'[q].flags # {} /\ fd'[q].sock = fd[q].sock
  BY <1>4, FdStepOpened DEF OrderInv
<1>6. CASE UNCHANGED got
  BY <1>3, <1>5, <1>6, NothingTaken
<1>7. CASE /\ i # 0 /\ sockets' = [sockets EXCEPT ![s] = Take(@, i)]
           /\ got' = [got EXCEPT ![p] = Append(@, y)]
  <2>1. s \in DOMAIN sockets /\ i \in DOMAIN sockets[s].clients /\ old # <<>>
    BY <1>2, <1>7
  <2>2. fd[p].flags # {}
    BY <1>1 DEF OrderInv, SocketInv, Well
  <2>3. /\ ClientsOrdered'
        /\ \A l \in DOMAIN sockets' \ collided' : \A q \in Programs :
              fd'[q].sock = l /\ got[q] # <<>> =>
                 Received(got[q], PassedAt(l)') /\ Before(got[q], sockets'[l])
    BY <1>3, <1>5, OrderKept
  <2>4. /\ got' = [q \in Programs |-> got'[q]] /\ got'[p] = Append(got[p], y)
        /\ \A q \in Programs \ {p} : got'[q] = got[q]
    BY <1>7 DEF OrderInv
  <2>5. \A q \in Programs : got'[q] # <<>> => fd'[q].flags # {}
    BY <1>1, <2>2, <2>4 DEF OrderInv
  <2>6. ASSUME NEW l \in DOMAIN sockets' \ collided', fd[p].sock = l
        PROVE  Received(Append(got[p], y), PassedAt(l)') /\ Before(Append(got[p], y), sockets'[l])
    <3>1. l \in DOMAIN sockets \ collided /\ l = s
      BY <2>1, <2>6 DEF PassedStep, s
    <3>2. IsSeq(old) /\ Ordered(old, PassedAt(l))
      BY <2>1, <3>1 DEF OrderInv, ClientsOrdered, SocketInv, SocketsShaped, SocketShaped, ClientShaped, old
    <3>3. PacketShaped(Head(old))
      BY <2>1, <3>2, OrderedTail DEF Ordered
    <3>4. y.n = Head(old).n /\ y.peer = i
      BY <3>3, PeerSet DEF y
    <3> QED
      BY <1>1, <1>7, <2>6, <3>4, GotTaken DEF old, s, i
  <2>7. ASSUME NEW l \in DOMAIN sockets' \ collided', NEW q \in Programs, fd'[q].sock = l, got'[q] # <<>>
        PROVE  Received(got'[q], PassedAt(l)') /\ Before(got'[q], sockets'[l])
    <3>1. CASE q = p
      BY <1>1, <2>4, <2>6, <2>7, <3>1
    <3>2. CASE q # p
      BY <2>3, <2>4, <2>7, <3>2
    <3> QED
      BY <3>1, <3>2
  <2>8. ASSUME NEW l \in DOMAIN sockets' \ collided', NEW q \in Programs PROVE Heard(q, l)'
    BY <2>7 DEF Heard, Received, Before
  <2>9. HandInv'
    BY DEF PassedStep
  <2> QED
    BY <1>5, <2>3, <2>4, <2>5, <2>8, <2>9 DEF OrderInv
<1> QED
  BY <1>1, <1>6, <1>7

LEMMA InitOrder == Init => OrderInv
<1> SUFFICES ASSUME Init PROVE OrderInv
  OBVIOUS
<1>1. LineInv /\ SocketInv /\ sockets = <<>>
  BY InitLine, InitSockets DEF Init
<1>2. \A p \in Programs : fd[p].flags = {} /\ ~Connecting(th[p])
  BY ShapedIdle DEF Init, NoFd, Connecting, Contexts
<1>3. got = [p \in Programs |-> got[p]] /\ \A p \in Programs : got[p] = <<>>
  BY DEF Init
<1>4. WorkShaped /\ HandInv /\ DOMAIN sockets = {}
  <2>1. Idle.pc = "run" /\ Netd \in Contexts
    BY ShapedIdle DEF Contexts
  <2> QED
    BY <1>1, <2>1, InitWork DEF Init, HandInv, Serving
<1> QED
  BY <1>1, <1>2, <1>3, <1>4 DEF OrderInv, Opened, ClientsOrdered

LEMMA NextKeepsOrder == OrderInv /\ [Next]_vars => OrderInv'
<1> SUFFICES ASSUME OrderInv, [Next]_vars PROVE OrderInv'
  OBVIOUS
<1>1. /\ LineInv' /\ SocketInv /\ SocketInv' /\ WorkShaped /\ WorkShaped' /\ HandInv /\ Opened
      /\ PassedStep
  <2>1. LineInv /\ SocketInv /\ WorkShaped /\ HandInv /\ Opened
    BY DEF OrderInv
  <2>2. LineInv' /\ MovesOn /\ SocketInv' /\ WorkShaped' /\ HandOver
    BY <2>1, NextLine, NextKeepsSockets, NextWork
  <2> QED
    BY <2>1, <2>2, HandGrows
<1>2. ASSUME ClientsStep, FdStep, UNCHANGED got PROVE OrderInv'
  BY <1>1, <1>2, FdStepOpened, NothingTaken
<1>3. ASSUME UNCHANGED <<sockets, fd, th, got>> PROVE OrderInv'
  BY <1>2, <1>3, QuietStep
<1>4. CASE CardSends \/ Interrupt \/ Callback
  BY <1>3, <1>4 DEF CardSends, Interrupt, Callback
<1>5. ASSUME NEW f \in Frames, Arrive(f) PROVE OrderInv'
  BY <1>3, <1>5 DEF Arrive
<1>6. CASE Tick
  BY <1>1, <1>2, <1>6, TickOrder DEF Tick
<1>7. CASE NetdStep
  BY <1>1, <1>2, <1>7, NetdOrder DEF NetdStep
<1>8. ASSUME NEW c \in Contexts, Wait(c) PROVE OrderInv'
  BY <1>1, <1>2, <1>8, WaitOrder DEF Wait
<1>9. ASSUME NEW p \in Programs, Socket(p) PROVE OrderInv'
  BY <1>1, <1>2, <1>9, SocketOrder DEF Socket
<1>10. ASSUME NEW p \in Programs, NEW t \in Timeouts, SetTimeout(p, t) PROVE OrderInv'
  BY <1>1, <1>2, <1>10, SetTimeoutOrder DEF SetTimeout
<1>11. ASSUME NEW p \in Programs, NEW port \in Ports, Bind(p, port) PROVE OrderInv'
  BY <1>1, <1>2, <1>11, BindOrder DEF Bind
<1>12. ASSUME NEW p \in Programs, NEW t \in Targets, Connect(p, t) PROVE OrderInv'
  BY <1>1, <1>2, <1>12, ConnectOrder DEF Connect
<1>13. ASSUME NEW p \in Programs, NEW t \in Targets, SendTo(p, t) PROVE OrderInv'
  BY <1>3, <1>13 DEF SendTo, Others
<1>14. ASSUME NEW p \in Programs, ConnectTo(p) PROVE OrderInv'
  <2>1. p \in Contexts /\ Connecting(th[p]) /\ Resolve(p, th[p].addr) /\ UNCHANGED got
    BY <1>14 DEF ConnectTo, Connecting, Contexts
  <2> QED
    BY <1>1, <1>2, <2>1, ResolveOrder
<1>15. ASSUME NEW p \in Programs, RecvFrom(p) PROVE OrderInv'
  BY <1>1, <1>2, <1>15, RecvOrder DEF RecvFrom
<1>16. ASSUME NEW p \in Programs, Poll(p) PROVE OrderInv'
  BY <1>1, <1>16, PollOrder
<1>17. CASE UNCHANGED vars
  BY <1>3, <1>17 DEF vars
<1> QED
  BY <1>4, <1>5, <1>6, <1>7, <1>8, <1>9, <1>10, <1>11, <1>12, <1>13, <1>14, <1>15, <1>16, <1>17 DEF Next

(* What programs receive from one peer comes in the order it arrived in and once, however many
   frames, sockets and programs there are and wherever their calls fall between netd's steps,
   unless a program took from the list netd was about to store (socket_queue_packet): the
   card's buffer, network_queue and the packets of a client are each taken from the front
   (rtl8139_callback, netd_main, socket_read), and what netd has in hand is older than all
   that comes behind and newer than all the socket had before. *)
THEOREM DatagramsInOrder == Spec => []InOrder
<1>1. OrderInv => InOrder
  <2> SUFFICES ASSUME OrderInv, NEW p \in Programs, fd[p].sock \notin collided,
                      NEW i \in DOMAIN got[p], NEW j \in DOMAIN got[p],
                      i < j /\ got[p][i].peer = got[p][j].peer
               PROVE  got[p][i].n < got[p][j].n
    BY DEF InOrder
  <2>1. got[p] # <<>>
    OBVIOUS
  <2>2. fd[p].sock \in DOMAIN sockets
    BY <2>1 DEF OrderInv, SocketInv, Well
  <2>3. Received(got[p], PassedAt(fd[p].sock))
    BY <2>1, <2>2 DEF OrderInv, Heard
  <2> QED
    BY <2>3 DEF Received
<1> QED
  BY <1>1, InitOrder, NextKeepsOrder, PTL DEF Spec

-----------------------------------------------------------------------------
(* What stays in its bounds: the card's rings, waits and their tries, descriptors. *)

Flags == {addressed, lapped, swallowed} \subseteq BOOLEAN

CardBounded ==
    /\ Len(card.rx) <= RxSlots /\ card.isr \union card.stat \subseteq {"rx", "tx"}
    /\ {card.sending, card.sent, card.next} \union card.pending \union card.held \subseteq Slots

Bounded(t) ==
    /\ t.pc \in {"run", "serve", "link", "connect", "reject", "resolve", "poll", "junk"}
    /\ t.tries \in 0 .. Tries
    /\ t.left \in Nat /\ \E s \in Timeouts \union {1} : t.left <= s

(* Only socket_connect gives a descriptor a client of its own. *)
FdBounded(d) == d.timeout \in Timeouts /\ (d.client # 0 => d.flags = {"connected"})
FdsBounded == \A p \in Programs : FdBounded(fd[p])

LEMMA BoundedPlaces ==
    /\ Bounded(Idle) /\ Bounded(Junk)
    /\ \A addr :
          /\ \A pc \in {"run", "serve", "link", "reject", "connect"} : Bounded(Standing(pc, addr, 0))
          /\ \A s \in Timeouts : Bounded(Standing("poll", addr, s))
          /\ \A n \in 0 .. Tries : Bounded(Waiting(addr, n))
<1>1. Tries \in Nat /\ 0 \in Timeouts /\ Timeouts \subseteq Nat
  BY SizesPositive, TimeoutsInSeconds
<1>2. ASSUME NEW pc \in {"run", "serve", "link", "junk", "reject", "connect", "poll"}, NEW addr, NEW s \in Timeouts
      PROVE  Bounded(Standing(pc, addr, s))
  <2>1. s \in Nat /\ s <= s /\ 0 \in 0 .. Tries
    BY <1>1
  <2> QED
    BY <2>1 DEF Bounded, Standing
<1>3. ASSUME NEW addr, NEW n \in 0 .. Tries PROVE Bounded(Waiting(addr, n))
  BY DEF Bounded, Waiting
<1> QED
  BY <1>1, <1>2, <1>3 DEF Idle, Junk

LEMMA OneBounded ==
    ASSUME Threads, \A c \in Contexts : Bounded(th[c]), NEW c \in Contexts, NEW t, Bounded(t),
           th' = [th EXCEPT ![c] = t]
    PROVE  \A d \in Contexts : Bounded(th'[d])
<1>1. \A d \in Contexts : th'[d] = IF d = c THEN t ELSE th[d]
  BY DEF Threads
<1> QED
  BY <1>1

LEMMA ResolveBounded ==
    ASSUME Threads, \A c \in Contexts : Bounded(th[c]), NEW c \in Contexts, NEW addr, Resolve(c, addr)
    PROVE  \A d \in Contexts : Bounded(th'[d])
<1>1. 1 \in 0 .. Tries
  BY SizesPositive
<1> QED
  BY <1>1, ResolveThread, OneBounded, BoundedPlaces

LEMMA WaitBounded ==
    ASSUME Threads, \A c \in Contexts : Bounded(th[c]), NEW c \in Contexts, Wait(c)
    PROVE  \A d \in Contexts : Bounded(th'[d])
<1>1. \/ th' = [th EXCEPT ![c] = Idle]
      \/ th[c].tries # Tries /\ th' = [th EXCEPT ![c] = Waiting(th[c].addr, th[c].tries + 1)]
  BY ResolvedThread DEF Wait, Look, WaitEnds
<1>2. Tries \in Nat /\ th[c].tries \in 0 .. Tries
  BY SizesPositive DEF Bounded
<1>3. th[c].tries # Tries => th[c].tries + 1 \in 0 .. Tries
  BY <1>2
<1> QED
  BY <1>1, <1>3, OneBounded, BoundedPlaces

LEMMA TickBounded ==
    ASSUME Threads, \A c \in Contexts : Bounded(th[c]), Tick
    PROVE  \A d \in Contexts : Bounded(th'[d])
<1> SUFFICES ASSUME NEW d \in Contexts PROVE Bounded(th'[d])
  OBVIOUS
<1> DEFINE n == IF th[d].left > 0 THEN th[d].left - 1 ELSE 0
<1>1. th'[d] = [th[d] EXCEPT !.left = n]
  BY DEF Tick
<1>2. th[d] = [pc |-> th[d].pc, addr |-> th[d].addr, tries |-> th[d].tries, left |-> th[d].left]
  BY DEF Threads, Shaped
<1>3. n \in Nat /\ n <= th[d].left /\ Bounded(th[d])
  BY DEF Bounded
<1> HIDE DEF n
<1>4. th'[d] = [pc |-> th[d].pc, addr |-> th[d].addr, tries |-> th[d].tries, left |-> n]
  BY <1>1, <1>2
<1>5. \E s \in Timeouts \union {1} : n <= s
  <2>1. PICK s \in Timeouts \union {1} : th[d].left <= s
    BY <1>3 DEF Bounded
  <2>2. s \in Nat /\ th[d].left \in Nat
    BY <1>3, TimeoutsInSeconds DEF Bounded
  <2> QED
    BY <1>3, <2>1, <2>2
<1> QED
  BY <1>3, <1>4, <1>5 DEF Bounded

(* One context moves, if any. *)
LEMMA NextBounded ==
    ASSUME Threads, \A c \in Contexts : Bounded(th[c]), FdsBounded, [Next]_vars
    PROVE  \A d \in Contexts : Bounded(th'[d])
<1>1. CASE UNCHANGED th
  BY <1>1
<1>2. ASSUME NEW c \in Contexts, NEW t, Bounded(t), th' = [th EXCEPT ![c] = t]
      PROVE  \A d \in Contexts : Bounded(th'[d])
  BY <1>2, OneBounded
<1>3. CASE CardSends \/ Interrupt \/ Callback \/ (\E f \in Frames : Arrive(f))
  BY <1>1, <1>3 DEF CardSends, Interrupt, Callback, Arrive
<1>4. CASE Tick
  BY <1>4, TickBounded
<1>5. CASE NetdStep
  <2>1. Netd \in Contexts
    BY DEF Contexts
  <2>2. CASE Reject
    BY <2>1, <2>2, ResolveBounded DEF Reject
  <2>3. CASE Send
    BY <1>1, <2>3 DEF Send
  <2>4. CASE Propagate \/ Link \/ \E f, n : UdpSniff(f, n)
    BY <1>1, <1>2, <2>1, <2>4, ServingThread, BoundedPlaces
  <2>5. CASE Sniff
    <3>1. UNCHANGED th \/ \E f, n : UdpSniff(f, n)
      BY <2>5 DEF Sniff, ArpResponder, IcmpResponder, Answer
    <3> QED
      BY <1>1, <2>4, <3>1
  <2> QED
    BY <1>5, <2>2, <2>3, <2>4, <2>5 DEF NetdStep
<1>6. ASSUME NEW c \in Contexts, Wait(c) PROVE \A d \in Contexts : Bounded(th'[d])
  BY <1>6, WaitBounded
<1>7. ASSUME NEW p \in Programs,
             \/ Socket(p) \/ ConnectTo(p) \/ RecvFrom(p) \/ Poll(p)
             \/ \E t \in Timeouts : SetTimeout(p, t)
             \/ \E port \in Ports : Bind(p, port)
             \/ \E t \in Targets : Connect(p, t) \/ SendTo(p, t)
      PROVE  \A d \in Contexts : Bounded(th'[d])
  <2>1. p \in Contexts
    BY DEF Contexts
  <2>2. CASE ConnectTo(p)
    BY <2>1, <2>2, ResolveBounded DEF ConnectTo
  <2>3. CASE RecvFrom(p)
    <3>1. th' = [th EXCEPT ![p] = Standing("poll", 0, fd[p].timeout)] \/ th' = [th EXCEPT ![p] = Junk]
      BY <2>3 DEF RecvFrom
    <3>2. fd[p].timeout \in Timeouts
      BY DEF FdsBounded, FdBounded
    <3> QED
      BY <1>2, <2>1, <3>1, <3>2, BoundedPlaces
  <2>4. CASE Poll(p)
    <3>1. th' = [th EXCEPT ![p] = Idle] \/ th' = [th EXCEPT ![p] = Junk]
      BY <2>4 DEF Poll
    <3> QED
      BY <1>2, <2>1, <3>1, BoundedPlaces
  <2>5. ASSUME NEW t \in Targets, Connect(p, t) PROVE \A d \in Contexts : Bounded(th'[d])
    <3>1. th' = [th EXCEPT ![p] = Standing("connect", t.addr, 0)]
      BY <2>5 DEF Connect
    <3> QED
      BY <1>2, <2>1, <3>1, BoundedPlaces
  <2>6. CASE \/ Socket(p) \/ (\E t \in Timeouts : SetTimeout(p, t))
             \/ (\E port \in Ports : Bind(p, port)) \/ \E t \in Targets : SendTo(p, t)
    BY <1>1, <2>6 DEF Socket, SetTimeout, Bind, SendTo
  <2> QED
    BY <1>7, <2>2, <2>3, <2>4, <2>5, <2>6
<1>8. CASE UNCHANGED vars
  BY <1>1, <1>8 DEF vars
<1> QED
  BY <1>3, <1>4, <1>5, <1>6, <1>7, <1>8 DEF Next

(* The driver's indices stay within its descriptors, however it and the card race. *)
LEMMA NextCardBounded ==
    ASSUME FramesInv, Flags, CardBounded, [Next]_vars
    PROVE  Flags' /\ CardBounded'
<1>1. CardShaped
  BY DEF FramesInv
<1>2. CASE UNCHANGED <<addressed, card, lapped, swallowed>>
  BY <1>2 DEF Flags, CardBounded
<1>3. CASE CardSends
  <2>1. Flags'
    BY <1>3 DEF CardSends, Flags
  <2>2. PICK i \in card.pending :
           card' = [card EXCEPT !.pending = @ \ {i}, !.next = (i + 1) % TxSlots, !.isr = @ \union {"tx"}]
    BY <1>3 DEF CardSends
  <2>3. (i + 1) % TxSlots \in Slots
    BY SlotsGoRound DEF CardBounded
  <2>4. /\ card'.rx = card.rx /\ card'.isr = card.isr \union {"tx"} /\ card'.stat = card.stat
        /\ card'.pending = card.pending \ {i} /\ card'.next = (i + 1) % TxSlots
        /\ card'.held = card.held /\ card'.sending = card.sending /\ card'.sent = card.sent
    BY <1>1, <2>2 DEF CardShaped
  <2>5. CardBounded'
    BY <2>3, <2>4 DEF CardBounded
  <2> QED
    BY <2>1, <2>5
<1>4. CASE Interrupt
  <2>1. Flags'
    BY <1>4 DEF Interrupt, Flags
  <2>2. /\ card'.rx = card.rx /\ card'.isr = card.isr /\ card'.stat = card.isr
        /\ card'.pending = card.pending /\ card'.next = card.next
        /\ card'.held = card.held /\ card'.sending = card.sending /\ card'.sent = card.sent
    BY <1>1, <1>4 DEF Interrupt, CardShaped
  <2> QED
    BY <2>1, <2>2 DEF CardBounded
<1>5. CASE Callback
  <2>1. Flags'
    BY <1>5 DEF Callback, Flags
  <2> DEFINE c == [card EXCEPT !.irq = FALSE, !.isr = {}, !.stat = {},
                               !.rx = IF "rx" \in card.stat THEN <<>> ELSE @]
  <2>2. /\ c.rx = <<>> \/ c.rx = card.rx
        /\ c.isr = {} /\ c.stat = {} /\ c.pending = card.pending /\ c.next = card.next
        /\ c.held = card.held /\ c.sending = card.sending /\ c.sent = card.sent
    BY <1>1 DEF CardShaped
  <2>3. /\ card'.rx = c.rx /\ card'.isr = {} /\ card'.stat = {}
        /\ card'.pending = c.pending /\ card'.next = c.next /\ card'.sending = c.sending
        /\ card'.held \subseteq c.held /\ card'.sent \in {c.sent, (c.sent + 1) % TxSlots}
    BY <1>1, <1>5, <2>2 DEF Callback, CardShaped, FreeSent
  <2>4. (c.sent + 1) % TxSlots \in Slots
    BY <2>2, SlotsGoRound DEF CardBounded
  <2>5. Len(<<>>) <= RxSlots
    BY SizesPositive
  <2> HIDE DEF c
  <2>6. CardBounded'
    BY <2>2, <2>3, <2>4, <2>5 DEF CardBounded
  <2> QED
    BY <2>1, <2>6
<1>6. ASSUME NEW f \in Frames, Arrive(f) PROVE Flags' /\ CardBounded'
  <2>1. Flags'
    BY <1>6 DEF Arrive, Flags
  <2>2. CASE UNCHANGED card
    BY <2>1, <2>2 DEF CardBounded
  <2>3. ASSUME NEW x, Len(card.rx) < RxSlots,
               card' = [card EXCEPT !.rx = Append(@, x), !.isr = @ \union {"rx"}]
        PROVE  CardBounded'
    <3>1. /\ card'.rx = Append(card.rx, x) /\ card'.isr = card.isr \union {"rx"}
          /\ card'.stat = card.stat /\ card'.pending = card.pending /\ card'.next = card.next
          /\ card'.held = card.held /\ card'.sending = card.sending /\ card'.sent = card.sent
      BY <1>1, <2>3 DEF CardShaped
    <3>2. Len(Append(card.rx, x)) = Len(card.rx) + 1 /\ Len(card.rx) \in Nat
      <4>1. IsSeq(card.rx)
        BY DEF FramesInv, IsSeq
      <4> QED
        BY <4>1, SeqParts, SeqAppend
    <3>3. Len(Append(card.rx, x)) <= RxSlots
      BY <2>3, <3>2, SizesPositive
    <3> QED
      BY <3>1, <3>3 DEF CardBounded
  <2> QED
    BY <1>6, <2>1, <2>2, <2>3 DEF Arrive
<1>7. CASE NetdStep
  <2>1. CASE Send
    <3>1. Flags'
      BY <1>7, <2>1 DEF Send, NetdStep, Flags
    <3>2. /\ card'.rx = card.rx /\ card'.isr = card.isr /\ card'.stat = card.stat
          /\ card'.pending = card.pending \union {card.sending} /\ card'.next = card.next
          /\ card'.held = card.held \union {card.sending} /\ card'.sent = card.sent
          /\ card'.sending = (card.sending + 1) % TxSlots
      BY <1>1, <2>1 DEF Send, CardSend, CardShaped
    <3>3. (card.sending + 1) % TxSlots \in Slots
      BY SlotsGoRound DEF CardBounded
    <3>4. CardBounded'
      BY <3>2, <3>3 DEF CardBounded
    <3> QED
      BY <3>1, <3>4
  <2> QED
    BY <1>2, <1>7, <2>1 DEF NetdStep, Sniff, Propagate, Link, Reject
<1>8. CASE Tick \/ (\E c \in Contexts : Wait(c)) \/ Others \/ UNCHANGED vars
  BY <1>2, <1>8 DEF Tick, Wait, Others, vars
<1>9. ASSUME NEW p \in Programs,
             \/ Socket(p) \/ ConnectTo(p) \/ RecvFrom(p) \/ Poll(p)
             \/ \E t \in Timeouts : SetTimeout(p, t)
             \/ \E port \in Ports : Bind(p, port)
             \/ \E t \in Targets : Connect(p, t) \/ SendTo(p, t)
      PROVE  Others
  BY <1>9 DEF Socket, ConnectTo, RecvFrom, Poll, SetTimeout, Bind, Connect, SendTo
<1> QED
  BY <1>3, <1>4, <1>5, <1>6, <1>7, <1>8, <1>9 DEF Next

(* The call of p gives its descriptor the value d. *)
LEMMA OneFdBounded ==
    ASSUME Descriptors, FdsBounded, NEW p \in Programs, NEW d, FdBounded(d),
           fd' = [fd EXCEPT ![p] = d]
    PROVE  FdsBounded'
<1>1. \A q \in Programs : fd'[q] = IF q = p THEN d ELSE fd[q]
  BY DEF Descriptors
<1> QED
  BY <1>1 DEF FdsBounded

(* A program that is told its peer's address had no client before. *)
LEMMA ResolvedFds ==
    ASSUME SocketInv, FdsBounded, NEW c \in Contexts, NEW addr, NEW mac, Resolved(c, addr, mac),
           c \in Programs => Connecting(th[c])
    PROVE  FdsBounded'
<1>1. CASE c = Netd
  BY <1>1 DEF Resolved, FdsBounded
<1>2. CASE c \in Programs /\ c # Netd
  <2>1. PICK m : fd' = [fd EXCEPT ![c].client = m, ![c].flags = @ \union {"connected"}]
    BY <1>2 DEF Resolved
  <2>2. /\ fd = [p \in Programs |-> fd[p]] /\ fd[c].flags = {} /\ fd[c].timeout \in Timeouts
        /\ FdShaped(fd[c]) /\ Descriptors
    BY <1>2 DEF SocketInv, Descriptors, Well, FdsBounded, FdBounded
  <2> DEFINE d == [fd[c] EXCEPT !.client = m, !.flags = @ \union {"connected"}]
  <2>3. fd' = [fd EXCEPT ![c] = d]
    BY <1>2, <2>1, <2>2
  <2>4. d = [open |-> fd[c].open, sock |-> fd[c].sock, client |-> m,
             port |-> fd[c].port, flags |-> {"connected"}, timeout |-> fd[c].timeout]
    <3>1. fd[c] = [open |-> fd[c].open, sock |-> fd[c].sock, client |-> fd[c].client,
                   port |-> fd[c].port, flags |-> fd[c].flags, timeout |-> fd[c].timeout]
      BY <2>2 DEF FdShaped
    <3>2. d = [fd[c] EXCEPT !.client = m, !.flags = @ \union {"connected"}]
      OBVIOUS
    <3> HIDE DEF d
    <3> QED
      BY <2>2, <3>1, <3>2
  <2>5. d.timeout \in Timeouts /\ d.flags = {"connected"}
    BY <2>2, <2>4
  <2> HIDE DEF d
  <2> QED
    BY <1>2, <2>2, <2>3, <2>5, OneFdBounded DEF FdBounded
<1> QED
  BY <1>1, <1>2 DEF Contexts

LEMMA ResolveFds ==
    ASSUME SocketInv, FdsBounded, NEW c \in Contexts, NEW addr, Resolve(c, addr),
           c \in Programs => Connecting(th[c])
    PROVE  FdsBounded'
<1>1. CASE UNCHANGED fd
  BY <1>1 DEF FdsBounded
<1> QED
  BY <1>1, ResolvedFds DEF Resolve

LEMMA NextFds ==
    ASSUME SocketInv, FdsBounded, [Next]_vars
    PROVE  FdsBounded'
<1>1. CASE UNCHANGED fd
  BY <1>1 DEF FdsBounded
<1>2. CASE \/ CardSends \/ Interrupt \/ Callback \/ Tick \/ UNCHANGED vars
           \/ (\E f \in Frames : Arrive(f))
           \/ \E p \in Programs : RecvFrom(p) \/ Poll(p) \/ \E t \in Targets : SendTo(p, t)
  BY <1>1, <1>2 DEF CardSends, Interrupt, Callback, Tick, Arrive, RecvFrom, Poll, SendTo, vars
<1>3. CASE NetdStep
  <2>1. CASE Send \/ Sniff \/ Propagate \/ Link
    BY <1>1, <2>1 DEF Send, Sniff, UdpSniff, ArpResponder, IcmpResponder, Answer, Propagate, Link
  <2>2. CASE Reject
    <3>1. Netd \in Contexts /\ Netd \notin Programs /\ Resolve(Netd, th[Netd].addr)
      BY <2>2, NetdIsNoProgram DEF Contexts, Reject
    <3> QED
      BY <3>1, ResolveFds
  <2> QED
    BY <1>3, <2>1, <2>2 DEF NetdStep
<1>4. ASSUME NEW c \in Contexts, Wait(c) PROVE FdsBounded'
  <2>1. Connecting(th[c])
    BY <1>4 DEF Wait, Connecting
  <2>2. CASE UNCHANGED fd
    BY <1>1, <2>2
  <2> QED
    BY <1>4, <2>1, <2>2, ResolvedFds DEF Wait, Look, WaitEnds
<1> SUFFICES ASSUME NEW p \in Programs,
                    \/ Socket(p) \/ ConnectTo(p)
                    \/ \E t \in Timeouts : SetTimeout(p, t)
                    \/ \E port \in Ports : Bind(p, port)
                    \/ \E t \in Targets : Connect(p, t)
             PROVE  FdsBounded'
  BY <1>2, <1>3, <1>4 DEF Next
<1>5. Descriptors /\ FdShaped(fd[p]) /\ FdBounded(fd[p])
  BY DEF SocketInv, Descriptors, FdsBounded
<1>6. fd = [q \in Programs |-> fd[q]]
  BY <1>5 DEF Descriptors
<1>7. CASE Socket(p)
  <2> DEFINE d == [NoFd EXCEPT !.open = TRUE]
  <2>1. fd' = [fd EXCEPT ![p] = d]
    BY <1>7 DEF Socket
  <2>2. d.client = 0 /\ d.timeout = 0
    BY DEF NoFd
  <2> HIDE DEF d
  <2> QED
    BY <1>5, <2>1, <2>2, OneFdBounded, TimeoutsInSeconds DEF FdBounded
<1>8. CASE ConnectTo(p)
  <2>1. p \in Contexts /\ Connecting(th[p]) /\ Resolve(p, th[p].addr)
    BY <1>8 DEF ConnectTo, Connecting, Contexts
  <2> QED
    BY <2>1, ResolveFds
<1>9. ASSUME NEW t \in Timeouts, SetTimeout(p, t) PROVE FdsBounded'
  <2> DEFINE d == [fd[p] EXCEPT !.timeout = t]
  <2>1. fd' = [fd EXCEPT ![p] = d]
    BY <1>9 DEF SetTimeout
  <2>2. d.timeout = t /\ d.client = fd[p].client /\ d.flags = fd[p].flags
    BY <1>5 DEF FdShaped
  <2> HIDE DEF d
  <2> QED
    BY <1>5, <2>1, <2>2, OneFdBounded DEF FdBounded
<1>10. ASSUME NEW port \in Ports, Bind(p, port) PROVE FdsBounded'
  <2>1. PICK new, flags : /\ fd' = [fd EXCEPT ![p].sock = new, ![p].flags = flags]
                          /\ fd[p].flags = {}
    BY <1>10 DEF Bind, Unused
  <2> DEFINE d == [fd[p] EXCEPT !.sock = new, !.flags = flags]
  <2>2. fd' = [fd EXCEPT ![p] = d]
    BY <1>6, <2>1
  <2>3. d = [open |-> fd[p].open, sock |-> new, client |-> fd[p].client, port |-> fd[p].port,
             flags |-> flags, timeout |-> fd[p].timeout]
    BY <1>5, FdFlags
  <2>4. d.client = fd[p].client /\ d.timeout = fd[p].timeout
    BY <2>3
  <2>5. fd[p].client = 0
    BY <1>5, <2>1 DEF FdBounded
  <2> HIDE DEF d
  <2> QED
    BY <1>5, <2>2, <2>4, <2>5, OneFdBounded DEF FdBounded
<1>11. ASSUME NEW t \in Targets, Connect(p, t) PROVE FdsBounded'
  <2>1. PICK new, port : fd' = [fd EXCEPT ![p].sock = new, ![p].port = port]
    BY <1>11 DEF Connect
  <2> DEFINE d == [fd[p] EXCEPT !.sock = new, !.port = port]
  <2>2. fd' = [fd EXCEPT ![p] = d]
    BY <1>6, <2>1
  <2>3. d = [open |-> fd[p].open, sock |-> new, client |-> fd[p].client, port |-> port,
             flags |-> fd[p].flags, timeout |-> fd[p].timeout]
    BY <1>5, FdPort
  <2>4. d.client = fd[p].client /\ d.timeout = fd[p].timeout /\ d.flags = fd[p].flags
    BY <2>3
  <2> HIDE DEF d
  <2> QED
    BY <1>5, <2>2, <2>4, OneFdBounded DEF FdBounded
<1> QED
  BY <1>7, <1>8, <1>9, <1>10, <1>11

TypeInv ==
    /\ FramesInv /\ TableInv /\ SocketInv /\ WorkShaped
    /\ Flags /\ CardBounded /\ (\A c \in Contexts : Bounded(th[c])) /\ FdsBounded

LEMMA InitTypes == Init => TypeInv
<1> SUFFICES ASSUME Init PROVE TypeInv
  OBVIOUS
<1>1. FramesInv /\ TableInv /\ SocketInv /\ WorkShaped
  BY InitFrames, InitTable, InitSockets, InitWork
<1>2. Flags
  BY DEF Init, Flags
<1>3. CardBounded
  <2>1. 0 \in Slots /\ Len(<<>>) <= RxSlots
    BY SizesPositive DEF Slots
  <2>2. /\ card.rx = <<>> /\ card.isr = {} /\ card.stat = {} /\ card.pending = {} /\ card.held = {}
        /\ card.next = 0 /\ card.sending = 0 /\ card.sent = 0
    BY DEF Init
  <2> QED
    BY <2>1, <2>2 DEF CardBounded
<1>4. \A c \in Contexts : Bounded(th[c])
  BY BoundedPlaces DEF Init
<1>5. FdsBounded
  BY TimeoutsInSeconds DEF Init, FdsBounded, FdBounded, NoFd
<1> QED
  BY <1>1, <1>2, <1>3, <1>4, <1>5 DEF TypeInv

LEMMA NextKeepsTypes == TypeInv /\ [Next]_vars => TypeInv'
<1> SUFFICES ASSUME TypeInv, [Next]_vars PROVE TypeInv'
  OBVIOUS
<1>1. /\ FramesInv /\ TableInv /\ SocketInv /\ WorkShaped /\ Threads
      /\ Flags /\ CardBounded /\ (\A c \in Contexts : Bounded(th[c])) /\ FdsBounded
  BY DEF TypeInv, SocketInv
<1>2. FramesInv' /\ TableInv' /\ SocketInv' /\ WorkShaped'
  BY <1>1, NextKeepsFrames, NextKeepsTable, NextKeepsSockets, NextWork
<1>3. Flags' /\ CardBounded'
  BY <1>1, NextCardBounded
<1>4. \A c \in Contexts : Bounded(th'[c])
  BY <1>1, NextBounded
<1>5. (\A c \in Contexts : Bounded(th[c]))'
  BY <1>4 DEF Bounded
<1>6. FdsBounded'
  BY <1>1, NextFds
<1> QED
  BY <1>2, <1>3, <1>5, <1>6 DEF TypeInv

(* In every state the card's indices are of its descriptors and its buffer holds no more than
   fits, arp_responder writes to an entry of the table, nobody waits longer than its timeout
   or asks more often than arp_resolve allows, and a descriptor's socket and client exist: for
   any number of programs, frames, slots and tries. *)
THEOREM NothingOutOfBounds == Spec => []TypeOK
<1>1. TypeInv => TypeOK
  <2> SUFFICES ASSUME TypeInv PROVE TypeOK
    OBVIOUS
  <2>1. arp.top \in 1 .. TableSize
    BY DEF TypeInv, TableInv
  <2>2. \A c \in Contexts : Bounded(th[c])
    BY DEF TypeInv
  <2>3. ASSUME NEW p \in Programs
        PROVE  /\ fd[p].sock \in {0} \union DOMAIN sockets
               /\ fd[p].client # 0 => fd[p].client \in DOMAIN sockets[fd[p].sock].clients
    <3>1. Well(th[p], fd[p], sockets) /\ FdBounded(fd[p])
      BY DEF TypeInv, SocketInv, FdsBounded
    <3> QED
      BY <3>1 DEF Well, FdBounded
  <2> QED
    BY <2>1, <2>2, <2>3 DEF TypeInv, TypeOK, Flags, CardBounded, Bounded
<1> QED
  BY <1>1, InitTypes, NextKeepsTypes, PTL DEF Spec
=============================================================================
