-------------------------- MODULE NetQueue_proofs --------------------------
(***************************************************************************)
(* Proofs about NetQueue, for any senders and any number of packets.       *)
(***************************************************************************)
EXTENDS NetQueue, SequenceTheorems, TLAPS

(***************************************************************************)
(* The inductive invariant.  netd replies only while it has a packet in    *)
(* hand: without that its own additions could leave it paused on them.     *)
(***************************************************************************)
RepliesFromWork == at[Netd].pc # "run" => work # 0

IndInv == TypeOK /\ RepliesFromWork /\ NoLostWakeup /\ NoRaceNoLoss

InHand == IF work = 0 THEN <<>> ELSE <<work>>

LEMMA HeadConcatTail ==
  ASSUME NEW S, NEW s \in Seq(S), s # <<>>
  PROVE  /\ Head(s) \in S /\ Tail(s) \in Seq(S)
         /\ <<Head(s)>> \o Tail(s) = s
<1>1. /\ Head(s) \in S /\ Tail(s) \in Seq(S) /\ Len(Tail(s)) = Len(s) - 1
      /\ \A i \in 1..Len(Tail(s)) : Tail(s)[i] = s[i + 1]
      /\ Len(s) \in Nat \ {0}
  BY HeadTailProperties, EmptySeq
<1>2. <<Head(s)>> \in Seq(S) /\ Len(<<Head(s)>>) = 1 /\ <<Head(s)>>[1] = s[1]
  BY <1>1
<1>3. /\ <<Head(s)>> \o Tail(s) \in Seq(S)
      /\ Len(<<Head(s)>> \o Tail(s)) = Len(s)
      /\ \A i \in 1..Len(s) : (<<Head(s)>> \o Tail(s))[i] = s[i]
  BY <1>1, <1>2, ConcatProperties
<1> QED BY <1>1, <1>3, SeqEqual

LEMMA InitInd == Init => IndInv
<1> SUFFICES ASSUME Init PROVE IndInv
  OBVIOUS
<1>1. <<>> \in Seq(Packets) /\ Netd \in Contexts /\ Idle \in Adding /\ 0 \in 0..MaxPackets
  BY EmptySeq, MaxPacketsNat DEF Contexts, Idle, Adding
<1>2. TypeOK
  BY <1>1 DEF Init, TypeOK, Idle
<1>3. RepliesFromWork /\ NoLostWakeup
  BY <1>1 DEF Init, RepliesFromWork, NoLostWakeup, Idle
<1>4. <<>> = <<>> \o <<>> \o <<>>
  BY <1>1, ConcatEmptySeq
<1>5. NoRaceNoLoss
  BY <1>4 DEF Init, NoRaceNoLoss
<1> QED BY <1>2, <1>3, <1>5 DEF IndInv

\* A packet at the end of the queue is at the end of what was added.
LEMMA AddedGrows ==
  ASSUME TypeOK, NoRaceNoLoss, ~raced, NEW p \in Packets
  PROVE  Append(added, p) = handled \o InHand \o Append(queue, p)
<1>1. handled \in Seq(Packets) /\ InHand \in Seq(Packets) /\ queue \in Seq(Packets)
  BY EmptySeq DEF TypeOK, InHand
<1>2. added = handled \o InHand \o queue
  BY DEF NoRaceNoLoss, InHand
<1>3. handled \o InHand \in Seq(Packets)
  BY <1>1, ConcatProperties
<1>4. <<p>> \in Seq(Packets) /\ added \in Seq(Packets)
  BY DEF TypeOK
<1>5. Append(added, p) = added \o <<p>> /\ Append(queue, p) = queue \o <<p>>
  BY <1>1, <1>4, AppendIsConcat
<1>6. added \o <<p>> = handled \o InHand \o (queue \o <<p>>)
  BY <1>1, <1>2, <1>3, <1>4, ConcatAssociative
<1> QED BY <1>5, <1>6

LEMMA TransmitInd ==
  ASSUME IndInv, NEW c \in Contexts, Transmit(c)
  PROVE  IndInv'
<1>1. made + 1 \in Packets /\ made + 1 \in 0..MaxPackets /\ made + 1 # 0
  BY MaxPacketsNat DEF Transmit, IndInv, TypeOK, Packets
<1>2. TypeOK'
  BY <1>1 DEF Transmit, IndInv, TypeOK, Adding
<1>3. RepliesFromWork'
  BY DEF Transmit, IndInv, TypeOK, RepliesFromWork
<1>4. NoLostWakeup'
  BY DEF Transmit, IndInv, TypeOK, NoLostWakeup, Contexts
<1>5. NoRaceNoLoss'
  BY DEF Transmit, IndInv, NoRaceNoLoss
<1> QED BY <1>2, <1>3, <1>4, <1>5 DEF IndInv

LEMMA LinkInd ==
  ASSUME IndInv, NEW c \in Contexts, Link(c)
  PROVE  IndInv'
<1> DEFINE p == at[c].packet
<1>1. at[c] \in Adding /\ at[c].pc = "link" /\ p \in Packets
  BY DEF Link, IndInv, TypeOK, Adding
<1>2. /\ at' = [at EXCEPT ![c] = [pc |-> "wake", packet |-> p]]
      /\ queue' \in Linked(read[c], p)
      /\ raced' = (raced \/ queue' # Append(queue, p))
      /\ added' = Append(added, p)
      /\ UNCHANGED <<killed, cpu, read, work, made, handled>>
  BY <1>1 DEF Link, Adding
<1> HIDE DEF p
<1>3. queue' \in Seq(Packets) /\ added' \in Seq(Packets)
  <2>1. \A s \in Seq(Packets) : Append(s, p) \in Seq(Packets)
    BY <1>1, AppendProperties
  <2>2. read[c] \in Seq(Packets) /\ queue \in Seq(Packets) /\ added \in Seq(Packets)
    BY DEF IndInv, TypeOK
  <2>3. \A q \in Linked(read[c], p) : q \in Seq(Packets)
    BY <2>1, <2>2 DEF Linked
  <2> QED BY <1>2, <2>1, <2>2, <2>3
<1>4. TypeOK'
  BY <1>1, <1>2, <1>3 DEF IndInv, TypeOK, Adding, Packets
<1>5. RepliesFromWork'
  BY <1>1, <1>2 DEF IndInv, TypeOK, RepliesFromWork
<1>6. NoLostWakeup'
  <2>1. CASE c = Netd
    BY <1>1, <1>2, <2>1, NetdIsNoSender
       DEF IndInv, TypeOK, RepliesFromWork, NoLostWakeup, Contexts
  <2>2. CASE c \in Senders
    BY <1>2, <2>2 DEF IndInv, TypeOK, NoLostWakeup
  <2> QED BY <2>1, <2>2 DEF Contexts
<1>7. NoRaceNoLoss'
  <2> SUFFICES ASSUME ~raced' PROVE added' = (handled \o InHand \o queue)'
    BY DEF NoRaceNoLoss, InHand
  <2>1. ~raced /\ queue' = Append(queue, p)
    BY <1>2
  <2> QED BY <1>1, <1>2, <2>1, AddedGrows DEF IndInv, InHand
<1> QED BY <1>4, <1>5, <1>6, <1>7 DEF IndInv

LEMMA WakeUpInd ==
  ASSUME IndInv, NEW c \in Contexts, WakeUp(c)
  PROVE  IndInv'
<1>1. <<>> \in Seq(Packets) /\ Idle \in Adding
  BY EmptySeq DEF Idle, Adding
<1>2. TypeOK'
  BY <1>1 DEF WakeUp, IndInv, TypeOK, Idle
<1>3. RepliesFromWork' /\ NoLostWakeup' /\ NoRaceNoLoss'
  BY DEF WakeUp, IndInv, TypeOK, RepliesFromWork, NoLostWakeup, NoRaceNoLoss, Contexts, Idle
<1> QED BY <1>2, <1>3 DEF IndInv

LEMMA ReceiveInd ==
  ASSUME IndInv, Receive
  PROVE  IndInv'
<1>1. made + 1 \in Packets /\ made + 1 \in 0..MaxPackets
  BY MaxPacketsNat DEF Receive, IndInv, TypeOK, Packets
<1>2. TypeOK'
  BY <1>1, AppendProperties DEF Receive, IndInv, TypeOK
<1>3. RepliesFromWork' /\ NoLostWakeup'
  BY DEF Receive, IndInv, RepliesFromWork, NoLostWakeup
<1>4. NoRaceNoLoss'
  BY <1>1, AddedGrows DEF Receive, IndInv, NoRaceNoLoss, InHand
<1> QED BY <1>2, <1>3, <1>4 DEF IndInv

LEMMA PollInd ==
  ASSUME IndInv, Poll
  PROVE  IndInv'
<1>1. CASE queue = <<>>
  BY <1>1 DEF Poll, Netting, IndInv, TypeOK, RepliesFromWork, NoLostWakeup, NoRaceNoLoss
<1>2. CASE queue # <<>>
  <2>1. /\ Head(queue) \in Packets /\ Tail(queue) \in Seq(Packets)
        /\ <<Head(queue)>> \o Tail(queue) = queue
    BY <1>2, HeadConcatTail DEF IndInv, TypeOK
  <2>2. TypeOK'
    BY <1>2, <2>1 DEF Poll, IndInv, TypeOK
  <2>3. RepliesFromWork' /\ NoLostWakeup'
    BY <1>2, <2>1 DEF Poll, Netting, IndInv, RepliesFromWork, NoLostWakeup
  <2>4. NoRaceNoLoss'
    <3>1. Head(queue) # 0 /\ <<Head(queue)>> \in Seq(Packets) /\ handled \in Seq(Packets)
      BY <2>1 DEF IndInv, TypeOK, Packets
    <3>2. handled \o <<>> \o queue = handled \o <<Head(queue)>> \o Tail(queue)
      BY <2>1, <3>1, ConcatEmptySeq, ConcatAssociative
    <3> QED BY <1>2, <3>1, <3>2 DEF Poll, IndInv, NoRaceNoLoss
  <2> QED BY <2>2, <2>3, <2>4 DEF IndInv
<1> QED BY <1>1, <1>2

LEMMA HandleInd ==
  ASSUME IndInv, Handle
  PROVE  IndInv'
<1>1. work \in Packets /\ work # 0 /\ handled \in Seq(Packets) /\ queue \in Seq(Packets)
  BY DEF Handle, IndInv, TypeOK
<1>2. TypeOK'
  BY <1>1, AppendProperties DEF Handle, IndInv, TypeOK
<1>3. RepliesFromWork' /\ NoLostWakeup'
  BY DEF Handle, Netting, IndInv, RepliesFromWork, NoLostWakeup
<1>4. NoRaceNoLoss'
  <2>1. Append(handled, work) = handled \o <<work>> /\ Append(handled, work) \in Seq(Packets)
    BY <1>1, AppendIsConcat, AppendProperties
  <2>2. handled \o <<work>> \o queue = Append(handled, work) \o <<>> \o queue
    BY <2>1, ConcatEmptySeq
  <2> QED BY <1>1, <2>2 DEF Handle, IndInv, NoRaceNoLoss
<1> QED BY <1>2, <1>3, <1>4 DEF IndInv

LEMMA NextInd == IndInv /\ [Next]_vars => IndInv'
<1> SUFFICES ASSUME IndInv, [Next]_vars PROVE IndInv'
  OBVIOUS
<1>1. CASE \E c \in Contexts : Transmit(c)
  BY <1>1, TransmitInd
<1>2. CASE \E c \in Contexts : Link(c)
  BY <1>2, LinkInd
<1>3. CASE \E c \in Contexts : WakeUp(c)
  BY <1>3, WakeUpInd
<1>4. CASE \E c \in Contexts : Switch(c)
  BY <1>4 DEF Switch, IndInv, TypeOK, RepliesFromWork, NoLostWakeup, NoRaceNoLoss
<1>5. CASE Receive
  BY <1>5, ReceiveInd
<1>6. CASE Poll
  BY <1>6, PollInd
<1>7. CASE Handle
  BY <1>7, HandleInd
<1>8. CASE UNCHANGED vars
  BY <1>8 DEF vars, IndInv, TypeOK, RepliesFromWork, NoLostWakeup, NoRaceNoLoss
<1> QED BY <1>1, <1>2, <1>3, <1>4, <1>5, <1>6, <1>7, <1>8 DEF Next

LEMMA Inductive == Spec => []IndInv
<1>1. Init => IndInv
  BY InitInd
<1>2. IndInv /\ [Next]_vars => IndInv'
  BY NextInd
<1> QED BY <1>1, <1>2, PTL DEF Spec

\* The queue, the packet in hand and the senders' places keep their types
\* (net_transmit, net_receive, netd_main).
THEOREM TypeCorrect == Spec => []TypeOK
<1>1. IndInv => TypeOK
  BY DEF IndInv
<1> QED BY <1>1, Inductive, PTL

\* netd never sleeps on a packet, however sends, interrupts and its own replies
\* interleave: the check and the pause of netd_main cannot be separated.
THEOREM NetdIsWoken == Spec => []NoLostWakeup
<1>1. IndInv => NoLostWakeup
  BY DEF IndInv
<1> QED BY <1>1, Inductive, PTL

\* Packets are handled in the order in which they were added, each once, as long
\* as no linked_add worked on an outdated list (net_transmit).
THEOREM OnlyRacesLose == Spec => []NoRaceNoLoss
<1>1. IndInv => NoRaceNoLoss
  BY DEF IndInv
<1> QED BY <1>1, Inductive, PTL

=============================================================================
