------------------------------ MODULE NetQueue ------------------------------
(***************************************************************************)
(* The network queue and its daemon (src/net/net.c: net_transmit,          *)
(* net_receive, netd_main).  Interface interrupts and sending processes    *)
(* add packets and wake netd; netd takes them one at a time with           *)
(* interrupts disabled, handles them with interrupts enabled, and pauses   *)
(* itself when there is none.  The sniffers netd calls send replies        *)
(* (arp_responder, icmp_responder, udp_reject), so netd is a sender too.   *)
(*                                                                         *)
(* One CPU: a process takes steps while it has it, an interrupt may fall   *)
(* between any two steps.  The list itself is an external library's;       *)
(* linked_add is modelled from its use: it takes the head that was read    *)
(* from network_queue, and the head it returns is stored there.            *)
(***************************************************************************)
EXTENDS Integers, SequencesExt

CONSTANTS
  Senders,     \* the processes that send
  Netd,
  MaxPackets   \* bound: packets sent and received in a behaviour

Contexts == Senders \union {Netd}

ASSUME NetdIsNoSender == Netd \notin Senders
ASSUME MaxPacketsNat == MaxPackets \in Nat

VARIABLES
  queue,     \* network_queue
  killed,    \* netd->killed
  cpu,       \* the process that has the CPU
  at,        \* where a context stands: "run", or in net_transmit
  read,      \* the list a context read from network_queue
  work,      \* the packet netd took; 0 when it is about to look for one
  made,      \* packets made; they are numbered
  added,     \* packets whose linked_add was done, in that order
  handled,   \* packets netd is done with, in that order
  raced      \* a linked_add worked on a list that was no longer the queue

vars == <<queue, killed, cpu, at, read, work, made, added, handled, raced>>

Packets == 1..MaxPackets

Adding == [pc : {"run", "link", "wake"}, packet : Packets \union {0}]
Idle == [pc |-> "run", packet |-> 0]

\* net_init: netd looks for work; the drivers and sockets come later.
Init ==
  /\ queue = <<>>
  /\ killed = FALSE
  /\ cpu \in Contexts
  /\ at = [c \in Contexts |-> Idle]
  /\ read = [c \in Contexts |-> <<>>]
  /\ work = 0
  /\ made = 0
  /\ added = <<>> /\ handled = <<>>
  /\ raced = FALSE

-----------------------------------------------------------------------------
\* net_transmit up to the read of network_queue.  netd sends only while it
\* handles a packet.
Transmit(c) ==
  /\ cpu = c /\ at[c].pc = "run" /\ (c = Netd => work # 0)
  /\ made < MaxPackets
  /\ made' = made + 1
  /\ at' = [at EXCEPT ![c] = [pc |-> "link", packet |-> made + 1]]
  /\ read' = [read EXCEPT ![c] = queue]
  /\ UNCHANGED <<queue, killed, cpu, work, added, handled, raced>>

\* What the list may be once linked_add's head is stored.  A node added to a list
\* that was empty, or whose end was looked up before, hides what was added since;
\* one whose head netd took since brings that node back.
Linked(list, p) ==
  {Append(list, p)}
    \union (IF list # <<>> /\ queue # <<>> /\ Head(list) = Head(queue)
            THEN {Append(queue, p)} ELSE {})

\* net_transmit: network_queue = linked_add(network_queue, packet)
Link(c) ==
  LET p == at[c].packet IN
  /\ cpu = c /\ at[c].pc = "link"
  /\ queue' \in Linked(read[c], p)
  /\ raced' = (raced \/ queue' # Append(queue, p))
  /\ added' = Append(added, p)
  /\ at' = [at EXCEPT ![c] = [pc |-> "wake", packet |-> p]]
  /\ UNCHANGED <<killed, cpu, read, work, made, handled>>

\* netd is left paused.
FaultyWakeUp(c) ==
  /\ cpu = c /\ at[c].pc = "wake"
  /\ at' = [at EXCEPT ![c] = Idle]
  /\ read' = [read EXCEPT ![c] = <<>>]
  /\ UNCHANGED <<queue, killed, cpu, work, made, added, handled, raced>>

\* net_transmit: netd->killed = 0
WakeUp(c) ==
  /\ cpu = c /\ at[c].pc = "wake"
  /\ killed' = FALSE
  /\ at' = [at EXCEPT ![c] = Idle]
  /\ read' = [read EXCEPT ![c] = <<>>]
  /\ UNCHANGED <<queue, cpu, work, made, added, handled, raced>>

\* netd is not woken.
FaultyReceive ==
  /\ made < MaxPackets
  /\ made' = made + 1
  /\ queue' = Append(queue, made + 1)
  /\ added' = Append(added, made + 1)
  /\ UNCHANGED <<killed, cpu, at, read, work, handled, raced>>

\* net_receive, called by the interrupt handler of an interface: it is not cut.
Receive ==
  /\ made < MaxPackets
  /\ made' = made + 1
  /\ queue' = Append(queue, made + 1)
  /\ added' = Append(added, made + 1)
  /\ killed' = FALSE
  /\ UNCHANGED <<cpu, at, read, work, handled, raced>>

Netting == cpu = Netd /\ at[Netd].pc = "run"

\* netd_main takes the last packet instead of the first.
FaultyPoll ==
  /\ Netting /\ work = 0
  /\ \/ /\ queue = <<>>
        /\ killed' = TRUE
        /\ UNCHANGED <<queue, work>>
     \/ /\ queue # <<>>
        /\ work' = Last(queue)
        /\ queue' = Front(queue)
        /\ UNCHANGED killed
  /\ UNCHANGED <<cpu, at, read, made, added, handled, raced>>

\* netd_main from disable_interrupts to enable_interrupts.
Poll ==
  /\ Netting /\ work = 0
  /\ \/ /\ queue = <<>>
        /\ killed' = TRUE
        /\ UNCHANGED <<queue, work>>
     \/ /\ queue # <<>>
        /\ work' = Head(queue)
        /\ queue' = Tail(queue)
        /\ UNCHANGED killed
  /\ UNCHANGED <<cpu, at, read, made, added, handled, raced>>

\* netd_main: the packet went out, or was dropped, the sniffers saw it, and it
\* is freed.
Handle ==
  /\ Netting /\ work # 0
  /\ handled' = Append(handled, work)
  /\ work' = 0
  /\ UNCHANGED <<queue, killed, cpu, at, read, made, added, raced>>

\* The scheduler's choice (module Multitasking): any process that is not paused.
Switch(c) ==
  /\ cpu # c /\ (c = Netd => ~killed)
  /\ cpu' = c
  /\ UNCHANGED <<queue, killed, at, read, work, made, added, handled, raced>>

Next ==
  \/ \E c \in Contexts : Transmit(c) \/ Link(c) \/ WakeUp(c) \/ Switch(c)
  \/ Receive \/ Poll \/ Handle

Spec == Init /\ [][Next]_vars

\* What a process does once it has the CPU.
Advance(c) == Link(c) \/ WakeUp(c) \/ (c = Netd /\ (Poll \/ Handle))

\* EveryRunnableRuns of Multitasking: a process that can run gets the CPU again
\* and again, and goes on with what it does.
FairSpec ==
  Spec /\ \A c \in Contexts : SF_vars(Switch(c)) /\ SF_vars(Advance(c))

-----------------------------------------------------------------------------
TypeOK ==
  /\ queue \in Seq(Packets) /\ added \in Seq(Packets) /\ handled \in Seq(Packets)
  /\ killed \in BOOLEAN /\ raced \in BOOLEAN
  /\ cpu \in Contexts
  /\ at \in [Contexts -> Adding]
  /\ \A c \in Contexts : at[c].pc # "run" => at[c].packet # 0
  /\ read \in [Contexts -> Seq(Packets)]
  /\ work \in Packets \union {0}
  /\ made \in 0..MaxPackets

\* netd never sleeps on work: when it is paused although there is a packet, in
\* the queue or in its hands, some sender is about to wake it (netd_main checks
\* and pauses in one go, net_transmit and net_receive add before they wake).
NoLostWakeup ==
  killed /\ (queue # <<>> \/ work # 0) => \E c \in Senders : at[c].pc = "wake"

\* The unprotected store of net_transmit is the only way to lose a packet, to
\* handle one twice or to handle them out of order.
NoRaceNoLoss ==
  ~raced => added = handled \o (IF work = 0 THEN <<>> ELSE <<work>>) \o queue

\* "wake up netd to handle this": a packet that was added is in the queue, in
\* netd's hands, or handled.
NothingLost ==
  \A i \in DOMAIN added : \/ added[i] = work
                          \/ Contains(queue, added[i]) \/ Contains(handled, added[i])

\* Every packet that was added is handled, unless a race lost it: netd, paused or
\* not, gets to it.
EveryPacketHandled ==
  \A p \in Packets :
    Contains(queue, p) ~> (raced \/ Contains(handled, p))

=============================================================================
