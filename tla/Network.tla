------------------------------- MODULE Network -------------------------------
(***************************************************************************)
(* A datagram's way through LemonOS: the RTL8139's rings and interrupt     *)
(* (drivers/ether/rtl8139.c), netd and the sniffers it calls (net/net.c,   *)
(* arp.c, icmp.c, udp.c), sockets and their clients (socket.c), and the    *)
(* programs that wait for it in the Linux socket calls.                    *)
(*                                                                         *)
(* network_queue is a queue here and netd takes from it when there is a    *)
(* packet: what module NetQueue shows of it unless senders race. There is  *)
(* one card; every route leads to it, as no address counts as local        *)
(* (net_ip_is_local compares before it masks).                             *)
(***************************************************************************)
EXTENDS Integers, SequencesExt, FiniteSetsExt

CONSTANTS
    Programs, Netd,
    Frames,         \* what may arrive: records [k, from, mac, sport, dport, len]
    Targets,        \* where programs connect to: records [addr, port]
    Ports,          \* the ports they bind
    Timeouts,       \* SO_RCVTIMEO in seconds, 0 for none
    TableSize,      \* ARP_TABLE_SIZE (32)
    Tries,          \* requests in arp_resolve (6)
    TxSlots,        \* descriptors of the card (4)
    RxSlots,        \* frames its receive buffer holds
    Ephemeral,      \* the first ephemeral port (32768)
    NoMac,
    MaxPackets      \* bound: frames that arrive and datagrams programs send

Contexts == Programs \union {Netd}

ASSUME NetdIsNoProgram == Netd \notin Programs
ASSUME PeersHaveAddresses == \A f \in Frames : f.k = "answer" => f.from # 0 /\ f.mac # NoMac
ASSUME SizesPositive == {TableSize, Tries, TxSlots, RxSlots} \subseteq Nat \ {0}
ASSUME TimeoutsInSeconds == 0 \in Timeouts /\ Timeouts \subseteq Nat

VARIABLES
    addressed,      \* somebody gave the interface an address (net_ctrl, NET_CMD_SET_IP)
    card,           \* the card's rings and the driver's indices
    lapped,         \* two frames were sent on one interrupt, or a descriptor was taken
                    \* whose buffer was not freed
    swallowed,      \* the arrival of a frame was acknowledged without being looked at
    queue,          \* network_queue
    work,           \* the datagram netd hands to the sockets, and how far it is
    collided,       \* sockets of which netd stored a client's list from which a program
                    \* had taken since netd read it
    arp,            \* arp_table, arp_table_top
    th,             \* where each context stands
    sockets,        \* udp_sockets
    fd,             \* the one descriptor of each program
    got,            \* what recvfrom returned to each program
    packets         \* how many frames arrived and datagrams were sent

vars == <<addressed, card, lapped, swallowed, queue, work, collided, arp, th, sockets, fd, got, packets>>

Slots == 0 .. TxSlots - 1

(* There is one CPU, a callback is not interrupted, and what the kernel does once it
   went through a pointer that leads nowhere, or freed what is in use, is not followed. *)
Sound == card.pending \subseteq card.held /\ ~card.twice /\ \A p \in Programs : th[p].pc # "junk"
CpuFree == ~card.irq /\ Sound

Standing(pc, addr, left) == [pc |-> pc, addr |-> addr, tries |-> 0, left |-> left]
Idle == Standing("run", 0, 0)
Junk == Standing("junk", 0, 0)
NoWork == [f |-> [k |-> "none"], n |-> 0, at |-> 0, told |-> FALSE, client |-> 0, list |-> <<>>]
NoFd == [open |-> FALSE, sock |-> 0, client |-> 0, port |-> 0, flags |-> {}, timeout |-> 0]

Init ==
    /\ addressed \in BOOLEAN
    /\ card = [rx |-> <<>>, isr |-> {}, stat |-> {}, irq |-> FALSE, pending |-> {}, next |-> 0,
               held |-> {}, twice |-> FALSE, sending |-> 0, sent |-> 0]
    /\ lapped = FALSE /\ swallowed = FALSE
    /\ queue = <<>> /\ work = NoWork /\ collided = {}
    /\ arp = [entries |-> [i \in 1 .. TableSize |-> [addr |-> 0, mac |-> NoMac]], top |-> 1]
    /\ th = [c \in Contexts |-> Idle]
    /\ sockets = <<>>
    /\ fd = [p \in Programs |-> NoFd]
    /\ got = [p \in Programs |-> <<>>]
    /\ packets = 0

-----------------------------------------------------------------------------
(* The card and its driver. *)

(* A frame arrives, is stored if there is room, and the interrupt status says so. *)
Arrive(f) ==
    /\ packets < MaxPackets /\ packets' = packets + 1
    /\ IF Len(card.rx) < RxSlots
       THEN card' = [card EXCEPT !.rx = Append(@, [f |-> f, n |-> packets']), !.isr = @ \union {"rx"}]
       ELSE UNCHANGED card
    /\ UNCHANGED <<addressed, lapped, swallowed, queue, work, collided, arp, th, sockets, fd, got>>

(* The card sends what the next descriptor holds. *)
CardSends ==
    /\ \E i \in card.pending :
          /\ card.next \in card.pending => i = card.next
          /\ card' = [card EXCEPT !.pending = @ \ {i}, !.next = (i + 1) % TxSlots, !.isr = @ \union {"tx"}]
    /\ lapped' = (lapped \/ "tx" \in card.isr)
    /\ UNCHANGED <<addressed, swallowed, queue, work, collided, arp, th, sockets, fd, got, packets>>

(* rtl8139_callback up to the read of the status. *)
Interrupt ==
    /\ ~card.irq /\ card.isr # {}
    /\ card' = [card EXCEPT !.irq = TRUE, !.stat = card.isr]
    /\ UNCHANGED <<addressed, lapped, swallowed, queue, work, collided, arp, th, sockets, fd, got, packets>>

FaultyFreeSent(c) ==        \* frees the buffer that was made last
    LET last == (c.sending + TxSlots - 1) % TxSlots
    IN  [c EXCEPT !.twice = @ \/ last \notin c.held, !.held = @ \ {last}, !.sent = (@ + 1) % TxSlots]

(* The end of rtl8139_callback: the buffer of one descriptor is freed, however many were sent. *)
FreeSent(c) ==
    [c EXCEPT !.twice = @ \/ c.sent \notin c.held, !.held = @ \ {c.sent}, !.sent = (@ + 1) % TxSlots]

Incoming(rx) == [i \in DOMAIN rx |-> [out |-> FALSE, n |-> rx[i].n, f |-> rx[i].f]]

FaultyHandlePackets(rx) == Reverse(Incoming(rx))    \* from the end of the buffer

FaultyHandlePacket(rx) == SubSeq(Incoming(rx), 1, 1)    \* does not ask whether there is more

(* rtl8139_handle_packet, net_handle_packet: all that is in the buffer. *)
HandlePackets(rx) == Incoming(rx)

(* rtl8139_callback from the acknowledgement on, which covers what came after the read. *)
Callback ==
    /\ card.irq
    /\ LET c == [card EXCEPT !.irq = FALSE, !.isr = {}, !.stat = {},
                             !.rx = IF "rx" \in card.stat THEN <<>> ELSE @]
       IN  card' = IF "tx" \in card.stat THEN FreeSent(c) ELSE c
    /\ queue' = IF "rx" \in card.stat THEN queue \o HandlePackets(card.rx) ELSE queue
    /\ swallowed' = (swallowed \/ "rx" \in card.isr \ card.stat)
    /\ lapped' = (lapped \/ "tx" \in card.isr \ card.stat)
    /\ UNCHANGED <<addressed, work, collided, arp, th, sockets, fd, got, packets>>

(* rtl8139_send_packet: a new buffer for the next descriptor, whatever that holds. *)
CardSend(c) ==
    [c EXCEPT !.pending = @ \union {c.sending}, !.held = @ \union {c.sending}, !.sending = (@ + 1) % TxSlots]

-----------------------------------------------------------------------------
(* ARP. *)

Outgoing(kind, addr, mac) == [out |-> TRUE, n |-> 0, f |-> [k |-> kind, to |-> addr, mac |-> mac]]
Transmit(packet) == queue' = Append(queue, packet)

ArpRequest(addr) == Transmit(Outgoing("ask", addr, NoMac))
IcmpUnreachable(addr, mac) == Transmit(Outgoing("unreachable", addr, mac))

(* arp_lookup: the first entry with the address, up to the first without any. *)
Lookup(addr) ==
    LET hits == {i \in 1 .. TableSize : arp.entries[i].addr \in {0, addr}}
        entry == arp.entries[Min(hits)]
    IN  IF hits = {} \/ entry.addr = 0 THEN NoMac ELSE entry.mac

FaultyStore(f) ==           \* counts before it stores
    arp' = [top |-> (arp.top % TableSize) + 1,
            entries |-> [arp.entries EXCEPT ![(arp.top % TableSize) + 1] = [addr |-> f.from, mac |-> f.mac]]]

FaultyStoreOn(f) ==         \* forgets to start again at the first entry
    arp' = [top |-> arp.top + 1, entries |-> [arp.entries EXCEPT ![arp.top] = [addr |-> f.from, mac |-> f.mac]]]

(* The end of arp_responder: an answer is written behind the last one, round. *)
Store(f) ==
    arp' = [top |-> (arp.top % TableSize) + 1,
            entries |-> [arp.entries EXCEPT ![arp.top] = [addr |-> f.from, mac |-> f.mac]]]

Waiting(addr, tries) == [pc |-> "resolve", addr |-> addr, tries |-> tries, left |-> 1]

(* socket_create_client, socket_create_client_from_packet. *)
NewClient(addr, port, mac, received) == [addr |-> addr, port |-> port, mac |-> mac, packets |-> received]

(* What follows arp_resolve: udp_reject's ICMP packet for netd, the new client for
   a program that connects (socket_connect). *)
Resolved(c, addr, mac) ==
    /\ th' = [th EXCEPT ![c] = Idle]
    /\ IF c = Netd
       THEN IcmpUnreachable(addr, mac) /\ UNCHANGED <<sockets, fd>>
       ELSE /\ sockets' = [sockets EXCEPT ![fd[c].sock].clients =
                               Append(@, NewClient(addr, fd[c].port, mac, <<>>))]
            /\ fd' = [fd EXCEPT ![c].client = Len(sockets'[fd[c].sock].clients),
                                ![c].flags = @ \union {"connected"}]
            /\ UNCHANGED queue

(* arp_resolve up to the first wait. *)
Resolve(c, addr) ==
    IF Lookup(addr) # NoMac THEN Resolved(c, addr, Lookup(addr))
    ELSE /\ ArpRequest(addr)
         /\ th' = [th EXCEPT ![c] = Waiting(addr, 1)]
         /\ UNCHANGED <<sockets, fd>>

FaultyWaitEnds(c) ==        \* starts the count again with every request
    /\ th[c].left = 0
    /\ ArpRequest(th[c].addr)
    /\ th' = [th EXCEPT ![c] = Waiting(th[c].addr, 1)]
    /\ UNCHANGED <<sockets, fd>>

FaultyLastWait(c) ==        \* gives up one try too soon
    /\ th[c].left = 0
    /\ IF th[c].tries + 1 = Tries THEN Resolved(c, th[c].addr, NoMac)
       ELSE /\ ArpRequest(th[c].addr)
            /\ th' = [th EXCEPT ![c] = Waiting(th[c].addr, th[c].tries + 1)]
            /\ UNCHANGED <<sockets, fd>>

(* arp_wait_timeout ends without another look; arp_resolve asks again or gives up. *)
WaitEnds(c) ==
    /\ th[c].left = 0
    /\ IF th[c].tries = Tries THEN Resolved(c, th[c].addr, NoMac)
       ELSE /\ ArpRequest(th[c].addr)
            /\ th' = [th EXCEPT ![c] = Waiting(th[c].addr, th[c].tries + 1)]
            /\ UNCHANGED <<sockets, fd>>

(* A round of the loop in arp_wait_timeout. *)
Look(c) == th[c].left > 0 /\ Lookup(th[c].addr) # NoMac /\ Resolved(c, th[c].addr, Lookup(th[c].addr))

Wait(c) ==
    /\ CpuFree /\ th[c].pc = "resolve"
    /\ Look(c) \/ WaitEnds(c)
    /\ UNCHANGED <<addressed, card, lapped, swallowed, work, collided, arp, got, packets>>

(* A second of the timer. *)
Tick ==
    /\ CpuFree /\ \E c \in Contexts : th[c].left > 0
    /\ th' = [c \in Contexts |-> [th[c] EXCEPT !.left = IF @ > 0 THEN @ - 1 ELSE 0]]
    /\ UNCHANGED <<addressed, card, lapped, swallowed, queue, work, collided, arp, sockets, fd, got, packets>>

-----------------------------------------------------------------------------
(* netd. *)

FaultyOwner(s, f) == 0          \* looks for nobody

(* socket_get_client. *)
Owner(s, f) == SelectInSeq(s.clients, LAMBDA c : c.addr = f.from /\ c.port = f.sport)

(* udp_make_userpacket: the length with its bytes swapped, cut to the frame less all
   headers. len counts UDP's own header of 8 bytes, the swapped length does not. *)
UserLength(len) == LET swapped == (len % 256) * 256 + len \div 256
                   IN  IF swapped + 8 > len THEN len - 8 ELSE swapped

(* netd_main hands a packet that goes out to the card; the sniffers look at incoming ones only. *)
Send ==
    /\ Head(queue).out
    /\ card' = CardSend(card)
    /\ lapped' = (lapped \/ card.sending \in card.held)
    /\ queue' = Tail(queue)
    /\ UNCHANGED <<work, collided, arp, th, sockets, fd>>

(* udp_sniff: the packet is netd's, who is about to walk through the sockets. *)
UdpSniff(f, n) ==
    /\ work' = [NoWork EXCEPT !.f = f, !.n = n, !.at = 1]
    /\ th' = [th EXCEPT ![Netd] = Standing("serve", 0, 0)]
    /\ queue' = Tail(queue)
    /\ UNCHANGED <<arp, sockets, fd>>

Answer(kind, f) ==
    /\ queue' = Append(Tail(queue), Outgoing(kind, f.from, f.mac))
    /\ UNCHANGED <<work, arp, th, sockets, fd>>

(* arp_responder: a request is answered, what is no request is an answer. *)
ArpResponder(f) ==
    \/ f.k = "request" /\ Answer("reply", f)
    \/ f.k = "answer" /\ Store(f) /\ queue' = Tail(queue) /\ UNCHANGED <<work, th, sockets, fd>>

(* icmp_responder. *)
IcmpResponder(f) == f.k = "echo" /\ Answer("pong", f)

(* The sniffers' turn; nothing is for an interface without address. *)
Sniff ==
    LET f == Head(queue).f
    IN  /\ ~Head(queue).out
        /\ \/ ~addressed /\ queue' = Tail(queue) /\ UNCHANGED <<work, arp, th, sockets, fd>>
           \/ addressed /\ f.k = "udp" /\ UdpSniff(f, Head(queue).n)
           \/ addressed /\ (ArpResponder(f) \/ IcmpResponder(f))
        /\ UNCHANGED <<card, lapped, collided>>

UserPacket == [n |-> work.n, len |-> UserLength(work.f.len), peer |-> 0]

(* socket_queue_packet: a new client has the packet from the start; for one that is
   there netd reads its list, with interrupts enabled. *)
QueuePacket(i) ==
    LET s == sockets[i]
        k == Owner(s, work.f)
        f == work.f
    IN  IF k = 0
        THEN /\ sockets' = [sockets EXCEPT ![i].clients =
                                Append(@, NewClient(f.from, f.sport, f.mac, <<UserPacket>>))]
             /\ work' = [work EXCEPT !.at = i + 1, !.told = TRUE]
             /\ UNCHANGED th
        ELSE /\ work' = [work EXCEPT !.at = i, !.client = k, !.list = s.clients[k].packets]
             /\ th' = [th EXCEPT ![Netd] = Standing("link", 0, 0)]
             /\ UNCHANGED sockets

Matching(f) == {i \in DOMAIN sockets : sockets[i].port = f.dport}

(* linked_iterate in udp_sniff: the next socket with the port, those included that came
   meanwhile; after the last, the rejection, if there was none. *)
Propagate ==
    LET left == {i \in Matching(work.f) : i >= work.at}
    IN  /\ th[Netd].pc = "serve"
        /\ IF left # {} THEN QueuePacket(Min(left))
           ELSE /\ th' = [th EXCEPT ![Netd] = IF work.told THEN Idle
                                              ELSE Standing("reject", work.f.from, 0)]
                /\ work' = NoWork
                /\ UNCHANGED sockets
        /\ UNCHANGED <<card, lapped, queue, collided, arp, fd>>

(* client->packets = linked_add(client->packets, packet). What a program took since the
   list was read comes back, unless its socket_free_packet finds and deletes it. *)
Link ==
    LET list == sockets[work.at].clients[work.client].packets
    IN  /\ th[Netd].pc = "link"
        /\ \E kept \in {work.list, list} :
              sockets' = [sockets EXCEPT ![work.at].clients[work.client].packets = Append(kept, UserPacket)]
        /\ collided' = IF list = work.list THEN collided ELSE collided \union {work.at}
        /\ work' = [work EXCEPT !.at = @ + 1, !.told = TRUE, !.client = 0, !.list = <<>>]
        /\ th' = [th EXCEPT ![Netd] = Standing("serve", 0, 0)]
        /\ UNCHANGED <<card, lapped, queue, arp, fd>>

Reject ==
    /\ th[Netd].pc = "reject" /\ Resolve(Netd, th[Netd].addr)
    /\ UNCHANGED <<card, lapped, work, collided, arp>>

NetdStep ==
    /\ CpuFree
    /\ \/ th[Netd].pc = "run" /\ queue # <<>> /\ (Send \/ Sniff)
       \/ Propagate \/ Link \/ Reject
    /\ UNCHANGED <<addressed, swallowed, got, packets>>

-----------------------------------------------------------------------------
(* The socket calls. *)

Others == CpuFree /\ UNCHANGED <<addressed, card, lapped, swallowed, work, collided, arp>>
NewSocket(port, timeout) == [port |-> port, timeout |-> timeout, clients |-> <<>>]
Unused(p) == th[p].pc = "run" /\ fd[p].open /\ fd[p].flags = {}

(* socket_linux_syscall. *)
Socket(p) ==
    /\ th[p].pc = "run" /\ ~fd[p].open
    /\ fd' = [fd EXCEPT ![p] = [NoFd EXCEPT !.open = TRUE]]
    /\ UNCHANGED <<queue, th, sockets, got, packets>> /\ Others

(* setsockopt_linux_syscall: remembered, and passed on to the socket if there is one. *)
SetTimeout(p, t) ==
    /\ th[p].pc = "run" /\ fd[p].open
    /\ fd' = [fd EXCEPT ![p].timeout = t]
    /\ sockets' = IF fd[p].sock = 0 THEN sockets ELSE [sockets EXCEPT ![fd[p].sock].timeout = t]
    /\ UNCHANGED <<queue, th, got, packets>> /\ Others

(* bind_linux_syscall. *)
Bind(p, port) ==
    /\ Unused(p)
    /\ sockets' = Append(sockets, NewSocket(port, fd[p].timeout))
    /\ fd' = [fd EXCEPT ![p].sock = Len(sockets'), ![p].flags = {"server"}]
    /\ UNCHANGED <<queue, th, got, packets>> /\ Others

EphemeralPort == Ephemeral + Cardinality({i \in DOMAIN sockets : sockets[i].port >= Ephemeral})

(* connect_linux_syscall up to socket_connect: netd knows the socket from now on. *)
Connect(p, target) ==
    /\ Unused(p) /\ fd[p].sock = 0
    /\ sockets' = Append(sockets, NewSocket(EphemeralPort, fd[p].timeout))
    /\ fd' = [fd EXCEPT ![p].sock = Len(sockets'), ![p].port = target.port]
    /\ th' = [th EXCEPT ![p] = Standing("connect", target.addr, 0)]
    /\ UNCHANGED <<queue, got, packets>> /\ Others

(* socket_connect. *)
ConnectTo(p) ==
    /\ th[p].pc = "connect"
    /\ Resolve(p, th[p].addr)
    /\ UNCHANGED <<got, packets>> /\ Others

(* udp_socket_write. *)
UdpWrite(client) == Transmit(Outgoing("udp", client.addr, client.mac))

(* sendto_linux_syscall, socket_write_fd: through a client of the socket, if the address is one's. *)
SendTo(p, target) ==
    /\ th[p].pc = "run" /\ fd[p].sock # 0 /\ packets < MaxPackets
    /\ LET s == sockets[fd[p].sock]
           i == SelectInSeq(s.clients, LAMBDA c : c.addr = target.addr /\ c.port = target.port)
       IN  i # 0 /\ UdpWrite(s.clients[i])
    /\ packets' = packets + 1
    /\ UNCHANGED <<th, sockets, fd, got>> /\ Others

(* recvfrom_linux_syscall. What the call does with the packet it never sets, or with
   NULL, is not followed: "junk". *)
RecvFrom(p) ==
    /\ th[p].pc = "run" /\ fd[p].open
    /\ th' = [th EXCEPT ![p] = Standing("poll", 0, fd[p].timeout)]
         \/ th' = [th EXCEPT ![p] = Junk]
    /\ fd[p].flags = {} => th'[p].pc = "junk"
    /\ UNCHANGED <<queue, sockets, fd, got, packets>> /\ Others

(* socket_any_read: the first client with packets; socket_read: the caller's. 0 if there is none. *)
NextClient(p) ==
    LET s == sockets[fd[p].sock]
    IN  IF "server" \in fd[p].flags THEN SelectInSeq(s.clients, LAMBDA c : c.packets # <<>>)
        ELSE IF s.clients[fd[p].client].packets # <<>> THEN fd[p].client ELSE 0

Take(s, i) == [s EXCEPT !.clients[i].packets = Tail(@)]

(* socket_any_poll, socket_poll: with a timeout they return NULL, packet or not. *)
Poll(p) ==
    LET s == fd[p].sock
        limited == sockets[s].timeout # 0
        late == limited /\ th[p].left = 0
        i == IF late THEN 0 ELSE NextClient(p)
    IN  /\ th[p].pc = "poll"
        /\ late \/ i # 0
        /\ sockets' = IF i # 0 THEN [sockets EXCEPT ![s] = Take(@, i)] ELSE sockets
        /\ got' = IF i # 0 /\ ~limited
                  THEN [got EXCEPT ![p] = Append(@, [Head(sockets[s].clients[i].packets) EXCEPT !.peer = i])]
                  ELSE got
        /\ th' = [th EXCEPT ![p] = IF limited THEN Junk ELSE Idle]
        /\ UNCHANGED <<queue, fd, packets>> /\ Others

Next ==
    \/ CardSends \/ Interrupt \/ Callback
    \/ \E f \in Frames : Arrive(f)
    \/ Tick \/ NetdStep
    \/ \E c \in Contexts : Wait(c)
    \/ \E p \in Programs :
          \/ Socket(p) \/ ConnectTo(p) \/ RecvFrom(p) \/ Poll(p)
          \/ \E t \in Timeouts : SetTimeout(p, t)
          \/ \E port \in Ports : Bind(p, port)
          \/ \E t \in Targets : Connect(p, t) \/ SendTo(p, t)

Spec == Init /\ [][Next]_vars

FairSpec ==
    /\ Spec
    /\ WF_vars(Tick) /\ WF_vars(NetdStep) /\ WF_vars(CardSends) /\ WF_vars(Interrupt) /\ WF_vars(Callback)
    /\ \A c \in Contexts : WF_vars(Wait(c))
    /\ \A p \in Programs : WF_vars(ConnectTo(p)) /\ WF_vars(Poll(p))

-----------------------------------------------------------------------------
TypeOK ==
    /\ {addressed, lapped, swallowed} \subseteq BOOLEAN
    /\ Len(card.rx) <= RxSlots /\ card.isr \union card.stat \subseteq {"rx", "tx"}
    /\ {card.sending, card.sent, card.next} \union card.pending \union card.held \subseteq Slots
    /\ arp.top \in 1 .. TableSize
    /\ \A c \in Contexts : th[c].pc \in {"run", "serve", "link", "connect", "reject", "resolve", "poll", "junk"}
                          /\ th[c].tries \in 0 .. Tries
                          /\ th[c].left \in Nat /\ \E t \in Timeouts \union {1} : th[c].left <= t
    /\ \A p \in Programs : /\ fd[p].sock \in {0} \union DOMAIN sockets
                          /\ fd[p].client # 0 => fd[p].client \in DOMAIN sockets[fd[p].sock].clients

(* Through the ring, the interrupt, the queue, netd and the client's list, a program
   gets the datagrams of one peer in the order in which they arrived, and none twice.
   Only a read between netd's look at a client's list and its store there can change that
   (socket_queue_packet runs with interrupts enabled), and only for the socket's own reader. *)
InOrder ==
    \A p \in Programs : fd[p].sock \notin collided => \A i, j \in DOMAIN got[p] :
        i < j /\ got[p][i].peer = got[p][j].peer => got[p][i].n < got[p][j].n

(* A server socket knows a peer once, whatever arrives between two calls:
   socket_queue_packet looks for the client before it makes one. *)
ServerKnowsPeerOnce ==
    \A p \in Programs : "server" \in fd[p].flags =>
        LET cs == sockets[fd[p].sock].clients
        IN  \A i, j \in DOMAIN cs : cs[i].addr = cs[j].addr /\ cs[i].port = cs[j].port => i = j

(* arp_lookup stops at the first entry without address: the table, filled round by
   arp_responder, never has such an entry in front of one that is in use. *)
TableWithoutHoles ==
    \A i \in 1 .. TableSize : arp.entries[i].addr # 0 => Lookup(arp.entries[i].addr) # NoMac

(* While the card may still read a buffer, the driver does not free it, and no buffer is
   freed twice: so long as every frame is reported by an interrupt of its own
   and netd never laps the card (rtl8139_send_packet and rtl8139_callback count apart). *)
SendBuffersKept ==
    ~lapped => card.pending \subseteq card.held /\ ~card.twice

(* netd cannot learn while it waits in arp_resolve: nobody else reads answers, so its
   wait in udp_reject is never ended by one. *)
NetdNeverLearns ==
    [][th[Netd].pc = "resolve" => arp' = arp /\ (th'[Netd].pc # "resolve" => th[Netd].tries = Tries)]_vars

(* Whoever waits for an answer goes on in the end, answered or not (6 tries of a second). *)
ResolutionEnds ==
    \A c \in Contexts : th[c].pc = "resolve" ~> th[c].pc # "resolve" \/ ~Sound

(* A datagram the card has stored for a port on which a program waits without a timeout
   gets to a program, unless an acknowledgement swallowed its arrival. *)
ForWaiting(f, p) ==
    /\ f.k = "udp" /\ addressed /\ fd[p].flags = {"server"} /\ fd[p].timeout = 0
    /\ th[p].pc = "poll" /\ sockets[fd[p].sock].port = f.dport
DatagramsGetThrough ==
    \A p \in Programs :
        (\E i \in DOMAIN card.rx : ForWaiting(card.rx[i].f, p)) ~> (swallowed \/ got[p] # <<>> \/ ~Sound)
=============================================================================
