# A TLA+ model of the LemonOS kernel

LemonOS (`src/`) is a hobby kernel for 32-bit x86: one address space, everything
in ring 0, one CPU scheduled (others are started and parked), preemptive
round-robin processes, a heap, an event and a network daemon, drivers, a small
VFS. There is no lock in use; the only protection is the interrupt flag. What is
hard about it is therefore *where interrupts are enabled*: the timer may take the
CPU, and a device's handler may run, between any two steps made with them enabled.

This directory models that: the scheduler, the heap, the network queue, files on
FAT32 with the power going off, disks that share a channel, a datagram's way from the
card to a program, and input events with sleep mode. TLC checks the models on small
instances, TLAPS proves the central safety properties of each for every instance.

Paths below are relative to `src/src/`.

## Inventory

| Component | State | Operations | Talks to | What makes it correct |
|---|---|---|---|---|
| multitasking (`multitasking/`) | `procs`, `proc_step`, `proc_count`, `pid_top`, current and active process, control blocks | create, append, fork, pause, kill, switch, yield, exception | everybody | list, count and pointers agree; no freed block listed; CPU only to unpaused processes; what a process set is there when it runs again; everyone runs |
| timer (`time/pit.c`) | `ticks`, sleep schedule | `pit_callback` | calls `switch_task` | no lost or torn time |
| heap (`memory/memory.c`) | header chain, `used_memory` | malloc, calloc, free | everybody, interrupt handlers too | blocks disjoint, data kept, chain intact and ended |
| generic allocators (`memory/allocators.c`) | the same, for video memory | alloc, free | `s3virge.c` | as the heap |
| events (`input/input.c`) | `events`, `dispatchd` | broadcast, send, dispatch | handlers of all processes | every event delivered once, in order |
| keyboard, mouse (`drivers/input/`) | `next_byte`, held keys, `mouse_cycle` | interrupt handlers | `broadcast_event` | held keys agree with the keys, cycle keeps in step |
| network core (`net/net.c`) | `network_queue`, `netd`, interfaces, sniffers, routes | transmit, receive, `netd_main`, elect, route | drivers, sniffers | every packet handled once, netd never sleeps on work |
| ARP (`net/arp.c`) | table of 32 | request, lookup, wait | netd | an answer is found until it is overwritten, waits end |
| UDP, ICMP, sockets (`net/`) | sockets, clients, packet lists | open, connect, send, poll, close | netd, system calls | each packet to its reader, once, in order; a peer has one client |
| network cards (`drivers/ether/`) | send and receive rings | send, interrupt | `net_receive` | no buffer freed or overwritten while the card has it |
| drives (`fs/drive.c`, `fs/ide.c`) | registers of a channel, the disks | read, write any run of bytes | VFS | a write changes what it should and nothing else; every request ends |
| VFS (`fs/fs.c`), FAT32 (`fs/interfaces/`) | nodes, descriptors; the table on disk | path walk, read, write, create, mount | drives | chains are disjoint and end, no cluster lost, what was written is read, whenever the power fails |
| system calls (`syscalls/`) | personalities | two gates, a table per personality | all of the above | interrupt flag of the caller restored |
| program loading (`bin_formats/elf.c`, `boot/`) | – | load paused | multitasking | a loaded program is resumed once it is complete |
| graphics (`graphics/`) | windows, `window_count` | start button, windows | events, multitasking | list and count agree |
| sysrq, sleep (`syscalls/sysrq.c`, `power/sleep.c`) | the chord; `in_sleep_mode`, schedule | enter, wake | timer, keyboard | wakes up, and restarts the timer |
| the rest: audio, RNG/TPM, PCI/USB, text, mathematics, ports, panic, firmware tables, CPU helpers | registers, tables | programming of devices, decoding | – | not state machines worth a model |

`PROJECT.json` lists each part with its status, and the places where it can go
wrong ("hazards") with the property that looks at it.

## Modules

| Module | Models | Checked by | Proved in |
|---|---|---|---|
| `Multitasking` | process table, scheduler, its callers | `MCMultitasking` with four configurations | `Multitasking_proofs`, `Execution_proofs` |
| `Allocator` | what a heap promises (abstract) | | |
| `Heap` | `memory.c`, refines `Allocator` | `MCHeap` with two | `Heap_proofs` |
| `NetQueue` | network queue and netd | `MCNetQueue` with two | `NetQueue_proofs` |
| `Fat32` | the FAT32 driver as operators on a disk | with `Files` | with `Files` |
| `Files` | VFS, mount points, file system calls, boots and crashes | `MCFiles` | `Files_proofs` |
| `Drive` | requests of bytes as sectors, ATA disks on two channels | `MCDrive` | `Drive_proofs` |
| `Network` | card, netd's sniffers, ARP, UDP, sockets, socket calls | `MCNetwork` | `Network_proofs` |
| `Input` | keyboard, mouse, event queue, moused, sysrqd, sleep | `MCInput` | `Input_proofs` |

`Files` extends `Fat32`, and takes from `Drive` that a sector which is written is there. `Network` takes from `NetQueue` that the queue is one (its
races are studied there), `Input` from `Multitasking` that a process that can run gets
the CPU again (`EveryRunnableRuns`); `Heap` stands for itself.

Operators named `Faulty...` are variants of the definition below them with a
plausible bug (a forgotten decrement, a start from the list's head). They are
unused; replacing the definition by one makes the property named in
`PROJECT.json` fail, which shows that the property says something about the code.

### Multitasking

State: `procs` is the linked list as a sequence of control blocks, `proc_step`
the block of the node it points to, `pcb` the fields of `process_t` that the
scheduler and its callers read (`killed` is the pause flag, `active` the saved
active process, `intr` the interrupt flag the process resumes with, which really
lies on its stack), `th` where the code of each process stands, `intr` the CPU's
flag, `mode` whether the system runs, has panicked, or is caught in
`get_next_step`.

A block is never allocated again, so a use of a freed block stays visible; pids
are what the code makes them, including equal ones. (`main.c:68` sets `pid_top`
to 3, which it is already when netd exists; the model lets it count on.)

Steps are what the code does between two points where an interrupt is possible
and matters. `append_process`, `switch_task`, `kill` run with interrupts disabled
and are one action each. Creation is cut into `AllocProcess` (the read of
`pid_top`), `StorePidTop`, `AppendProcess`, `StartProcess`, `ConfigProcess` (what
the caller does to the block it gets), `ResumeProgram` (the start button).
`Tick` is the timer, possible whenever `intr` holds; `Yield` the assembly routine,
which keeps the caller's flag. Daemons pause themselves (`DaemonPause`) and are
woken from anywhere, interrupt handlers included (`Wake`). A broadcast goes over
the list node by node (`BroadcastStart`, `BroadcastNext`) with interrupts enabled,
so processes come and go meanwhile; the next pointer of a freed node may be
anything. Programs enter system calls with interrupts disabled by both gates
(`int 0x80`, and the fast entry at 0x600, which always enables them at the end);
read and write enable them inside. They fork and load only there; they load
programs paused and resume them from user space (`LaunchProgram`, external).
`SendEvent` is the IPC call, which runs the receiver's handler in the caller.

`kill(pid, signal)`: the kernel itself only calls `kill(-1, 9)` (exit, return from
the entry point, exceptions). The action `Kill` is the whole function all the same,
for callers in user space that get at it; its early returns leave interrupts
disabled, as the code's do. Because of pid collisions, `kill(-1)` may remove another
process than the caller; the caller then continues as `"stale"`, with the context
of its last switch, and two invariants do not speak of such a process.

Properties: `SchedulerConsistent`, `ListedIsAllocated`, `NeverSchedulePaused`,
`ActiveRestored`, `InterruptFlagOwned`, `NoLockup`, `EveryRunnableRuns`; and two
that fail, `PidsUnique` and `SystemSurvivesKill`.

### Heap and Allocator

Units of 16 bytes: a request of s bytes takes s/16, rounded up, plus one unit.
Rounding makes every block, its 8-byte header included, a whole number of units
(`memory.c:49` and 90-92), so `split`'s test for 16 spare bytes is `u > n`. `hdr`
holds what lies wherever a header may be, real headers and data alike: data is
taken from `Garbage`, which reads as a block in use. `Walk` is the sequence of
headers malloc's loop visits; the action `Malloc` picks the first step at which the
loop stops and does what the body does there: fits, grows the chain, merges a run,
or reports corruption. When a free block is used, `used_memory` is added to after
interrupts are restored; `CountUsed` is that step, and another caller may come
between. When the chain grows it is added to at once.

Memory behind `heap_end` is taken to keep what is written to it. `HeapIsAllocator`
is the refinement: the blocks handed out behave as `Allocator` promises.

### NetQueue

`network_queue` as a sequence, netd, senders and the interface's interrupt.
`net_transmit` is three steps: read of the head (`Transmit`), linking and storing
(`Link`), waking (`WakeUp`). `linked_add` is an external library's; `Linked` says
what the stored head may lead to when the list changed in between: nodes hidden,
the new node at the real end, or a node that was taken brought back. `raced` records that a
`Link` did not simply append. `Poll` is netd's part with interrupts disabled,
`Handle` the rest; netd sends while it handles, as its sniffers do. `Switch` is the
scheduler's choice, abstracted from `Multitasking`.

Not modelled: a sender paused for good between `Link` and `WakeUp` (nothing in
the kernel pauses another process there) or ended there by an exception.

### Fat32 and Files

`Fat32` has no variables. A disk is the table `fat`, the directory slots and the data
of each cluster; a cluster is one sector, as the code reads and writes only the first
of a cluster anyway. Operators that write take and return a session: the disk, the log
of all disks in between (one per sector written), the cached table sector, and the
reason (`bad`) for which the code can no longer be followed. Entries are "long" slots
and a "short" one, so that an entry may straddle two clusters. `Window` is the buffer
of two clusters the code walks in; a walk that leaves it or follows a chain to
nowhere ends in `Lost`, one that meets a zero slot in `End` (NULL). The driver's loops are
one turn (`SeekTurn`, `FreeTurn`, `FillTurn`) done `After` enough times: no chain without
a ring is longer than the disk, and a turn that has nothing left to do changes nothing.

`Files` has the nodes, mount points and descriptors, and the disk of the first drive.
`Boot` is `fs_init`; `OpenFile`, `CreatFile`, `ReadFd`, `WriteFd` are the system calls,
each the whole path walk and every write below it; each may instead end by the power
going off behind any of its writes (`Crashes`), `PowerOff` between two. Nodes that
several walks share (devices, the copies in mount points) and those of descriptors
have an identity and a `live` flag; a walk's own node has not.

What the code does to the disk that no caller could want is named in `damage`, and the
model ends there, because the behaviour from then on is that of a corrupt disk:

- `stale`: `fat_write` needs a table entry its own allocation changed after it read the
  sector (`fat32.c:361`, 381, 398): any write of a whole sector or more to a new file.
- `cut`: a rewrite shorter than the file frees the rest of the chain, but the last
  cluster kept still points to it (399-403).
- `full`: `fat_alloc_cluster` found nothing in the first quarter of the table, and 0 is
  used as a cluster.
- `lost`: a seek past the chain's end, or a walk in a full directory.
- `torn`: an entry's slots do not fit in the last cluster of a directory.
- `freed`: a node is used that a walk through a mount point freed (`fs.c:135`, 178).

The properties say what holds as long as none of this has happened, for every
interleaving of boots, calls and crashes; `WritesWithinChain` says which writes are
safe, by how far a write goes (`Reach`: one that begins within a cluster leaves it, even if
there is room for more) and how long the file's chain is, `ReadsRight` which reads.

Not a damage but part of the model is what happens to an entry that goes over a cluster's
border. Walks over a directory go on in the chain's next cluster, but `fat_search_node`
and `fat_backtrack` read the entry of the directory they start from with the 512 bytes that
follow it on the disk (`fat32.c:272`, 608; `EntryOnDisk`): with the beginning of whatever
cluster is the neighbour. If the chain does not go on there (`Together` is false), the directory is taken for
a file, for another directory, or for one that was deleted. `".."` then leads nowhere or
elsewhere, and what is created in it by way of a freed directory's slots is lost with its clusters. So
`DotDotLeadsBack` is about directories whose own entry lies together (the one it leads back
to may lie anywhere), and `NothingLeaks` excepts disks on which an entry leads to a directory outside
all chains (`Astray`). TLC finds a counterexample to each as soon as its condition is dropped. Further oddities that the operators follow: `file->size` is set to the bytes of
the last write whatever the offset; a read past the sector's end copies what lies
behind the buffer (`"junk"`); names whose last chunk of 13 has 6 to 12 characters are
stored with left-over characters of the stack (`NameStored`); creat makes a second
entry with the same name; the second boot with two drives creates a stray directory
in the first drive's directory and settles then (`BootSettles`).

Left out: two processes inside the driver at once (system calls enable interrupts, so
it can happen, and every sector read, changed and written back would race), files on
other drives than the first (they are empty), stat, read_name, and set_flag, which has
no callers. There is no deletion in the code; `"gone"` stands for entries another
system deleted.

### Drive

A sector has `SectorSize` units and its number two digits, one for each of two LBA
registers. `th` says which request a process is in, which sector of it (`lba`) in which
direction (`dir`), and which access of `ide_ata_do_sector` comes next; `buf` is the buffer
on drive.c's stack. `reg` holds the registers of a channel, `dev` what each disk is doing.
`Begin` and `NextSector` are drive.c: the first sector, the next, reading and merging
before writing. The disks are external (`Fetch`, `Store`, `Refuse`): they take a command
if they are ready; one that is not may drop it. A data port answers `Junk` when there is
nothing to read and ignores what it does not expect.

There is no lock: `locked` is tested in drive.c and set nowhere. So `Switch` may come
between any two accesses, and a process accesses the disk that is selected *then*.
`overlap` notes the channels on which two requests were under way at once; on those the
code reads and writes what nobody asked for, and only `EveryRequestEnds` still holds (the
busy loops wait for conditions every disk comes to by itself). `KeepsTheRest` and
`DoneAsAsked` speak of the others, while the other channel and other processes do what
they like.

`fat32.c` asks for at most 512 bytes, which may begin anywhere; so a request has at most
two sectors and the loop between the first and the last one is left out
(`drive_write_linear`'s writes the first sector's buffer over every sector between,
`drive.c:124`). Disks are taken to be in LBA mode: LBA48 is chosen by a field that
`ide_ident_t` places 21 words behind the true one (and would address sectors wrongly, as
its formula yields the same address for many), CHS only by disks without LBA. Also left
out: ATAPI, detection, `fdc.c` (its drive is never registered), `scsi.c` (which prints what
it finds).

### Network

The way of a datagram: `Arrive` (the card, external), `Interrupt` and `Callback`
(`rtl8139_callback` before and after its acknowledgement of both status bits, which is
where an arrival can be swallowed), `queue`, `NetdStep` (`Sniff`, `Send`, and the
rejection of what nobody listens to), the client lists of `sockets`, `Poll`. `card`
holds both rings, the driver's two indices, which buffers are allocated (`held`) and
which the card may still read (`pending`). `th` says where netd and each program
stand; a wait is the number of requests sent and the seconds left, which `Tick` counts
down for everybody.

`addressed` is chosen once: nothing in the tree calls `net_ctrl(NET_CMD_SET_IP)`, so
the interface's address is 0 and everything that arrives is ignored, unless some
program does it. `"junk"` is a program that went through the packet pointer
`socket_poll` never initialised, or through the NULL it returns whenever there is a
timeout; the model leaves it there. `Sound` ends the system's steps once the card reads
a freed buffer or one is freed twice (`lapped` says when that is possible).

netd adds a packet to a client's list with interrupts enabled (`socket.c:221`). `Propagate`
reads the list and notes it in `work`, `Link` stores it with the packet behind; a recvfrom in
between takes a packet from the list, and what `Link` then stores brings that packet back,
freed. `collided` notes the sockets on which this happened. With two packets TLC finds the packet that a
program gets twice; `InOrder` is about the sockets without a collision.

What the code also does: `udp_make_userpacket` compares the frame's length less the headers with
a UDP length whose bytes are still in network order (`UserLength`); a peer whose datagram comes while a program is connecting to it gets a
client from netd and a second one from the program, whose own list stays empty from
then on (hence `ServerKnowsPeerOnce` is about bound sockets); a table entry that was answered twice is found in
the older version; netd rejects datagrams through `arp_resolve` and so waits for an
answer only netd could store: six seconds, then the ICMP packet goes to address 0
(`NetdNeverLearns`, proved).

Left out: the races on the queue (`NetQueue`), the same race on a socket's list of clients
(`socket_connect` appends to `socket->clients` without a lock, while netd may), reception errors, frame lengths
(`net_handle_packet` compares the type unswapped, so that short IP frames pass), pcnet32
and ne2k, and the socket operations nothing calls (close, accept, disconnect, socketd).

### Input

`Scripts` is what the user does: keys, mouse bytes, interrupts without a byte, moves of
the virtual mouse. `wire` holds the bytes the keyboard has still to send
(`Make`/`Break`; `ScanCodes` says what scan-code set 1 allows, with the fake shifts, and
`FlagsOf` which flags a key stands for), `phase` where the mouse's
packets really are, `cycle` where `mouse_handler` believes them to be. `KeyboardInterrupt`,
`MouseInterrupt`, `VmouseCallback` and `TimerInterrupt` are the handlers, whole.
dispatchd takes an event (`Poll`) and calls moused (`HandleMoused`, which may add an
event with interrupts enabled: `LinkMoused` is the rest of that `linked_add`) and sysrqd
(`HandleSysrq`). Both look at the keys held *then*, not when the event was made.

`nap` is the stack of `sleep_enter`s in progress, by process: `"gap"` between enabling interrupts
(or finding `in_sleep_mode` set) and the halt, `"halt"`, `"test"` behind it. `pit_disable` writes mode 0 and a
count of 65536, so the timer fires once more (`"once"`). `schedule` is the ticks left
to the scheduled sleep, negative once it lies in the past.

What the code does that the model shows: a key in the gap clears `in_sleep_mode`, but
the halt waits for the next interrupt; if that is the last tick, `pit_callback` finds
the schedule still in the past and sleeps again, inside the first sleep; the virtual
mouse does not wake the machine; "Sleeping in 2 seconds..." (`sysrq.c:136`) schedules
`pit_freq` ticks, one second. Left out: positions, buttons, clipping, other listeners.

## Runs

| Run | Instance | Result |
|---|---|---|
| `scheduler` | dispatchd, netd, videod and one program; signals 0, 9, 18, 19 | 458 319 states, holds |
| `programs` | dispatchd, videod and two programs, fairness | 204 765 states, holds |
| `pids_collide` | six blocks | `PidsUnique` violated |
| `system_killed` | four blocks, signal 9 | `SystemSurvivesKill` violated |
| `heap` | 8 units, requests of 2 and 3, two callers | 110 851 states, holds |
| `heap_error` | the same | `NobodyTouchedIt` violated |
| `netqueue` | two senders, three packets, fairness | holds |
| `netqueue_lost` | one sender, two packets | `NothingLost` violated |
| `files` | four disks, one or two drives, 10 clusters, 5 boots and calls, 2 descriptors | 235 506 states, holds |
| `drive` | two processes, three disks on two channels, two requests, one error, two switches in mid-request, fairness | 555 018 states, holds |
| `network` | one program, five kinds of frames, two packets, rings of two, fairness | 602 884 states, holds |
| `input` | six keys, every script of three moves and eleven longer ones, fairness | 72 717 states, holds |

Bounds and why they are enough. *Multitasking*: `Proc` bounds the number of
processes ever created. Five give a list with a head, a tail and nodes between, a
process ending before, at and behind `proc_step`, both daemons, or two programs
next to the broadcast; a collision of pids needs a running program, the one it creates and
the one the start button is creating, hence six in `pids_collide`. Blocks are chosen in a fixed order, so symmetry has nothing to
remove. `BootScript` is what main() creates: `Networked` and `Desktop` leave some of
the zombies and daemons out, `Listening` has a zombie. *Heap*: eight units hold three or four
blocks: a run of free ones in the middle, one at the end, merges that leave a rest
or none, and a block across `heap_end`. *NetQueue*: three packets and two senders
give a race between senders, with netd and with the interrupt, and a packet after it.

*Files*: the root
directory has two clusters of six slots. On `MCPlain` it holds a file of two clusters, and
two new entries fit before the border. On the other disks deleted entries leave one slot before
it, so that `/dev` goes over it: into a cluster elsewhere, with a file of three clusters in
the one behind (`MCParted`), with a deleted directory there (`MCLeftOver`), or into the
neighbour (`MCDeep`, where a directory of three clusters has a subdirectory over each of its
borders, one of them between neighbours). Five boots and calls reach boot, boot, open, write, crash
or boot again. A table sector has eight entries, so chains cross sectors and the cache
is both right and stale; the quarter of the table that can be allocated ends within the
disk. Names have lengths on both sides of the limits in `fat_name_chunkise`. *Drive*: `Mixed` has a
write and a read over a sector border at which both digits change, a whole sector on the
other disk of the channel and part of one on the other channel; two requests are every
pair of these; two switches take the CPU to the rival and back, or to it in two places;
one error falls into any of the up to four sector transfers of a request. *Network*: two frames
and datagrams suffice for order, for a swallowed arrival and for two sends on one
interrupt; a table of two entries is written round by three answers, two sufficing for
a duplicate; two tries stand for six, a limit that is only counted to; one program
leaves netd as its rival for the table and the clients. The theorems hold without these
bounds. *Input*: three moves are every pair of keys, chord and release; the longer
scripts reach the commands, moused's arrows, sleep, and packets out of step. With
`PitFreq` 1 the schedule lies ahead, now and in the past.

Deadlock is not checked in any run: the scheduler stops for good in `"panic"`
and `"hung"`, the heap after a corruption report, the queue when all its packets
(`MaxPackets`) are made and handled; the four runs of files, drives, network and input
when their calls, packets or scripts are used up.

### Fairness

`programs`: strong fairness of `Tick`, because the interrupt controller holds a
timer interrupt until it is taken: if interrupts are enabled again and again, one
falls there. Weak fairness of "some step with interrupts disabled", because the
stretches of code without interrupts are finite. No fairness is assumed of
processes: they may compute forever. `netqueue`: strong fairness of being given the
CPU and of going on, which is what `EveryRunnableRuns` establishes. `network` (`FairSpec`):
weak fairness of the timer, the card (it sends what it was given, and its interrupt
stays pending until taken), the callback, netd and of every wait, poll and
connect a program has begun. What arrives and which calls a program makes is not
assumed. `drive` (`FairSpec`): weak fairness of the process that runs, of each disk
finishing what it was told, and of the CPU going back to a process in a request once the
running one has none (`EveryRunnableRuns`). `input` (`Spec`): the steps of dispatchd and those of a process in
`sleep_enter` are strongly fair, since processes take turns and the halt takes the CPU
away for good only if nothing wakes it; the keyboard's and the timer's interrupts are weakly fair. The user
need not do anything more: `EveryEventDispatched` allows for a machine asleep.

### Disagreements between code and comments

1. `PidsUnique` (`multitasking.c:63`): `pid_top++` is not atomic; two creators can
   draw the same pid, which the structure calls "id".
2. `SystemSurvivesKill` (`multitasking.c:342`): system processes are said to be able
   to refuse signals, but their handler's answer (1) is not the one kill honours (-1).
3. `NobodyTouchedIt` (`memory.c:93`): a nearly full heap lets a block cross
   `heap_end`, and the next walk blames the caller for corruption.
4. `NothingLost` (`net.c:292`): an unprotected `linked_add` loses packets.

The flaws that `Fat32`, `Files`, `Network` and `Input` follow are described with the
modules; no comment or test of the repository promises otherwise, so none is stated as a
violated property.

## Proofs

`Multitasking_proofs` (for any set of blocks, boot script and set of signals, from the
assumptions `Init0InProc`, `NoneNotProc`, `BootScriptKinds` of `Multitasking`):

- `IndInv` is the conjunction of `TypeOK`, `SchedulerConsistent`,
  `ListedIsAllocated` and `ChildrenApart`. The three wanted invariants are not
  inductive: a block between `AllocProcess` and `AppendProcess` is not on the list
  yet, and appending it would list it twice, or list a freed block, if another
  process were creating the same one or if it had been listed. `ChildrenApart` says that blocks being created are
  allocated, not listed, and different for each creator.
- `LocalStep` covers every step that changes one block without freeing it and moves
  one thread; `SwitchTaskInd`, `KillNodeInd` and `AppendProcessInd` are the steps that
  change the list or the pointers; `NextInd` collects one case per action.
- Theorems: `TypeCorrect`, `SchedulerCorrect`, `ListedAllocated`, and
  `PausedNotScheduled`, an action property that follows from `IndInv` and from what
  `NextStepAt` may choose.

`Execution_proofs` (the same constants and assumptions; what else a theorem assumes is said with it):

- `InterruptsOwned` (`InterruptFlagOwned`, with `Signals = {}`: `kill` is only called to end
  the caller or a faulting process, which is all the kernel does; its early returns, which
  other arguments reach, leave interrupts disabled and break the property). The property speaks of the running process;
  a switch brings in the flag of another one, so `FlagInv` says of every process that
  does not run that the flag it was saved with is the one its place calls for. It also
  says that a system call returns with the flag enabled (it was entered from code that had
  it enabled), that a process which is not creating another has nothing to return to, and
  that a block that was never used starts afresh. `SwitchTaskFlag` and `KillSelfFlag` are
  the two ways the CPU changes hands; `CreationStep`, `PlaceStep` and `StayStep` cover the rest.
- `ActiveProcessRestored` (`ActiveRestored`, for any signals). `ActiveInv` adds that a process
  away in a handler remembers itself (`Place`), that nobody else gets the CPU between the
  start of a system call and its end, its `sti` or its own yield, also while it creates a
  process there (`Uncut`), and how a block under creation looks (`Newborn`). `Uncut` is why
  `multitasking_fork` may overwrite the child's active process: the child has not run.
  It holds under signals as well, since kill's early returns only take interrupts away.
- `NoLockupUnlessVideodDies` (`NoLockup`). Two assumptions: the boot script has a videod
  (without one, main pauses itself and nobody need be left), and 19 is not among the
  signals, since `kill(pid, 19)` pauses anybody, videod included, and has no caller in the
  tree. `LockInv` names somebody who can run (`Guard`): listed, not paused, a system process,
  so that exceptions stop the machine and do not kill it, and with a pid of its own, now and
  when the next one is stored, so that it is not killed for another. While main() boots this is main
  itself, and pids are in order because it alone creates processes (`Booting`); when it configures
  a videod, that takes over (`VideodWaits`, `BootingConfig`). Afterwards pids may be
  handed out twice, but never videod's. `LateStep` and `EarlyStep` collect the cases.

`NetQueue_proofs` (any senders, any number of packets): `TypeCorrect`, `NetdIsWoken`
(`NoLostWakeup`), `OnlyRacesLose` (`NoRaceNoLoss`), from an invariant that adds
`RepliesFromWork`: netd sends only while it has a packet in its hands, so it cannot
pause itself in the middle of a `net_transmit`.

`Network_proofs` (any frames, programs, table and ring sizes, number of tries; from the
assumptions `NetdIsNoProgram`, `PeersHaveAddresses`, `SizesPositive`, `TimeoutsInSeconds`):

- `NetdWaitsInVain` (`NetdNeverLearns`). `WaitInv`: while netd waits, the address it
  waits for is not in the table. It is inductive because only `Sniff` stores an answer and
  netd does not sniff while it waits.
- `TableStaysWhole` (`TableWithoutHoles`). `TableInv`: the entries in use are a prefix of
  the table that ends before `top` or is the whole table; `FramesInv`: what lies in the card and
  the queue came from `Frames`, so an answer has an address and a MAC. An answer from
  0.0.0.0 would leave a hole: the assumption is needed.
- `BuffersOutliveSending` (`SendBuffersKept`). `RingInv`: until the ring is lapped, the
  descriptors that wait are those from the card's next one round to the driver's (`Round`),
  and the buffers in use are theirs and, until its interrupt, the one just sent.
- `PeersKnownOnce` (`ServerKnowsPeerOnce`). `SocketInv` adds where a program may stand with
  which descriptor (`Well`) and that a program in `socket_connect` has a socket no server has
  (`Apart`): its client is the only one that is added without a look at the others.
- `DatagramsInOrder` (`InOrder`: in order and once, on sockets without a collision). `LineInv`: the frames that wait for netd, in the queue and
  behind it in the card, are in the order of arrival. `OrderInv`: what a client holds is in
  order and older than all of these (`Passed`), and what a program took from a client is
  older than what that client still holds (`Before`). A descriptor that was read from keeps
  its socket (`Opened`), or the clients' numbers would mean others. `ClientStep` is all that
  a step does to a client's packets: nothing, the first one goes, or a newer one joins.
  The packet netd has in hand is on its way from the line to the clients: `HandInv` says that
  it has left the one, `PassedAt` that it is newer than what the clients of the sockets netd has still to
  visit hold or have given. `Link` adds it to the list as netd read it, which without a collision is the list as it is.
- `NothingOutOfBounds` (`TypeOK`). `TypeInv` joins `FramesInv`, `TableInv` and `SocketInv` with the
  bounds themselves: the card's three indices go round on their own (`CardBounded`), a wait
  is a timeout or one second and counts down (`Bounded`), and only `socket_connect` gives a descriptor a
  client of its own (`FdBounded`), which `Well` finds in the socket's list.

`Input_proofs` (any keyboard of scan-code set 1, scripts and timer frequency; from the assumptions of
`Input`):

- `TypesHold` (`TypeOK`).
- `EventsAreOrdered` (`EventsInOrder`). `OrderInv` adds that the list moused has read
  is still a prefix of the list (`ReadIsPrefix`: interrupts add at the end, and only
  dispatchd takes): what a collision hides is therefore the newest, and order survives.
- `SleepPairsUp` (`TimerStoppedOnlyAsleep`). `SleepInv`: while the timer is not periodic
  the schedule lies in the past, so no tick switches processes away from the sleeper
  before it has restarted the timer.
- `DecodersStayInStep` (`DecodersInStep`). `KeyInv`: the bytes on the wire would take
  `keyboard_callback` (`Read`, one byte; `Leads`, many) from where it is to no open sequence and the
  flags of the keys held down. `KeyBytes` shows it of the bytes of one key from `ScanCodes`: a
  fake shift becomes code 86, whose flag (`sysrq`) `InStep` leaves out, and no two keys share a
  flag. The code gives both super keys one, so a keyboard with two is out of step once
  one of them is released: `ScanCodes` allows one.

`Drive_proofs` (any disks, channels, requests, digits and sector sizes, any number of
processes, errors and switches; from the assumptions `SizesPositive`,
`EveryDiskHasChannel`, `SomeRequest`, `RequestsFit`):

- `TypesKept` (`TypeOK`), with `InLoop`: the data loop's index is below the buffer's size
  whenever a unit moves.
- `UncoveredKept` (`KeepsTheRest`) and `RequestsHonoured` (`DoneAsAsked`), both from
  `DriveInv`. Neither property is inductive: what a disk stores was sent to it unit by
  unit, to a sector named by two registers that were written one after the other, out of a
  buffer that was read, and then changed. `Mine` says of all these, for each place of a
  request, what they hold of the request and of the disk as it is now; `Course` which
  sectors are behind and which direction the one in hand moves in. It is true on a channel
  with no overlap only, where a disk that is not ready works for the one request
  (`Owned`), and two requests at once are noted (`OneAtATime`). `Undisturbed` shows that
  steps of other processes and of other disks change none of it; `ProcessStep`,
  `QuietStep` and `DiskStep` reduce a step to what it does to its own request. `MineGrows`:
  only `refused` may grow under a request.
- The arithmetic (`AddressOf`, `SectorAndOffset`, `SectorsInOrder`, `Behind`, `Digits`)
  rests on `Multiples` and `Division`, as the solver knows no products of variables.

`Heap_proofs` (a heap of any size, any requests, callers and left-over data; from the
assumptions `HeapUnitsNat`, `RequestsFit`, `GarbageHeaders`): all five properties that the
run `heap` checks.

- `ChainStaysHeld` (`ChainIsHeld`), `DataStays` (`DataKept`), `TypeCorrect` and
  `HeapImplementsAllocator` (the refinement of `Allocator`) follow from `ChainInv`: the
  places that malloc's walk visits form a chain, in which each block ends where the next one
  begins, up to a zero header (`Chain`), and the blocks in use on it are those that callers hold. None
  of the properties is inductive: a split or a merge writes headers in the middle of what
  was data, and only the chain says that no walk and no caller was there. `Keeps` says
  that an operation leaves the inside of the held blocks alone.
- `UsedMemoryStaysExact` (`UsedMemoryExact`) needs `PendingInv` as well: an uncounted block
  is one caller's, and that caller has no other.
- The walk and the sum are recursive. The provers know no induction over them, but the
  least number that contradicts a claim is a set's minimum (`LeastOfNaturals`, from
  `WellFoundedInduction`): `WalkExists` and `WalkVisitsChain` (the walk visits all of a chain
  and nothing else), `WalkEnds`, and `SumAdd` and `SumRemove` (a sum over a finite set
  does not depend on the order in which it is taken) are proved that way.

`Files_proofs` (disks, clusters and names of any size, any number of FAT drives, any paths,
writes, starts and calls; from the assumptions `GeometryAssumption` of `Fat32` and
`FilesAssumption`: the first drive holds a FAT of that size which is `Consistent`, and paths and
what is written are sequences). `Consistent` is what a formatter, a checker and this driver leave:
no two table entries lead to the same cluster and none to a free one, and what a directory slot
leads to, like the root, is the head of a chain (`IsHead`: taken, and nobody's successor), each
head in one slot only. TLC evaluates it on the disks of the run.

- `FilesTyped` (`TypeOK`) and `DescriptorsKept` (`DescriptorsKeepTheirFile`) follow from
  `StateInv`: the disk is a FAT, `device_nodes` and the nodes fit together (`Tables`: a
  mount point's node belongs to some device, or `EnterMount` would find none), and a descriptor
  has either passed a mount point (`via`) or a node that no device leads to (`FdInv`). Without
  the last part the second property is not inductive: a walk writes to the node it stands on and frees
  it when it fails, and only `Walks` says that this node is its own or a device's.
- `Leads` is what the FAT driver may do under a call: the disk stays a FAT after every write (so
  also where a crash cuts the log off), and nodes stay as they are. `Comes` is what a walk may do:
  change nodes that devices lead to, and nothing else. `Mounts` is what booting may do. There
  is one lemma for each operator of `Fat32` and `Files` that writes (`...Leads`, `...Comes`,
  `...Mounts`), in the order in which they call each other.
- `ChainsLieApart` (`ChainsApart`). The property speaks of the entries of a tree and is not
  inductive; `Consistent`, which speaks of single slots and table entries, is, and is part of
  `StateInv` as long as `damage` is `"none"`. Each write is shown to keep it, and a session to be
  `Sound`: consistent now and after every write in its log, so wherever the power goes off
  (`...Sound`). The order of the writes matters: a new cluster is an end of its own
  (`Loose`) before the chain's end or an entry leads to it. From `Consistent` to the property:
  chains with different heads never meet and no chain meets itself (`ChainsMeetNowhere`, by the first
  cluster that contradicts it), so each ends in an end mark (`ChainsEnd`); what the
  walk through the tree calls an entry begins at a directory's first slot or behind a short
  slot (`Starts`), so two entries never share their short slot (`StartsApart`).
- `WritesStayWithinChain` (`WritesWithinChain`). `Toward` is the invariant of `fat_write`'s loop: the
  j-th cluster of the chain is in hand, what is left of the input takes j to the last one
  (`Further`), and the cached sector and the table agree (`Reads`). The seek comes to the cluster
  of the offset (`SeekWithin`). A file without clusters gets its chain of one first
  (`FirstClusterGiven`).
- `ListsWhole` (`ListingWhole`). main()'s walk goes through `fat_iterate`, which lists the rest of the
  directory anew at each entry, as far as the next one shown. `Numbered` counts slots along the
  directory's chain; each entry has one number and the next a greater one, so a
  directory's listing meets no place twice and ends before it has passed all slots
  (`ListingEnds`). What `fat_iterate` sees is the rest of that listing (`RestOfListing`), and a walk
  that goes from each marked member of a list to the next meets all of them once (`MarkedMet`). It
  runs off the end only where `fat_iterate` skips deleted entries up to it, or the directory is full.
- The loops are functions of the turn. `StepByStep` is the induction over turns (the least turn
  that contradicts a claim is a set's minimum, `LeastOfNaturals`); `LoopExists` shows with it, for all
  the loops at once, that such a function exists, and `DescentExists` does for the walks that
  are functions of a place and of the steps left (`Way`): the listing of a directory, main()'s
  walk, a chain.

Only model-checked:

- liveness (`EveryRunnableRuns`, `EveryPacketHandled`, `ResolutionEnds`,
  `DatagramsGetThrough`, `EveryEventDispatched`, `EveryRequestEnds`): fairness and ENABLED are
  beyond the prover;
- `NothingLeaks`: needs an inductive account of which clusters are reachable through the tree, entry
  by entry, on top of `Consistent`;
- `DotDotLeadsBack`: `Consistent` says nothing about what `"."` and `".."` slots hold, nor that a
  directory has them;
- `ReadsBack`: needs an invariant about what each cluster of each file written so far holds, and
  that the file's entry is where it was, on top of `Consistent`;
- `BootSettles`: about what each of several boots finds of what the one before made, name by name
  (with no drive at all it does not hold: the first boot still creates `/dev`).

## Not modelled

- *Windows* (`graphics/graphics.c`, 876-1260): the list is changed by dispatchd with
  interrupts enabled while videod walks it, through the linked-list library, which is not
  in the tree; `gfx_close_window` deletes a window's node that `gfx_cleanup_window` deletes again, and
  `active_window` and static pointers outlive the window. Without the library's code and
  the heap's reuse of what is freed, a model could only say that this is undefined.
- *`generic_malloc`* (`memory/allocators.c`): `Heap`'s walk again, with two faults that
  show on the first call (it clears a header at a place that is not computed yet;
  `generic_free` compares an offset with addresses).
- *pcnet32, ne2k*: rings of the same kind; `pcnet32_advance_trans_descriptor` masks the wrong
  index (`pcnet32.c:193`).
- *Operations without callers*: `socket_close` and its kin, `socketd`, `net_ctrl`'s
  election and routes, `fat_set_flag`, `realloc`, the spinlock.
- *32-bit width*: `round32` wraps for sizes from 0xfffffff5 on (`memory.c:83`), `ticks` is
  read in two halves (`pit.c:14`), ephemeral ports come round after 32768 sockets
  (`net.c:312`), a receive timeout that is negative or long makes `pit_freq * timeout` wrap
  (`socket.c:266`; `TimeoutsInSeconds` leaves these out), `net_ip_is_local` compares before it masks (`net.c:65`; `Network` has one
  interface, to which every route leads).
- *Device register programming, drawing, audio, text formatting, firmware tables,
  random numbers, the shell*: their correctness is not a question of states and steps.

What would come next: two processes inside `fat32.c` at once; the race of netd with
`socket_connect` on a socket's list of clients; what the clusters of a file hold, to prove `ReadsBack`;
and what the dot slots of a directory hold, kept by creation, to prove `DotDotLeadsBack`.
