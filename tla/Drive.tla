------------------------------- MODULE Drive -------------------------------
(***************************************************************************)
(* The drives under the file systems: fs/drive.c, which reads and writes   *)
(* any run of bytes as sectors, and the ATA disks of fs/ide.c, which share *)
(* the registers of their channel.  There is no lock (locked is never set) *)
(* and the system calls that reach a file enable interrupts, so a process  *)
(* can lose the CPU to another request between any two register accesses.  *)
(*                                                                         *)
(* A sector has SectorSize units (512 bytes in the code); an address       *)
(* counts units.  Sectors have two digits, one per LBA register (three     *)
(* registers and half of the select register in the code).                 *)
(***************************************************************************)
EXTENDS Integers, FiniteSets

CONSTANTS
  Proc,        \* processes that use the disks
  Channel,     \* channels of the controller
  Disk,
  ChannelOf,   \* the channel of each disk
  Base,        \* how many values an LBA register has
  SectorSize,
  Requests,    \* what processes ask for
  Junk,        \* what a buffer on the stack, or a data port with no data, holds
  MaxCalls,    \* bound on the number of requests
  MaxErrors,   \* bound on the number of errors
  MaxSwitches  \* bound on the switches between processes in the middle of a request

Lba == 0..(Base * Base - 1)
Offset == 0..(SectorSize - 1)
Address == 0..(Base * Base * SectorSize - 1)
Digit == 0..(Base - 1)

\* drive_read and drive_read_linear, drive_write_linear (which reads each sector, changes
\* it and writes it back) and drive_write (which writes a whole sector).  Addresses
\* from..to: fat32.c asks for 512 bytes at most, so there is no sector between the first
\* and the last.
Request == [op : {"read", "write", "overwrite"}, disk : Disk, from : Address, to : Address]

ASSUME SizesPositive ==
  /\ Base \in Nat \ {0} /\ SectorSize \in Nat \ {0}
  /\ MaxCalls \in Nat /\ MaxErrors \in Nat /\ MaxSwitches \in Nat
ASSUME EveryDiskHasChannel == ChannelOf \in [Disk -> Channel]
ASSUME SomeRequest == Requests # {}
ASSUME RequestsFit ==
  \A r \in Requests :
    /\ r \in Request
    /\ r.from <= r.to /\ r.to - r.from < SectorSize
    /\ r.op = "overwrite" => r.from % SectorSize = 0 /\ r.to = r.from + SectorSize - 1

VARIABLES
  disk,      \* contents of the disks
  dev,       \* the disks' controllers
  reg,       \* registers of each channel
  th,        \* the request each process is in, and where it stands
  calls,     \* requests made
  overlap,   \* channels on which two requests have been under way at once
  covered,   \* addresses some request was to write
  refused,   \* sectors a disk did not write when it was told to
  errors,    \* how often a disk reported an error
  cpu,       \* the process that runs
  switches   \* how often a process lost the CPU in the middle of a request

vars == <<disk, dev, reg, th, calls, overlap, covered, refused, errors, cpu, switches>>

SectorOf(a) == a \div SectorSize
At(l, k) == l * SectorSize + k

\* What is found at an address before anything was written, and what a request writes.
Old(d, a) == <<d, a>>
New(p, n) == <<p, n>>
Value == (Disk \X Address) \union (Proc \X (1..MaxCalls)) \union {Junk}

Places == {"idle", "wait", "select", "lba0", "lba1", "command", "poll", "check",
           "data", "flush", "sector", "done"}

\* dir: direction of the sector in hand; lba: that sector; i: units moved;
\* buf: the 512 bytes on the stack of drive.c; got: what was copied to the caller.
Threads == [pc : Places, req : Request, val : Value, stat : {0, 1},
            dir : {"read", "write"}, lba : Lba, i : 0..SectorSize,
            buf : [Offset -> Value], got : [Address -> Value]]

Devices == [st : {"ready", "busy", "data", "store"}, cmd : {"read", "write"}, lba : Lba,
            n : Offset, buf : [Offset -> Value], err : BOOLEAN]

JunkBuffer == [k \in Offset |-> Junk]

\* A process that is in no request (the fields mean nothing then).
Idle == [pc |-> "idle", req |-> CHOOSE r \in Requests : TRUE, val |-> Junk, stat |-> 0,
         dir |-> "read", lba |-> 0, i |-> 0, buf |-> JunkBuffer,
         got |-> [a \in Address |-> Junk]]

\* ide_dev_init and ide_reset found every disk; the last one detected is selected.
Init ==
  /\ disk = [d \in Disk |-> [a \in Address |-> Old(d, a)]]
  /\ dev = [d \in Disk |-> [st |-> "ready", cmd |-> "read", lba |-> 0, n |-> 0,
                            buf |-> JunkBuffer, err |-> FALSE]]
  /\ reg \in [Channel -> [disk : Disk, lba0 : {0}, lba1 : {0}]]
  /\ \A c \in Channel : ChannelOf[reg[c].disk] = c
  /\ th = [p \in Proc |-> Idle]
  /\ calls = 0 /\ overlap = {} /\ covered = {} /\ refused = {} /\ errors = 0
  /\ cpu \in Proc /\ switches = 0

-----------------------------------------------------------------------------
Chan(p) == ChannelOf[th[p].req.disk]

\* The disk that answers p: the one selected, whoever selected it.
Selected(p) == reg[Chan(p)].disk

Busy(d) == dev[d].st \in {"busy", "store"}

Goto(p, place) == th' = [th EXCEPT ![p].pc = place]

\* The first direction a request moves a sector in.
FirstDir(op) == IF op = "overwrite" THEN "write" ELSE "read"

Begin(p) ==
  /\ th[p].pc = "idle" /\ calls < MaxCalls
  /\ calls' = calls + 1
  /\ \E r \in Requests :
       LET rivals == {q \in Proc \ {p} : th[q].pc # "idle" /\ Chan(q) = ChannelOf[r.disk]}
           val == New(p, calls + 1)
       IN /\ th' = [th EXCEPT ![p] =
               [pc |-> "wait", req |-> r, val |-> val, stat |-> 0, dir |-> FirstDir(r.op),
                lba |-> SectorOf(r.from), i |-> 0,
                buf |-> IF r.op = "overwrite" THEN [k \in Offset |-> val] ELSE JunkBuffer,
                got |-> [a \in Address |-> Junk]]]
          /\ overlap' = IF rivals = {} THEN overlap ELSE overlap \union {ChannelOf[r.disk]}
          /\ covered' = IF r.op = "read" THEN covered
                        ELSE covered \union {<<r.disk, a>> : a \in r.from..r.to}
  /\ UNCHANGED <<disk, dev, reg, refused, errors, cpu, switches>>

(***************************************************************************)
(* ide_ata_do_sector for one sector.                                       *)
(***************************************************************************)
Others == <<calls, overlap, covered, cpu, switches>>

WaitNotBusy(p) ==
  /\ th[p].pc = "wait" /\ ~Busy(Selected(p))
  /\ Goto(p, "select")
  /\ UNCHANGED <<disk, dev, reg, refused, errors, Others>>

Select(p) ==
  /\ th[p].pc = "select"
  /\ reg' = [reg EXCEPT ![Chan(p)].disk = th[p].req.disk]
  /\ Goto(p, "lba0")
  /\ UNCHANGED <<disk, dev, refused, errors, Others>>

SetLba0(p) ==
  /\ th[p].pc = "lba0"
  /\ reg' = [reg EXCEPT ![Chan(p)].lba0 = th[p].lba % Base]
  /\ Goto(p, "lba1")
  /\ UNCHANGED <<disk, dev, refused, errors, Others>>

SetLba1(p) ==
  /\ th[p].pc = "lba1"
  /\ reg' = [reg EXCEPT ![Chan(p)].lba1 = th[p].lba \div Base]
  /\ Goto(p, "command")
  /\ UNCHANGED <<disk, dev, refused, errors, Others>>

\* A disk that is not ready may drop what it was doing, or the command.
Command(p) ==
  LET d == Selected(p)
      l == reg[Chan(p)].lba1 * Base + reg[Chan(p)].lba0
  IN /\ th[p].pc = "command"
     /\ \/ dev' = [dev EXCEPT ![d] = [st |-> "busy", cmd |-> th[p].dir, lba |-> l, n |-> 0,
                                      buf |-> JunkBuffer, err |-> FALSE]]
        \/ dev[d].st # "ready" /\ UNCHANGED dev
     /\ th' = [th EXCEPT ![p] = [@ EXCEPT !.pc = "poll", !.i = 0]]
     /\ UNCHANGED <<disk, reg, refused, errors, Others>>

\* ide_poll that waits for the disk to ask for data, too.
FaultyPoll(p) ==
  /\ th[p].pc = "poll" /\ dev[Selected(p)].st = "data"
  /\ Goto(p, IF th[p].dir = "read" THEN "check" ELSE "data")
  /\ UNCHANGED <<disk, dev, reg, refused, errors, Others>>

\* ide_poll waits until the disk is not busy; of a disk that shall write it asks no more.
Poll(p) ==
  /\ th[p].pc = "poll" /\ ~Busy(Selected(p))
  /\ Goto(p, IF th[p].dir = "read" THEN "check" ELSE "data")
  /\ UNCHANGED <<disk, dev, reg, refused, errors, Others>>

\* The status is not looked at.
FaultyFailed(d) == FALSE

\* What ide_poll takes for a failed read.
Failed(d) == dev[d].err \/ dev[d].st # "data"

Check(p) ==
  /\ th[p].pc = "check"
  /\ th' = [th EXCEPT ![p] = IF Failed(Selected(p)) THEN [@ EXCEPT !.pc = "done", !.stat = 1]
                             ELSE [@ EXCEPT !.pc = "data"]]
  /\ UNCHANGED <<disk, dev, reg, refused, errors, Others>>

\* A unit through the data port, and the loop's next place.
Moved(t, after) ==
  [t EXCEPT !.i = t.i + 1, !.pc = IF t.i + 1 = SectorSize THEN after ELSE "data"]

Moves(d, dir) == dev[d].st = "data" /\ dev[d].cmd = dir

\* A disk whose next unit was read, and one that was sent u.
Given(v) ==
  IF v.n = SectorSize - 1 THEN [v EXCEPT !.st = "ready"] ELSE [v EXCEPT !.n = v.n + 1]

Taken(v, u) ==
  IF v.n = SectorSize - 1 THEN [v EXCEPT !.buf[v.n] = u, !.st = "store", !.n = 0]
  ELSE [v EXCEPT !.buf[v.n] = u, !.n = v.n + 1]

DataIn(p) ==
  LET d == Selected(p)
      t == th[p]
      got(v) == [Moved(t, "sector") EXCEPT !.buf[t.i] = v]
  IN /\ t.pc = "data" /\ t.dir = "read"
     /\ \/ /\ Moves(d, "read")
           /\ th' = [th EXCEPT ![p] = got(dev[d].buf[dev[d].n])]
           /\ dev' = [dev EXCEPT ![d] = Given(dev[d])]
        \/ /\ ~Moves(d, "read")
           /\ th' = [th EXCEPT ![p] = got(Junk)]
           /\ UNCHANGED dev
     /\ UNCHANGED <<disk, reg, refused, errors, Others>>

DataOut(p) ==
  LET d == Selected(p)
      t == th[p]
  IN /\ t.pc = "data" /\ t.dir = "write"
     /\ th' = [th EXCEPT ![p] = Moved(t, "flush")]
     /\ \/ Moves(d, "write") /\ dev' = [dev EXCEPT ![d] = Taken(dev[d], t.buf[t.i])]
        \/ ~Moves(d, "write") /\ UNCHANGED dev
     /\ UNCHANGED <<disk, reg, refused, errors, Others>>

\* After a write ide_poll waits once more; whether the disk reports an error it does not ask.
Flush(p) ==
  /\ th[p].pc = "flush" /\ ~Busy(Selected(p))
  /\ Goto(p, "sector")
  /\ UNCHANGED <<disk, dev, reg, refused, errors, Others>>

-----------------------------------------------------------------------------
(***************************************************************************)
(* drive.c: the sectors of a request, one after the other.                 *)
(***************************************************************************)

\* The part of the request that lies in the sector in hand.
Part(t) == {a \in t.req.from..t.req.to : SectorOf(a) = t.lba}

\* size is compared with the rest of the first sector, one unit short.
FaultyLast(t) == t.req.to <= At(t.lba, SectorSize)

\* No unit of the request lies behind the sector in hand.
Last(t) == t.req.to < At(t.lba + 1, 0)

Next1(t) ==
  IF Last(t) THEN [t EXCEPT !.pc = "done"]
  ELSE [t EXCEPT !.pc = "wait", !.lba = t.lba + 1, !.dir = FirstDir(t.req.op)]

\* memcpy out of the sector just read.
Copied(t) ==
  [t EXCEPT !.got = [a \in Address |-> IF a \in Part(t) THEN t.buf[a % SectorSize] ELSE t.got[a]]]

\* memcpy into the sector just read, to write it back.
Merged(t) ==
  [t EXCEPT !.buf = [k \in Offset |-> IF At(t.lba, k) \in Part(t) THEN t.val ELSE t.buf[k]],
            !.pc = "wait", !.dir = "write"]

NextSector(p) ==
  LET t == th[p] IN
  /\ t.pc = "sector"
  /\ th' = [th EXCEPT ![p] = IF t.dir = "write" THEN Next1(t)
                             ELSE IF t.req.op = "read" THEN Next1(Copied(t))
                             ELSE Merged(t)]
  /\ UNCHANGED <<disk, dev, reg, refused, errors, Others>>

Return(p) ==
  /\ th[p].pc = "done"
  /\ th' = [th EXCEPT ![p] = Idle]
  /\ UNCHANGED <<disk, dev, reg, refused, errors, Others>>

-----------------------------------------------------------------------------
(***************************************************************************)
(* The disks.                                                              *)
(***************************************************************************)
Sector(d) == [k \in Offset |-> disk[d][At(dev[d].lba, k)]]

Fetch(d) ==
  /\ dev[d].st = "busy"
  /\ dev' = [dev EXCEPT ![d] =
       IF @.cmd = "read" THEN [@ EXCEPT !.st = "data", !.n = 0, !.buf = Sector(d)]
       ELSE [@ EXCEPT !.st = "data", !.n = 0]]
  /\ UNCHANGED <<disk, reg, th, refused, errors, Others>>

Store(d) ==
  /\ dev[d].st = "store"
  /\ disk' = [disk EXCEPT ![d] =
       [a \in Address |-> IF SectorOf(a) = dev[d].lba THEN dev[d].buf[a % SectorSize]
                          ELSE disk[d][a]]]
  /\ dev' = [dev EXCEPT ![d].st = "ready"]
  /\ UNCHANGED <<reg, th, refused, errors, Others>>

\* An error, before the data moved or when it should be stored.
Refuse(d) ==
  /\ Busy(d) /\ errors < MaxErrors
  /\ errors' = errors + 1
  /\ dev' = [dev EXCEPT ![d] = [@ EXCEPT !.st = "ready", !.err = TRUE]]
  /\ refused' = IF dev[d].cmd = "write" THEN refused \union {<<d, dev[d].lba>>} ELSE refused
  /\ UNCHANGED <<disk, reg, th, Others>>

-----------------------------------------------------------------------------
Step(p) ==
  \/ WaitNotBusy(p) \/ Select(p) \/ SetLba0(p) \/ SetLba1(p) \/ Command(p) \/ Poll(p)
  \/ Check(p) \/ DataIn(p) \/ DataOut(p) \/ Flush(p) \/ NextSector(p)
  \/ Return(p)

\* The timer gives the CPU to another process: any time, interrupts being enabled.
Switch ==
  /\ \E p \in Proc \ {cpu} : cpu' = p
  /\ \/ th[cpu].pc = "idle" /\ UNCHANGED switches
     \/ /\ th[cpu].pc # "idle" /\ switches < MaxSwitches
        /\ switches' = switches + 1
  /\ UNCHANGED <<disk, dev, reg, th, calls, overlap, covered, refused, errors>>

Next ==
  \/ Begin(cpu) \/ Step(cpu)
  \/ Switch
  \/ \E d \in Disk : Fetch(d) \/ Store(d) \/ Refuse(d)

Spec == Init /\ [][Next]_vars

\* The process that runs goes on, one that is in a request gets the CPU again when the
\* other is in none, and a disk finishes what it was told to do.
FairSpec ==
  /\ Spec
  /\ \A p \in Proc : WF_vars(cpu = p /\ Step(p))
  /\ \A p \in Proc : WF_vars(th[cpu].pc = "idle" /\ th[p].pc # "idle" /\ Switch /\ cpu' = p)
  /\ \A d \in Disk : WF_vars(Fetch(d) \/ Store(d))

-----------------------------------------------------------------------------
TypeOK ==
  /\ disk \in [Disk -> [Address -> Value]]
  /\ dev \in [Disk -> Devices]
  /\ reg \in [Channel -> [disk : Disk, lba0 : Digit, lba1 : Digit]]
  /\ \A c \in Channel : ChannelOf[reg[c].disk] = c
  /\ th \in [Proc -> Threads]
  /\ calls \in 0..MaxCalls
  /\ overlap \subseteq Channel
  /\ covered \subseteq Disk \X Address
  /\ refused \subseteq Disk \X Lba
  /\ errors \in 0..MaxErrors
  /\ cpu \in Proc /\ switches \in 0..MaxSwitches

Alone(d) == ChannelOf[d] \notin overlap

\* Writing a few bytes of a sector leaves its other bytes as they were, at every moment
\* and whatever errors the disks report (drive_write_linear reads, changes and writes
\* back), as long as no two requests were under way on the channel at once; what happens on
\* the other channel does not matter.
KeepsTheRest ==
  \A d \in Disk, a \in Address :
    Alone(d) /\ <<d, a>> \notin covered => disk[d][a] = Old(d, a)

\* A read that reports success returns what is on the disk, and what a write that
\* reports success was to write is there, unless the disk refused it: ide_poll does not
\* look for errors of a write.
DoneAsAsked ==
  \A p \in Proc :
    LET t == th[p] IN
    t.pc = "done" /\ t.stat = 0 /\ Alone(t.req.disk) =>
      \A a \in t.req.from..t.req.to :
        IF t.req.op = "read" THEN t.got[a] = disk[t.req.disk][a]
        ELSE disk[t.req.disk][a] = t.val \/ <<t.req.disk, SectorOf(a)>> \in refused

\* No interleaving of two requests, and no error, keeps a process waiting for ever.
EveryRequestEnds ==
  \A p \in Proc : th[p].pc # "idle" ~> th[p].pc = "idle"

=============================================================================
