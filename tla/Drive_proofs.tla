---------------------------- MODULE Drive_proofs ----------------------------
(***************************************************************************)
(* Theorems about module Drive, for any disks, channels, requests, sector  *)
(* sizes and numbers of processes, errors and switches.                    *)
(***************************************************************************)
EXTENDS Drive, TLAPS

-----------------------------------------------------------------------------
(***************************************************************************)
(* Addresses, sectors and digits.                                          *)
(***************************************************************************)
LEMMA Multiples ==
  ASSUME NEW s \in Nat \ {0}, NEW x \in Int, NEW y \in Int
  PROVE  /\ x <= y => x * s <= y * s
         /\ x < y => x * s + s <= y * s
<1>1. x <= y => (y - x) * s >= 0
  BY SMT
<1>2. x < y => (y - x - 1) * s >= 0
  BY SMT
<1>3. (y - x) * s = y * s - x * s /\ (y - x - 1) * s = y * s - x * s - s
  BY SMT
<1> QED
  BY <1>1, <1>2, <1>3, SMT

LEMMA Division ==
  ASSUME NEW a \in Nat, NEW s \in Nat \ {0}
  PROVE  /\ a \div s \in Nat /\ a % s \in 0..(s - 1)
         /\ a = (a \div s) * s + (a % s)
  BY SMT

LEMMA Quotient ==
  ASSUME NEW s \in Nat \ {0}, NEW l \in Nat, NEW k \in 0..(s - 1)
  PROVE  (l * s + k) \div s = l /\ (l * s + k) % s = k
<1> DEFINE a == l * s + k
           q == a \div s
           r == a % s
<1>1. a \in Nat
  BY SMT
<1>2. q \in Nat /\ r \in 0..(s - 1) /\ a = q * s + r
  BY <1>1, Division
<1> HIDE DEF q, r
<1>3. ~(q < l)
  BY <1>2, Multiples, SMT
<1>4. ~(l < q)
  BY <1>2, Multiples, SMT
<1>5. q = l
  BY <1>2, <1>3, <1>4, SMT
<1> QED
  BY <1>2, <1>5, SMT DEF q, r

\* A sector's number and a place in it make an address, and back.
LEMMA AddressOf ==
  ASSUME NEW l \in Lba, NEW k \in Offset
  PROVE  At(l, k) \in Address /\ SectorOf(At(l, k)) = l /\ At(l, k) % SectorSize = k
<1>1. SectorSize \in Nat \ {0} /\ Base * Base \in Nat /\ l \in Nat /\ l < Base * Base
  BY SizesPositive, SMT DEF Lba
<1>2. l * SectorSize + SectorSize <= Base * Base * SectorSize
  BY <1>1, Multiples
<1>3. k \in 0..(SectorSize - 1)
  BY DEF Offset
<1>4. At(l, k) \in Address
  BY <1>1, <1>2, <1>3, SMT DEF At, Address
<1> QED
  BY <1>1, <1>3, <1>4, Quotient DEF At, SectorOf

LEMMA SectorAndOffset ==
  ASSUME NEW a \in Address
  PROVE  SectorOf(a) \in Lba /\ a % SectorSize \in Offset /\ a = At(SectorOf(a), a % SectorSize)
<1>1. SectorSize \in Nat \ {0} /\ Base * Base \in Nat /\ a \in Nat /\ a < Base * Base * SectorSize
  BY SizesPositive, SMT DEF Address
<1>2. /\ SectorOf(a) \in Nat /\ a % SectorSize \in 0..(SectorSize - 1)
      /\ a = SectorOf(a) * SectorSize + (a % SectorSize)
  BY <1>1, Division DEF SectorOf
<1>3. Base * Base <= SectorOf(a) => Base * Base * SectorSize <= SectorOf(a) * SectorSize
  BY <1>1, <1>2, Multiples
<1>4. SectorOf(a) < Base * Base
  BY <1>1, <1>2, <1>3, SMT
<1> QED
  BY <1>1, <1>2, <1>4 DEF Lba, Offset, At

LEMMA SectorsInOrder ==
  ASSUME NEW a \in Address, NEW b \in Address, a <= b
  PROVE  SectorOf(a) <= SectorOf(b)
<1>1. SectorSize \in Nat \ {0} /\ a \in Nat /\ b \in Nat
  BY SizesPositive, SMT DEF Address
<1>2. /\ SectorOf(a) \in Nat /\ a % SectorSize \in 0..(SectorSize - 1)
      /\ SectorOf(b) \in Nat /\ b % SectorSize \in 0..(SectorSize - 1)
      /\ a = SectorOf(a) * SectorSize + (a % SectorSize)
      /\ b = SectorOf(b) * SectorSize + (b % SectorSize)
  BY <1>1, Division DEF SectorOf
<1>3. SectorOf(b) < SectorOf(a) => SectorOf(b) * SectorSize + SectorSize <= SectorOf(a) * SectorSize
  BY <1>1, <1>2, Multiples
<1> QED
  BY <1>1, <1>2, <1>3, SMT

\* Whether the request goes on behind sector l.
LEMMA Behind ==
  ASSUME NEW l \in Lba, NEW a \in Address
  PROVE  /\ a < At(l + 1, 0) => SectorOf(a) <= l
         /\ ~(a < At(l + 1, 0)) => l + 1 <= SectorOf(a) /\ l + 1 \in Lba
<1>1. SectorSize \in Nat \ {0} /\ a \in Nat /\ l \in Nat
  BY SizesPositive, SMT DEF Address, Lba
<1>2. /\ SectorOf(a) \in Lba /\ SectorOf(a) \in Nat /\ a % SectorSize \in 0..(SectorSize - 1)
      /\ a = SectorOf(a) * SectorSize + (a % SectorSize)
  BY SectorAndOffset DEF Offset, At, Lba
<1>3. At(l + 1, 0) = (l + 1) * SectorSize
  BY <1>1, SMT DEF At
<1>4. CASE a < At(l + 1, 0)
  <2>1. l < SectorOf(a) => (l + 1) * SectorSize <= SectorOf(a) * SectorSize
    BY <1>1, <1>2, Multiples, SMT
  <2> QED
    BY <1>1, <1>2, <1>3, <1>4, <2>1, SMT
<1>5. CASE ~(a < At(l + 1, 0))
  <2>1. SectorOf(a) < l + 1 => SectorOf(a) * SectorSize + SectorSize <= (l + 1) * SectorSize
    BY <1>1, <1>2, Multiples
  <2>2. l + 1 <= SectorOf(a)
    BY <1>1, <1>2, <1>3, <1>5, <2>1, SMT
  <2>3. l + 1 \in Lba
    BY <1>1, <1>2, <2>2, SizesPositive, SMT DEF Lba
  <2> QED
    BY <1>5, <2>2, <2>3
<1> QED
  BY <1>4, <1>5

\* The two registers hold a sector's number.
LEMMA Digits ==
  ASSUME NEW l \in Lba
  PROVE  /\ l % Base \in Digit /\ l \div Base \in Digit
         /\ (l \div Base) * Base + (l % Base) = l
<1>1. Base \in Nat \ {0} /\ l \in Nat /\ l < Base * Base
  BY SizesPositive, SMT DEF Lba
<1>2. /\ l \div Base \in Nat /\ l % Base \in 0..(Base - 1)
      /\ l = (l \div Base) * Base + (l % Base)
  BY <1>1, Division
<1>3. Base <= l \div Base => Base * Base <= (l \div Base) * Base
  BY <1>1, <1>2, Multiples
<1> QED
  BY <1>1, <1>2, <1>3, SMT DEF Digit

LEMMA Combined ==
  ASSUME NEW hi \in Digit, NEW lo \in Digit
  PROVE  hi * Base + lo \in Lba
<1>1. Base \in Nat \ {0} /\ hi \in Nat /\ hi < Base /\ lo \in 0..(Base - 1)
  BY SizesPositive, SMT DEF Digit
<1>2. hi * Base + Base <= Base * Base
  BY <1>1, Multiples
<1> QED
  BY <1>1, <1>2, SMT DEF Lba

-----------------------------------------------------------------------------
(***************************************************************************)
(* Types.  The buffer has a place for the next unit of the data loop.      *)
(***************************************************************************)
InLoop(t) ==
  /\ t.req \in Requests
  /\ t.pc \in {"poll", "check"} => t.i = 0
  /\ t.pc = "data" => t.i # SectorSize

TypeInv == TypeOK /\ \A p \in Proc : InLoop(th[p])

LEMMA RequestTypes ==
  ASSUME NEW r \in Requests
  PROVE  /\ r \in Request /\ r.disk \in Disk /\ r.from \in Address /\ r.to \in Address
         /\ r.from <= r.to
         /\ r.op \in {"read", "write", "overwrite"}
         /\ SectorOf(r.from) \in Lba /\ SectorOf(r.to) \in Lba
<1>1. r \in Request /\ r.from <= r.to
  BY RequestsFit
<1> QED
  BY <1>1, SectorAndOffset DEF Request

LEMMA RangeTypes ==
  ASSUME NEW r \in Requests
  PROVE  r.from..r.to \subseteq Address
<1>1. Base * Base * SectorSize \in Int
  BY SizesPositive, SMT
<1> DEFINE limit == Base * Base * SectorSize
<1>2. r.from \in 0..(limit - 1) /\ r.to \in 0..(limit - 1) /\ limit \in Int
  BY RequestTypes, <1>1 DEF Address
<1> HIDE DEF limit
<1>3. r.from..r.to \subseteq 0..(limit - 1)
  BY <1>2, SMT
<1> QED
  BY <1>3 DEF limit, Address

LEMMA IdleTypes == Idle \in Threads /\ InLoop(Idle)
<1>1. Idle.req \in Requests
  BY SomeRequest DEF Idle
<1>2. Idle.req \in Request
  BY <1>1, RequestTypes
<1>3. 0 \in Lba /\ 0 \in 0..SectorSize
  BY SizesPositive, SMT DEF Lba
<1>4. Idle.got \in [Address -> Value] /\ Idle.buf \in [Offset -> Value]
  BY DEF Idle, JunkBuffer, Value
<1>5. Idle = [pc |-> "idle", req |-> Idle.req, val |-> Idle.val, stat |-> 0, dir |-> "read",
              lba |-> 0, i |-> 0, buf |-> Idle.buf, got |-> Idle.got]
  BY DEF Idle
<1>6. Idle.val \in Value
  BY DEF Idle, Value
<1>7. Idle \in Threads
  BY <1>2, <1>3, <1>4, <1>5, <1>6 DEF Threads, Places
<1>8. InLoop(Idle)
  BY <1>1 DEF InLoop, Idle
<1> QED
  BY <1>7, <1>8

LEMMA InitTypes == Init => TypeInv
<1> SUFFICES ASSUME Init PROVE TypeInv
  OBVIOUS
<1>1. disk \in [Disk -> [Address -> Value]]
  BY DEF Init, Value, Old
<1>2. dev \in [Disk -> Devices]
  <2>1. 0 \in Lba /\ 0 \in Offset
    BY SizesPositive, SMT DEF Lba, Offset
  <2>2. JunkBuffer \in [Offset -> Value]
    BY DEF JunkBuffer, Value
  <2> QED
    BY <2>1, <2>2 DEF Init, Devices
<1>3. reg \in [Channel -> [disk : Disk, lba0 : Digit, lba1 : Digit]]
  <2>1. 0 \in Digit
    BY SizesPositive, SMT DEF Digit
  <2> QED
    BY <2>1 DEF Init
<1>4. th \in [Proc -> Threads] /\ \A p \in Proc : InLoop(th[p])
  BY IdleTypes DEF Init
<1>5. 0 \in 0..MaxCalls /\ 0 \in 0..MaxErrors /\ 0 \in 0..MaxSwitches
  BY SizesPositive, SMT
<1>6. TypeOK
  BY <1>1, <1>2, <1>3, <1>4, <1>5 DEF Init, TypeOK
<1> QED
  BY <1>4, <1>6 DEF TypeInv

\* A step of one process that moves no data on the disks.
LEMMA ThreadTypes ==
  ASSUME TypeInv, NEW p \in Proc, NEW t \in Threads, InLoop(t),
         th' = [th EXCEPT ![p] = t]
  PROVE  th' \in [Proc -> Threads] /\ \A q \in Proc : InLoop(th'[q])
BY DEF TypeInv, TypeOK

LEMMA ThreadFields ==
  ASSUME TypeInv, NEW p \in Proc
  PROVE  /\ th[p] \in Threads /\ InLoop(th[p])
         /\ th[p].req \in Requests /\ th[p].req.disk \in Disk
         /\ Chan(p) \in Channel /\ Selected(p) \in Disk /\ dev[Selected(p)] \in Devices
         /\ ChannelOf[Selected(p)] = Chan(p)
<1>1. th[p] \in Threads /\ InLoop(th[p])
  BY DEF TypeInv, TypeOK
<1>2. th[p].req \in Requests /\ th[p].req.disk \in Disk
  BY <1>1, RequestTypes DEF InLoop
<1>3. Chan(p) \in Channel
  BY <1>2, EveryDiskHasChannel DEF Chan
<1> QED
  BY <1>1, <1>2, <1>3 DEF Selected, TypeInv, TypeOK

LEMMA BeginTypes ==
  ASSUME TypeInv, NEW p \in Proc, Begin(p)
  PROVE  TypeInv'
<1>1. calls + 1 \in 1..MaxCalls /\ calls' \in 0..MaxCalls
  BY SizesPositive, SMT DEF Begin, TypeInv, TypeOK
<1>2. New(p, calls + 1) \in Value
  BY <1>1 DEF New, Value
<1> DEFINE val == New(p, calls + 1)
           begun(r) == [pc |-> "wait", req |-> r, val |-> val, stat |-> 0,
                        dir |-> FirstDir(r.op), lba |-> SectorOf(r.from), i |-> 0,
                        buf |-> IF r.op = "overwrite" THEN [k \in Offset |-> val] ELSE JunkBuffer,
                        got |-> [a \in Address |-> Junk]]
<1>3. PICK r \in Requests :
        /\ th' = [th EXCEPT ![p] = begun(r)]
        /\ overlap' = overlap \/ overlap' = overlap \union {ChannelOf[r.disk]}
        /\ \/ covered' = covered
           \/ covered' = covered \union {<<r.disk, a>> : a \in r.from..r.to}
  BY DEF Begin
<1>4. r \in Request /\ r.disk \in Disk /\ r.from \in Address /\ r.to \in Address /\ SectorOf(r.from) \in Lba
  BY RequestTypes
<1>5. begun(r) \in Threads
  <2>1. 0 \in 0..SectorSize
    BY SizesPositive, SMT
  <2>2. JunkBuffer \in [Offset -> Value] /\ [k \in Offset |-> val] \in [Offset -> Value]
        /\ [a \in Address |-> Junk] \in [Address -> Value]
    BY <1>2 DEF JunkBuffer, Value
  <2>3. FirstDir(r.op) \in {"read", "write"}
    BY DEF FirstDir
  <2> QED
    BY <1>2, <1>4, <2>1, <2>2, <2>3 DEF Threads, Places
<1>6. InLoop(begun(r))
  BY DEF InLoop
<1>7. th' \in [Proc -> Threads] /\ \A q \in Proc : InLoop(th'[q])
  BY <1>3, <1>5, <1>6, ThreadTypes
<1>8. r.from..r.to \subseteq Address
  BY RangeTypes
<1>9. covered' \subseteq Disk \X Address
  BY <1>3, <1>4, <1>8 DEF TypeInv, TypeOK
<1>10. overlap' \subseteq Channel
  BY <1>3, <1>4, EveryDiskHasChannel DEF TypeInv, TypeOK
<1> QED
  BY <1>1, <1>7, <1>9, <1>10 DEF Begin, TypeInv, TypeOK

\* A step of p that changes only its place, its direction, sector, status or count.
LEMMA PlaceTypes ==
  ASSUME TypeInv, NEW p \in Proc, NEW t \in Threads, InLoop(t), th' = [th EXCEPT ![p] = t],
         UNCHANGED <<disk, dev, reg, refused, errors, Others>>
  PROVE  TypeInv'
<1>1. th' \in [Proc -> Threads] /\ \A q \in Proc : InLoop(th'[q])
  BY ThreadTypes
<1> QED
  BY <1>1 DEF TypeInv, TypeOK, Others

LEMMA DeviceTypes ==
  ASSUME TypeInv, NEW d \in Disk, NEW v \in Devices, dev' = [dev EXCEPT ![d] = v]
  PROVE  dev' \in [Disk -> Devices]
BY DEF TypeInv, TypeOK

LEMMA GotoTypes ==
  ASSUME TypeInv, NEW p \in Proc, NEW place \in Places \ {"poll", "check", "data"}
  PROVE  LET t == [th[p] EXCEPT !.pc = place] IN t \in Threads /\ InLoop(t)
BY ThreadFields DEF Threads, InLoop

LEMMA WaitingTypes ==
  ASSUME TypeInv, NEW p \in Proc, WaitNotBusy(p) \/ Poll(p) \/ Flush(p)
  PROVE  TypeInv'
<1>1. th[p] \in Threads /\ InLoop(th[p])
  BY ThreadFields
<1> DEFINE t(place) == [th[p] EXCEPT !.pc = place]
<1>2. \A place \in Places : t(place) \in Threads
  BY <1>1 DEF Threads
<1>3. InLoop(t("select")) /\ InLoop(t("sector"))
  BY <1>1 DEF InLoop
<1>4. th[p].pc = "poll" => InLoop(t("check")) /\ InLoop(t("data"))
  BY <1>1, SizesPositive DEF InLoop
<1>5. \A place : Goto(p, place) => th' = [th EXCEPT ![p] = t(place)]
  BY DEF Goto
<1>6. CASE WaitNotBusy(p)
  BY <1>2, <1>3, <1>5, <1>6, PlaceTypes DEF WaitNotBusy, Places
<1>7. CASE Flush(p)
  BY <1>2, <1>3, <1>5, <1>7, PlaceTypes DEF Flush, Places
<1>8. CASE Poll(p)
  BY <1>2, <1>4, <1>5, <1>8, PlaceTypes DEF Poll, Places
<1> QED
  BY <1>6, <1>7, <1>8

LEMMA RegisterTypes ==
  ASSUME TypeInv, NEW p \in Proc, Select(p) \/ SetLba0(p) \/ SetLba1(p)
  PROVE  TypeInv'
<1>1. /\ th[p] \in Threads /\ InLoop(th[p]) /\ th[p].req.disk \in Disk
      /\ Chan(p) \in Channel /\ th[p].lba \in Lba
  BY ThreadFields DEF Threads
<1>2. th[p].lba % Base \in Digit /\ th[p].lba \div Base \in Digit
  BY <1>1, Digits
<1>3. th' \in [Proc -> Threads] /\ \A q \in Proc : InLoop(th'[q])
  <2>1. PICK place \in Places \ {"poll", "check", "data"} : th' = [th EXCEPT ![p].pc = place]
    BY DEF Select, SetLba0, SetLba1, Goto, Places
  <2>2. th' = [th EXCEPT ![p] = [th[p] EXCEPT !.pc = place]]
    BY <2>1
  <2> QED
    BY <2>2, GotoTypes, ThreadTypes
<1>4. /\ reg' \in [Channel -> [disk : Disk, lba0 : Digit, lba1 : Digit]]
      /\ \A c \in Channel : ChannelOf[reg'[c].disk] = c
  <2> DEFINE c == Chan(p)
  <2>1. /\ reg \in [Channel -> [disk : Disk, lba0 : Digit, lba1 : Digit]]
        /\ \A x \in Channel : ChannelOf[reg[x].disk] = x
    BY DEF TypeInv, TypeOK
  <2>2. ChannelOf[th[p].req.disk] = c /\ c \in Channel
    BY <1>1 DEF Chan
  <2> HIDE DEF c
  <2>3. CASE Select(p)
    <3>1. reg' = [reg EXCEPT ![c].disk = th[p].req.disk]
      BY <2>3 DEF Select, c
    <3> QED
      BY <1>1, <2>1, <2>2, <3>1
  <2>4. CASE SetLba0(p)
    <3>1. reg' = [reg EXCEPT ![c].lba0 = th[p].lba % Base]
      BY <2>4 DEF SetLba0, c
    <3> QED
      BY <1>2, <2>1, <2>2, <3>1
  <2>5. CASE SetLba1(p)
    <3>1. reg' = [reg EXCEPT ![c].lba1 = th[p].lba \div Base]
      BY <2>5 DEF SetLba1, c
    <3> QED
      BY <1>2, <2>1, <2>2, <3>1
  <2> QED
    BY <2>3, <2>4, <2>5
<1>5. UNCHANGED <<disk, dev, refused, errors, Others>>
  BY DEF Select, SetLba0, SetLba1
<1> QED
  BY <1>3, <1>4, <1>5 DEF TypeInv, TypeOK, Others

LEMMA CommandTypes ==
  ASSUME TypeInv, NEW p \in Proc, Command(p)
  PROVE  TypeInv'
<1>1. /\ th[p] \in Threads /\ InLoop(th[p]) /\ Chan(p) \in Channel /\ Selected(p) \in Disk
      /\ th[p].dir \in {"read", "write"}
  BY ThreadFields DEF Threads
<1>2. reg[Chan(p)].lba1 * Base + reg[Chan(p)].lba0 \in Lba
  BY <1>1, Combined DEF TypeInv, TypeOK
<1>3. 0 \in Offset /\ 0 \in 0..SectorSize /\ JunkBuffer \in [Offset -> Value]
  BY SizesPositive, SMT DEF Offset, JunkBuffer, Value
<1>4. dev' \in [Disk -> Devices]
  <2> DEFINE l == reg[Chan(p)].lba1 * Base + reg[Chan(p)].lba0
             v == [st |-> "busy", cmd |-> th[p].dir, lba |-> l, n |-> 0,
                   buf |-> JunkBuffer, err |-> FALSE]
  <2>1. v \in Devices
    <3> HIDE DEF l
    <3>1. l \in Lba
      BY <1>2 DEF l
    <3> QED
      BY <1>1, <1>3, <3>1 DEF Devices
  <2>2. dev' = [dev EXCEPT ![Selected(p)] = v] \/ dev' = dev
    BY DEF Command
  <2> HIDE DEF v
  <2>3. CASE dev' = dev
    BY <2>3 DEF TypeInv, TypeOK
  <2>4. CASE dev' = [dev EXCEPT ![Selected(p)] = v]
    BY <1>1, <2>1, <2>4, DeviceTypes
  <2> QED
    BY <2>2, <2>3, <2>4
<1> DEFINE t == [th[p] EXCEPT !.pc = "poll", !.i = 0]
<1>5. t \in Threads /\ InLoop(t) /\ th' = [th EXCEPT ![p] = t]
  BY <1>1, <1>3 DEF Command, Threads, Places, InLoop
<1>6. th' \in [Proc -> Threads] /\ \A q \in Proc : InLoop(th'[q])
  BY <1>5, ThreadTypes
<1> QED
  BY <1>4, <1>6 DEF Command, Others, TypeInv, TypeOK

LEMMA CheckTypes ==
  ASSUME TypeInv, NEW p \in Proc, Check(p)
  PROVE  TypeInv'
<1>1. th[p] \in Threads /\ InLoop(th[p])
  BY ThreadFields
<1> DEFINE t == IF Failed(Selected(p)) THEN [th[p] EXCEPT !.pc = "done", !.stat = 1]
                ELSE [th[p] EXCEPT !.pc = "data"]
<1>2. t \in Threads
  BY <1>1 DEF Threads, Places
<1>3. InLoop(t)
  BY <1>1, SizesPositive DEF Check, InLoop
<1>4. th' = [th EXCEPT ![p] = t]
  BY DEF Check
<1> QED
  BY <1>2, <1>3, <1>4, PlaceTypes DEF Check

LEMMA MovedTypes ==
  ASSUME TypeInv, NEW p \in Proc, th[p].pc = "data", NEW after \in {"sector", "flush"}
  PROVE  Moved(th[p], after) \in Threads /\ InLoop(Moved(th[p], after)) /\ th[p].i \in Offset
<1>1. th[p] \in Threads /\ InLoop(th[p])
  BY ThreadFields
<1>2. th[p].i \in Offset /\ th[p].i + 1 \in 0..SectorSize
  BY <1>1, SizesPositive, SMT DEF Threads, InLoop, Offset
<1> QED
  BY <1>1, <1>2 DEF Moved, Threads, InLoop, Places

LEMMA DataInTypes ==
  ASSUME TypeInv, NEW p \in Proc, DataIn(p)
  PROVE  TypeInv'
<1> DEFINE t == th[p]
           d == Selected(p)
           got(v) == [Moved(t, "sector") EXCEPT !.buf[t.i] = v]
<1>1. dev[d] \in Devices /\ d \in Disk
  BY ThreadFields
<1>2. Moved(t, "sector") \in Threads /\ InLoop(Moved(t, "sector")) /\ t.i \in Offset
  BY MovedTypes DEF DataIn
<1>3. \A v \in Value : got(v) \in Threads /\ InLoop(got(v))
  BY <1>2 DEF Threads, InLoop
<1>4. Junk \in Value /\ dev[d].buf[dev[d].n] \in Value
  BY <1>1 DEF Devices, Value
<1>5. PICK v \in Value : th' = [th EXCEPT ![p] = got(v)]
  BY <1>4 DEF DataIn
<1>6. th' \in [Proc -> Threads] /\ \A q \in Proc : InLoop(th'[q])
  BY <1>3, <1>5, ThreadTypes
<1>7. dev[d].n # SectorSize - 1 => dev[d].n + 1 \in Offset
  BY <1>1, SizesPositive, SMT DEF Devices, Offset
<1>8. dev' \in [Disk -> Devices]
  <2>1. CASE Moves(d, "read")
    <3>1. Given(dev[d]) \in Devices
      BY <1>1, <1>7 DEF Devices, Given
    <3>2. dev' = [dev EXCEPT ![d] = Given(dev[d])]
      BY <2>1 DEF DataIn
    <3> QED
      BY <1>1, <3>1, <3>2, DeviceTypes
  <2>2. CASE ~Moves(d, "read")
    BY <2>2 DEF DataIn, TypeInv, TypeOK
  <2> QED
    BY <2>1, <2>2
<1> QED
  BY <1>6, <1>8 DEF DataIn, Others, TypeInv, TypeOK

LEMMA DataOutTypes ==
  ASSUME TypeInv, NEW p \in Proc, DataOut(p)
  PROVE  TypeInv'
<1> DEFINE t == th[p]
           d == Selected(p)
<1>1. dev[d] \in Devices /\ d \in Disk
  BY ThreadFields
<1>2. Moved(t, "flush") \in Threads /\ InLoop(Moved(t, "flush")) /\ t.i \in Offset
  BY MovedTypes DEF DataOut
<1>3. th' \in [Proc -> Threads] /\ \A q \in Proc : InLoop(th'[q])
  BY <1>2, ThreadTypes DEF DataOut
<1>4. t.buf[t.i] \in Value
  BY <1>2, ThreadFields DEF Threads
<1>5. dev[d].n # SectorSize - 1 => dev[d].n + 1 \in Offset
  BY <1>1, SizesPositive, SMT DEF Devices, Offset
<1>6. 0 \in Offset
  BY SizesPositive, SMT DEF Offset
<1>7. dev' \in [Disk -> Devices]
  <2>1. CASE Moves(d, "write")
    <3>1. Taken(dev[d], t.buf[t.i]) \in Devices
      BY <1>1, <1>4, <1>5, <1>6 DEF Devices, Taken
    <3>2. dev' = [dev EXCEPT ![d] = Taken(dev[d], t.buf[t.i])]
      BY <2>1 DEF DataOut
    <3> QED
      BY <1>1, <3>1, <3>2, DeviceTypes
  <2>2. CASE ~Moves(d, "write")
    BY <2>2 DEF DataOut, TypeInv, TypeOK
  <2> QED
    BY <2>1, <2>2
<1> QED
  BY <1>3, <1>7 DEF DataOut, Others, TypeInv, TypeOK

LEMMA NextSectorTypes ==
  ASSUME TypeInv, NEW p \in Proc, NextSector(p)
  PROVE  TypeInv'
<1> DEFINE t == th[p]
<1>1. t \in Threads /\ t.req \in Requests
  BY ThreadFields
<1>2. t.lba \in Lba /\ t.req.to \in Address /\ t.val \in Value
  BY <1>1, RequestTypes DEF Threads
<1>3. \A k \in Offset : t.buf[k] \in Value
  BY <1>1 DEF Threads
<1>4. \A a \in Address : a % SectorSize \in Offset
  BY SectorAndOffset
<1>5. \A x \in Threads : x.lba = t.lba /\ x.req = t.req => Next1(x) \in Threads /\ InLoop(Next1(x))
  <2> SUFFICES ASSUME NEW x \in Threads, x.lba = t.lba, x.req = t.req
               PROVE  Next1(x) \in Threads /\ InLoop(Next1(x))
    OBVIOUS
  <2>1. CASE Last(x)
    BY <1>1, <2>1 DEF Next1, Threads, Places, InLoop
  <2>2. CASE ~Last(x)
    <3>1. x.lba + 1 \in Lba
      BY <1>2, <2>2, Behind DEF Last
    <3>2. FirstDir(x.req.op) \in {"read", "write"}
      BY DEF FirstDir
    <3> QED
      BY <1>1, <2>2, <3>1, <3>2 DEF Next1, Threads, Places, InLoop
  <2> QED
    BY <2>1, <2>2
<1>6. Copied(t) \in Threads /\ Copied(t).lba = t.lba /\ Copied(t).req = t.req
  <2>1. [a \in Address |-> IF a \in Part(t) THEN t.buf[a % SectorSize] ELSE t.got[a]]
          \in [Address -> Value]
    BY <1>1, <1>3, <1>4 DEF Threads
  <2> QED
    BY <1>1, <2>1 DEF Copied, Threads
<1>7. Merged(t) \in Threads /\ InLoop(Merged(t))
  <2>1. [k \in Offset |-> IF At(t.lba, k) \in Part(t) THEN t.val ELSE t.buf[k]] \in [Offset -> Value]
    BY <1>2, <1>3
  <2> QED
    BY <1>1, <2>1 DEF Merged, Threads, Places, InLoop
<1>8. PICK x \in {Next1(t), Next1(Copied(t)), Merged(t)} : th' = [th EXCEPT ![p] = x]
  BY DEF NextSector
<1>9. x \in Threads /\ InLoop(x)
  BY <1>1, <1>5, <1>6, <1>7
<1> QED
  BY <1>8, <1>9, PlaceTypes DEF NextSector

LEMMA ReturnTypes ==
  ASSUME TypeInv, NEW p \in Proc, Return(p)
  PROVE  TypeInv'
BY IdleTypes, PlaceTypes DEF Return

LEMMA DiskTypes ==
  ASSUME TypeInv, NEW d \in Disk, Fetch(d) \/ Store(d) \/ Refuse(d)
  PROVE  TypeInv'
<1>1. dev[d] \in Devices /\ disk \in [Disk -> [Address -> Value]]
  BY DEF TypeInv, TypeOK
<1>2. 0 \in Offset
  BY SizesPositive, SMT DEF Offset
<1>3. dev[d].lba \in Lba
  BY <1>1 DEF Devices
<1>4. Sector(d) \in [Offset -> Value]
  BY <1>1, <1>3, AddressOf DEF Sector
<1>5. CASE Fetch(d)
  <2> DEFINE v == IF dev[d].cmd = "read"
                  THEN [dev[d] EXCEPT !.st = "data", !.n = 0, !.buf = Sector(d)]
                  ELSE [dev[d] EXCEPT !.st = "data", !.n = 0]
  <2>1. v \in Devices
    BY <1>1, <1>2, <1>4 DEF Devices
  <2>2. dev' = [dev EXCEPT ![d] = v]
    BY <1>5 DEF Fetch
  <2>3. dev' \in [Disk -> Devices]
    BY <2>1, <2>2, DeviceTypes
  <2> QED
    BY <1>5, <2>3 DEF Fetch, Others, TypeInv, TypeOK
<1>6. CASE Store(d)
  <2>1. \A a \in Address : a % SectorSize \in Offset
    BY SectorAndOffset
  <2>2. disk' \in [Disk -> [Address -> Value]]
    BY <1>1, <1>6, <2>1 DEF Store, Devices
  <2> DEFINE v == [dev[d] EXCEPT !.st = "ready"]
  <2>3. v \in Devices /\ dev' = [dev EXCEPT ![d] = v]
    BY <1>1, <1>6 DEF Store, Devices
  <2>4. dev' \in [Disk -> Devices]
    BY <2>3, DeviceTypes
  <2> QED
    BY <1>6, <2>2, <2>4 DEF Store, Others, TypeInv, TypeOK
<1>7. CASE Refuse(d)
  <2> DEFINE v == [dev[d] EXCEPT !.st = "ready", !.err = TRUE]
  <2>1. v \in Devices /\ dev' = [dev EXCEPT ![d] = v]
    BY <1>1, <1>7 DEF Refuse, Devices
  <2>2. dev' \in [Disk -> Devices]
    BY <2>1, DeviceTypes
  <2>3. refused' \subseteq Disk \X Lba
    BY <1>3, <1>7 DEF Refuse, TypeInv, TypeOK
  <2>4. errors' \in 0..MaxErrors
    BY <1>7, SizesPositive, SMT DEF Refuse, TypeInv, TypeOK
  <2> QED
    BY <1>7, <2>2, <2>3, <2>4 DEF Refuse, Others, TypeInv, TypeOK
<1> QED
  BY <1>5, <1>6, <1>7

LEMMA SwitchTypes == TypeInv /\ Switch => TypeInv'
<1> SUFFICES ASSUME TypeInv, Switch PROVE TypeInv'
  OBVIOUS
<1>1. cpu' \in Proc
  BY DEF Switch
<1>2. switches' \in 0..MaxSwitches
  BY SizesPositive, SMT DEF Switch, TypeInv, TypeOK
<1> QED
  BY <1>1, <1>2 DEF Switch, TypeInv, TypeOK

LEMMA NextTypes == TypeInv /\ [Next]_vars => TypeInv'
<1> SUFFICES ASSUME TypeInv, [Next]_vars PROVE TypeInv'
  OBVIOUS
<1>1. cpu \in Proc
  BY DEF TypeInv, TypeOK
<1>2. CASE Begin(cpu)
  BY <1>1, <1>2, BeginTypes
<1>3. CASE Step(cpu)
  BY <1>1, <1>3, WaitingTypes, RegisterTypes, CommandTypes, CheckTypes, DataInTypes,
     DataOutTypes, NextSectorTypes, ReturnTypes DEF Step
<1>4. CASE Switch
  BY <1>4, SwitchTypes
<1>5. CASE \E d \in Disk : Fetch(d) \/ Store(d) \/ Refuse(d)
  BY <1>5, DiskTypes
<1>6. CASE UNCHANGED vars
  BY <1>6 DEF vars, TypeInv, TypeOK
<1> QED
  BY <1>2, <1>3, <1>4, <1>5, <1>6 DEF Next

\* The disks, controllers, registers, requests and counters keep their types, and the loop
\* that moves a sector's data stays within the buffer of drive.c's caller.
THEOREM TypesKept == Spec => []TypeOK
<1>1. TypeInv => TypeOK
  BY DEF TypeInv
<1> QED
  BY <1>1, InitTypes, NextTypes, PTL DEF Spec

-----------------------------------------------------------------------------
(***************************************************************************)
(* The invariant behind KeepsTheRest and DoneAsAsked.  On a channel where  *)
(* no two requests were under way at once, the registers, the disk and the *)
(* buffers are what the one request made of them (Mine); what the other    *)
(* channels and processes do changes none of that.                         *)
(***************************************************************************)
Transfer == {"poll", "check", "data", "flush"}

InRequest(p) == th[p].pc # "idle"

\* Two requests on one channel are noted in overlap.
OneAtATime ==
  \A p, q \in Proc :
    p # q /\ InRequest(p) /\ InRequest(q) /\ Chan(p) = Chan(q) => Chan(p) \in overlap

\* A disk that is not ready works for a request for it.
Owned ==
  \A d \in Disk :
    Alone(d) /\ dev[d].st # "ready" =>
      \E p \in Proc : th[p].req.disk = d /\ th[p].pc \in Transfer

ErrorsEnd == \A d \in Disk : dev[d].st # "ready" => ~dev[d].err

\* The sectors a request goes through, and in which direction.
Course(t) ==
  /\ SectorOf(t.req.from) <= t.lba /\ t.lba <= SectorOf(t.req.to)
  /\ t.req.op = "read" => t.dir = "read"
  /\ t.req.op = "overwrite" => t.dir = "write"
  /\ t.pc = "check" => t.dir = "read"
  /\ t.pc = "flush" => t.dir = "write"
  /\ t.pc = "done" /\ t.stat = 0 => Last(t) /\ (t.req.op # "read" => t.dir = "write")

CoveredBy(t, cov) ==
  t.req.op # "read" => \A a \in t.req.from..t.req.to : <<t.req.disk, a>> \in cov

Registers(t, r) ==
  /\ t.pc \in {"lba0", "lba1", "command"} \union Transfer => r.disk = t.req.disk
  /\ t.pc \in {"lba1", "command"} => r.lba0 = t.lba % Base
  /\ t.pc = "command" => r.lba1 = t.lba \div Base

\* What the disk of a request is doing for it.
Working(t, v) ==
  /\ t.pc \notin Transfer => v.st = "ready"
  /\ t.pc \in Transfer => v.lba = t.lba /\ v.cmd = t.dir
  /\ t.pc = "poll" => v.st \in {"busy", "data", "ready"}
  /\ t.pc = "check" => v.st \in {"data", "ready"}
  /\ t.pc = "data" => v.st = "data" \/ (t.dir = "write" /\ v.st = "ready")
  /\ t.pc = "flush" => v.st \in {"store", "ready"}
  /\ v.st = "data" => v.n = t.i

\* What the buffers of process and disk hold of a sector; s is the disk.
Buffers(t, v, s) ==
  /\ t.dir = "read" /\ v.st = "data" => \A k \in Offset : v.buf[k] = s[At(t.lba, k)]
  /\ t.dir = "read" /\ t.pc = "data" => \A k \in Offset : k < t.i => t.buf[k] = s[At(t.lba, k)]
  /\ t.dir = "read" /\ t.pc = "sector" => \A k \in Offset : t.buf[k] = s[At(t.lba, k)]
  /\ t.dir = "write" /\ v.st = "data" => \A k \in Offset : k < v.n => v.buf[k] = t.buf[k]
  /\ v.st = "store" => \A k \in Offset : v.buf[k] = t.buf[k]
  /\ t.dir = "write" =>
       \A k \in Offset :
         t.buf[k] = IF At(t.lba, k) \in Part(t) THEN t.val ELSE s[At(t.lba, k)]

\* What a read has copied, and what a write has written or the disk refused.
Copies(t, s) ==
  t.req.op = "read" =>
    \A a \in t.req.from..t.req.to :
      SectorOf(a) < t.lba \/ (t.pc = "done" /\ t.stat = 0) => t.got[a] = s[a]

Through(t, v) == t.pc \in {"sector", "done"} \/ (t.pc = "flush" /\ v.st = "ready")

Writes(t, v, s, ref) ==
  t.req.op # "read" =>
    \A a \in t.req.from..t.req.to :
      SectorOf(a) < t.lba \/ (SectorOf(a) = t.lba /\ t.dir = "write" /\ Through(t, v)) =>
        s[a] = t.val \/ <<t.req.disk, SectorOf(a)>> \in ref

Denied(t, v, ref) ==
  t.dir = "write" /\ t.pc \in {"poll", "data"} /\ v.st = "ready" => <<t.req.disk, t.lba>> \in ref

Mine(t, v, r, s, ref) ==
  /\ Registers(t, r) /\ Working(t, v) /\ Buffers(t, v, s)
  /\ Copies(t, s) /\ Writes(t, v, s, ref) /\ Denied(t, v, ref)

RequestInv(p) ==
  LET t == th[p]
      d == t.req.disk
  IN InRequest(p) =>
       /\ Course(t) /\ CoveredBy(t, covered)
       /\ Alone(d) => Mine(t, dev[d], reg[Chan(p)], disk[d], refused)

DriveInv ==
  /\ TypeInv
  /\ OneAtATime /\ Owned /\ ErrorsEnd
  /\ \A p \in Proc : RequestInv(p)
  /\ KeepsTheRest

-----------------------------------------------------------------------------
LEMMA MineGrows ==
  ASSUME NEW t, NEW v, NEW r, NEW s, NEW ref, NEW more, Mine(t, v, r, s, ref), ref \subseteq more
  PROVE  Mine(t, v, r, s, more)
<1>1. Writes(t, v, s, more)
  BY DEF Mine, Writes
<1>2. Denied(t, v, more)
  BY DEF Mine, Denied
<1> QED
  BY <1>1, <1>2 DEF Mine

\* A request nobody touches: its process, and on a channel of its own its disk and registers.
LEMMA Undisturbed ==
  ASSUME DriveInv, NEW q \in Proc, th'[q] = th[q],
         covered \subseteq covered', overlap \subseteq overlap', refused \subseteq refused',
         InRequest(q) /\ Chan(q) \notin overlap' =>
           /\ dev'[th[q].req.disk] = dev[th[q].req.disk]
           /\ disk'[th[q].req.disk] = disk[th[q].req.disk]
           /\ reg'[Chan(q)] = reg[Chan(q)]
  PROVE  RequestInv(q)'
<1> DEFINE t == th[q]
           d == t.req.disk
<1>1. SUFFICES ASSUME InRequest(q)
               PROVE  /\ Course(t) /\ CoveredBy(t, covered')
                      /\ Chan(q) \notin overlap' =>
                           Mine(t, dev'[d], reg'[Chan(q)], disk'[d], refused')
  BY DEF RequestInv, InRequest, Alone, Chan
<1>2. RequestInv(q)
  BY DEF DriveInv
<1>3. Course(t) /\ CoveredBy(t, covered')
  BY <1>1, <1>2 DEF RequestInv, CoveredBy
<1>4. ASSUME Chan(q) \notin overlap'
      PROVE  Mine(t, dev'[d], reg'[Chan(q)], disk'[d], refused')
  <2>1. Mine(t, dev[d], reg[Chan(q)], disk[d], refused)
    BY <1>1, <1>2, <1>4 DEF RequestInv, Alone, Chan
  <2>2. Mine(t, dev[d], reg[Chan(q)], disk[d], refused')
    BY <2>1, MineGrows
  <2> QED
    BY <1>1, <1>4, <2>2
<1> QED
  BY <1>3, <1>4

\* A step of p in its request: it is enough to look at p, and at the disk it asked for.
LEMMA ProcessStep ==
  ASSUME DriveInv, TypeInv', NEW p \in Proc, InRequest(p),
         NEW t \in Threads, t.req = th[p].req, t.pc # "idle", th' = [th EXCEPT ![p] = t],
         UNCHANGED <<disk, covered, overlap, refused>>,
         \A c \in Channel : c # Chan(p) => reg'[c] = reg[c],
         \A e \in Disk : ChannelOf[e] # Chan(p) => dev'[e] = dev[e],
         ErrorsEnd', Course(t),
         Chan(p) \notin overlap =>
           /\ \A e \in Disk : e # t.req.disk => dev'[e] = dev[e]
           /\ Mine(t, dev'[t.req.disk], reg'[Chan(p)], disk[t.req.disk], refused)
  PROVE  DriveInv'
<1>1. TypeInv /\ OneAtATime /\ Owned /\ KeepsTheRest /\ \A q \in Proc : RequestInv(q)
  BY DEF DriveInv
<1>2. th'[p] = t /\ \A q \in Proc : q # p => th'[q] = th[q]
  BY <1>1 DEF TypeInv, TypeOK
<1>3. \A q \in Proc : Chan(q)' = Chan(q) /\ (InRequest(q)' <=> InRequest(q))
  BY <1>2 DEF Chan, InRequest
<1>4. OneAtATime'
  BY <1>1, <1>3 DEF OneAtATime
<1>5. Owned'
  <2> SUFFICES ASSUME NEW d \in Disk, ChannelOf[d] \notin overlap, dev'[d].st # "ready"
               PROVE  \E q \in Proc : th'[q].req.disk = d /\ th'[q].pc \in Transfer
    BY DEF Owned, Alone
  <2>1. CASE d = t.req.disk
    <3>1. Chan(p) \notin overlap
      BY <2>1 DEF Chan
    <3>2. Working(t, dev'[d])
      BY <2>1, <3>1 DEF Mine
    <3>3. t.pc \in Transfer
      BY <3>2 DEF Working
    <3> QED
      BY <1>2, <2>1, <3>3
  <2>2. CASE d # t.req.disk
    <3>1. dev'[d] = dev[d]
      BY <2>2
    <3>2. PICK q \in Proc : th[q].req.disk = d /\ th[q].pc \in Transfer
      BY <1>1, <3>1 DEF Owned, Alone
    <3>3. q # p
      BY <2>2, <3>2
    <3> QED
      BY <1>2, <3>2, <3>3
  <2> QED
    BY <2>1, <2>2
<1>6. \A q \in Proc : RequestInv(q)'
  <2> SUFFICES ASSUME NEW q \in Proc PROVE RequestInv(q)'
    OBVIOUS
  <2>1. CASE q = p
    <3>1. CoveredBy(t, covered)
      BY <1>1 DEF RequestInv, CoveredBy
    <3>2. Chan(p) = ChannelOf[t.req.disk]
      BY DEF Chan
    <3> QED
      BY <1>2, <1>3, <2>1, <3>1, <3>2 DEF RequestInv, Alone
  <2>2. CASE q # p
    <3> DEFINE d == th[q].req.disk
    <3>1. d \in Disk /\ Chan(q) \in Channel /\ ChannelOf[d] = Chan(q)
      BY <1>1, ThreadFields DEF Chan
    <3>2. InRequest(q) /\ Chan(q) \notin overlap => Chan(q) # Chan(p)
      BY <1>1, <2>2 DEF OneAtATime
    <3>3. InRequest(q) /\ Chan(q) \notin overlap => dev'[d] = dev[d] /\ reg'[Chan(q)] = reg[Chan(q)]
      BY <3>1, <3>2
    <3> QED
      BY <1>2, <2>2, <3>3, Undisturbed
  <2> QED
    BY <2>1, <2>2
<1>7. KeepsTheRest'
  BY <1>1 DEF KeepsTheRest, Alone
<1> QED
  BY <1>4, <1>5, <1>6, <1>7 DEF DriveInv

\* On a channel of its own a process talks to the disk of its request.
LEMMA OwnDisk ==
  ASSUME DriveInv, NEW p \in Proc, InRequest(p)
  PROVE  LET t == th[p]
             d == t.req.disk
         IN  /\ Course(t) /\ t.req \in Requests /\ d \in Disk /\ dev[d] \in Devices
             /\ t \in Threads /\ InLoop(t)
             /\ Chan(p) \in Channel /\ Chan(p) = ChannelOf[d]
             /\ Chan(p) \notin overlap =>
                  /\ Mine(t, dev[d], reg[Chan(p)], disk[d], refused)
                  /\ t.pc \in {"lba0", "lba1", "command"} \union Transfer => Selected(p) = d
<1>1. TypeInv /\ RequestInv(p)
  BY DEF DriveInv
<1>2. /\ th[p] \in Threads /\ InLoop(th[p]) /\ th[p].req \in Requests /\ th[p].req.disk \in Disk
      /\ Chan(p) \in Channel /\ Chan(p) = ChannelOf[th[p].req.disk]
  BY <1>1, ThreadFields DEF Chan
<1>3. dev[th[p].req.disk] \in Devices
  BY <1>1, <1>2 DEF TypeInv, TypeOK
<1>4. Chan(p) \notin overlap => Mine(th[p], dev[th[p].req.disk], reg[Chan(p)], disk[th[p].req.disk], refused)
  BY <1>1, <1>2 DEF RequestInv, Alone
<1>5. Chan(p) \notin overlap /\ th[p].pc \in {"lba0", "lba1", "command"} \union Transfer
        => Selected(p) = th[p].req.disk
  BY <1>4 DEF Mine, Registers, Selected
<1> QED
  BY <1>1, <1>2, <1>3, <1>4, <1>5 DEF RequestInv

\* A step of p that leaves the disks and the registers alone.
LEMMA QuietStep ==
  ASSUME DriveInv, TypeInv', NEW p \in Proc, InRequest(p),
         NEW t \in Threads, t.req = th[p].req, t.pc # "idle", th' = [th EXCEPT ![p] = t],
         UNCHANGED <<disk, dev, reg, refused, errors, Others>>, Course(t),
         Chan(p) \notin overlap =>
           Mine(t, dev[t.req.disk], reg[Chan(p)], disk[t.req.disk], refused)
  PROVE  DriveInv'
<1>1. ErrorsEnd'
  BY DEF DriveInv, ErrorsEnd
<1>2. UNCHANGED <<disk, covered, overlap, refused>> /\ dev' = dev /\ reg' = reg
  BY DEF Others
<1> QED
  BY <1>1, <1>2, ProcessStep

\* The places a process goes to when a disk, whose state is v, lets it.
Passes(u, v, place) ==
  \/ u.pc = "wait" /\ place = "select"
  \/ u.pc = "poll" /\ u.dir = "read" /\ place = "check" /\ v.st \notin {"busy", "store"}
  \/ u.pc = "poll" /\ u.dir = "write" /\ place = "data" /\ v.st \notin {"busy", "store"}
  \/ u.pc = "check" /\ place = "data" /\ v.st = "data"
  \/ u.pc = "flush" /\ place = "sector" /\ v.st \notin {"busy", "store"}

LEMMA PassesMine ==
  ASSUME NEW u \in Threads, InLoop(u), Course(u), NEW v, NEW r, NEW s, NEW ref,
         Mine(u, v, r, s, ref), NEW place \in Places, Passes(u, v, place)
  PROVE  Mine([u EXCEPT !.pc = place], v, r, s, ref)
<1> DEFINE t == [u EXCEPT !.pc = place]
<1>1. t.pc = place /\ t.req = u.req /\ t.dir = u.dir /\ t.lba = u.lba /\ t.i = u.i
      /\ t.buf = u.buf /\ t.got = u.got /\ t.val = u.val /\ t.stat = u.stat
  BY DEF Threads
<1>2. u.i \in 0..SectorSize /\ (u.pc \in {"poll", "check"} => u.i = 0)
  BY DEF Threads, InLoop
<1>3. u.pc = "check" => u.dir = "read"
  BY DEF Course
<1>4. u.pc = "flush" => u.dir = "write"
  BY DEF Course
<1> HIDE DEF t
<1>5. Registers(t, r)
  BY <1>1 DEF Mine, Registers, Transfer, Passes
<1>6. Working(t, v)
  BY <1>1, <1>3, <1>4 DEF Mine, Working, Transfer, Passes
<1>7. Buffers(t, v, s)
  <2>1. \A k \in Offset : ~(k < 0)
    BY SizesPositive, SMT DEF Offset
  <2>2. Buffers(u, v, s) /\ Part(t) = Part(u)
    BY <1>1 DEF Mine, Part
  <2>3. (place = "data" => u.i = 0) /\ (place = "sector" => u.dir = "write")
    BY <1>2, <1>4 DEF Passes
  <2> QED
    BY <1>1, <2>1, <2>2, <2>3 DEF Buffers
<1>8. Copies(t, s)
  BY <1>1 DEF Mine, Copies, Passes
<1>9. Writes(t, v, s, ref)
  <2>1. Through(t, v) => Through(u, v)
    BY <1>1 DEF Mine, Working, Through, Passes
  <2> QED
    BY <1>1, <2>1 DEF Mine, Writes
<1>10. Denied(t, v, ref)
  BY <1>1 DEF Mine, Denied, Passes
<1>11. Mine(t, v, r, s, ref)
  BY <1>5, <1>6, <1>7, <1>8, <1>9, <1>10 DEF Mine
<1> QED
  BY <1>11 DEF t

LEMMA PassesInv ==
  ASSUME DriveInv, TypeInv', NEW p \in Proc, InRequest(p), NEW place \in Places \ {"idle", "done"},
         th' = [th EXCEPT ![p] = [th[p] EXCEPT !.pc = place]],
         UNCHANGED <<disk, dev, reg, refused, errors, Others>>,
         Course([th[p] EXCEPT !.pc = place]),
         Chan(p) \notin overlap => Passes(th[p], dev[th[p].req.disk], place)
  PROVE  DriveInv'
<1> DEFINE t == [th[p] EXCEPT !.pc = place]
           d == th[p].req.disk
<1>1. th[p] \in Threads /\ InLoop(th[p]) /\ Course(th[p])
  BY OwnDisk
<1>2. t \in Threads /\ t.req = th[p].req /\ t.pc # "idle"
  BY <1>1 DEF Threads
<1>3. Chan(p) \notin overlap => Mine(t, dev[d], reg[Chan(p)], disk[d], refused)
  BY <1>1, OwnDisk, PassesMine
<1> QED
  BY <1>2, <1>3, QuietStep

LEMMA CourseAt ==
  ASSUME NEW u \in Threads, Course(u), NEW place \in Places,
         place = "check" => u.dir = "read", place = "flush" => u.dir = "write", place # "done"
  PROVE  Course([u EXCEPT !.pc = place])
BY DEF Threads, Course

LEMMA WaitingInv ==
  ASSUME DriveInv, TypeInv', NEW p \in Proc, WaitNotBusy(p) \/ Poll(p) \/ Flush(p)
  PROVE  DriveInv'
<1> DEFINE d == th[p].req.disk
<1>1. InRequest(p)
  BY DEF WaitNotBusy, Poll, Flush, InRequest
<1>2. th[p] \in Threads /\ Course(th[p]) /\ th[p].dir \in {"read", "write"}
  BY <1>1, OwnDisk DEF Threads
<1>3. UNCHANGED <<disk, dev, reg, refused, errors, Others>>
  BY DEF WaitNotBusy, Poll, Flush
<1>4. Chan(p) \notin overlap /\ th[p].pc \in Transfer => Selected(p) = d
  BY <1>1, OwnDisk
<1>5. CASE WaitNotBusy(p)
  <2>1. th' = [th EXCEPT ![p] = [th[p] EXCEPT !.pc = "select"]]
    BY <1>5 DEF WaitNotBusy, Goto
  <2>2. Passes(th[p], dev[d], "select")
    BY <1>5 DEF WaitNotBusy, Passes
  <2> QED
    BY <1>1, <1>2, <1>3, <2>1, <2>2, CourseAt, PassesInv DEF Places
<1>6. CASE Flush(p)
  <2>1. th' = [th EXCEPT ![p] = [th[p] EXCEPT !.pc = "sector"]]
    BY <1>6 DEF Flush, Goto
  <2>2. Chan(p) \notin overlap => Passes(th[p], dev[d], "sector")
    BY <1>4, <1>6 DEF Flush, Busy, Passes, Transfer
  <2> QED
    BY <1>1, <1>2, <1>3, <2>1, <2>2, CourseAt, PassesInv DEF Places
<1>7. CASE Poll(p)
  <2> DEFINE place == IF th[p].dir = "read" THEN "check" ELSE "data"
  <2>1. th' = [th EXCEPT ![p] = [th[p] EXCEPT !.pc = place]]
    BY <1>7 DEF Poll, Goto
  <2>2. Chan(p) \notin overlap => Passes(th[p], dev[d], place)
    BY <1>2, <1>4, <1>7 DEF Poll, Busy, Passes, Transfer
  <2>3. place \in Places \ {"idle", "done"} /\ Course([th[p] EXCEPT !.pc = place])
    BY <1>2, CourseAt DEF Places
  <2> HIDE DEF place
  <2> QED
    BY <1>1, <1>3, <2>1, <2>2, <2>3, PassesInv
<1> QED
  BY <1>5, <1>6, <1>7

LEMMA CheckInv ==
  ASSUME DriveInv, TypeInv', NEW p \in Proc, Check(p)
  PROVE  DriveInv'
<1> DEFINE u == th[p]
           d == u.req.disk
           t == [u EXCEPT !.pc = "done", !.stat = 1]
<1>1. InRequest(p) /\ u.pc = "check" /\ UNCHANGED <<disk, dev, reg, refused, errors, Others>>
  BY DEF Check, InRequest
<1>2. u \in Threads /\ Course(u) /\ u.dir = "read" /\ d \in Disk
  BY <1>1, OwnDisk DEF Course
<1>3. Chan(p) \notin overlap =>
        Selected(p) = d /\ Mine(u, dev[d], reg[Chan(p)], disk[d], refused)
  BY <1>1, OwnDisk DEF Transfer
<1>4. CASE ~Failed(Selected(p))
  <2>1. th' = [th EXCEPT ![p] = [u EXCEPT !.pc = "data"]]
    BY <1>4 DEF Check
  <2>2. Chan(p) \notin overlap => Passes(u, dev[d], "data")
    BY <1>1, <1>3, <1>4 DEF Passes, Failed
  <2> QED
    BY <1>1, <1>2, <2>1, <2>2, CourseAt, PassesInv DEF Places
<1>5. CASE Failed(Selected(p))
  <2>1. th' = [th EXCEPT ![p] = t]
    BY <1>5 DEF Check
  <2>2. t \in Threads /\ t.req = u.req /\ t.pc = "done" /\ t.dir = u.dir /\ t.lba = u.lba
        /\ t.i = u.i /\ t.buf = u.buf /\ t.got = u.got /\ t.val = u.val /\ t.stat = 1
    BY <1>2 DEF Threads, Places
  <2> HIDE DEF t
  <2>3. Course(t)
    BY <1>2, <2>2 DEF Course
  <2>4. Chan(p) \notin overlap => Mine(t, dev[d], reg[Chan(p)], disk[d], refused)
    <3> SUFFICES ASSUME Chan(p) \notin overlap
                 PROVE  Mine(t, dev[d], reg[Chan(p)], disk[d], refused)
      OBVIOUS
    <3> DEFINE v == dev[d]
               r == reg[Chan(p)]
               s == disk[d]
    <3>1. Mine(u, v, r, s, refused) /\ (v.st # "ready" => ~v.err) /\ (v.err \/ v.st # "data")
      BY <1>2, <1>3, <1>5 DEF Failed, DriveInv, ErrorsEnd
    <3> HIDE DEF v, r, s
    <3>2. v.st = "ready"
      BY <1>1, <3>1 DEF Mine, Working
    <3>3. Registers(t, r) /\ Working(t, v)
      BY <1>1, <2>2, <3>2 DEF Registers, Working, Transfer
    <3>4. Buffers(t, v, s)
      BY <1>2, <2>2, <3>2 DEF Buffers
    <3>5. Copies(t, s) /\ Writes(t, v, s, refused) /\ Denied(t, v, refused)
      BY <1>2, <2>2, <3>1 DEF Mine, Copies, Writes, Denied
    <3>6. Mine(t, v, r, s, refused)
      BY <3>3, <3>4, <3>5 DEF Mine
    <3> QED
      BY <3>6 DEF v, r, s
  <2>5. t.req.disk = d /\ t.pc # "idle"
    BY <2>2
  <2> QED
    BY <1>1, <2>1, <2>2, <2>3, <2>4, <2>5, QuietStep
<1> QED
  BY <1>4, <1>5

Programming == {"select", "lba0", "lba1", "command"}

LEMMA RegisterMine ==
  ASSUME NEW u \in Threads, NEW v, NEW r, NEW r2, NEW s, NEW ref,
         Mine(u, v, r, s, ref), NEW place \in Programming, u.pc \in Programming,
         Registers([u EXCEPT !.pc = place], r2)
  PROVE  Mine([u EXCEPT !.pc = place], v, r2, s, ref)
<1> DEFINE t == [u EXCEPT !.pc = place]
<1>1. t.pc = place /\ t.req = u.req /\ t.dir = u.dir /\ t.lba = u.lba /\ t.i = u.i
      /\ t.buf = u.buf /\ t.got = u.got /\ t.val = u.val /\ t.stat = u.stat
  BY DEF Threads
<1>2. Registers(t, r2)
  OBVIOUS
<1> HIDE DEF t
<1>3. Working(t, v)
  BY <1>1 DEF Mine, Working, Transfer, Programming
<1>4. Buffers(t, v, s)
  BY <1>1 DEF Mine, Buffers, Programming, Part
<1>5. Copies(t, s) /\ Writes(t, v, s, ref) /\ Denied(t, v, ref)
  BY <1>1 DEF Mine, Copies, Writes, Denied, Through, Programming
<1>6. Mine(t, v, r2, s, ref)
  BY <1>2, <1>3, <1>4, <1>5 DEF Mine
<1> QED
  BY <1>6 DEF t

LEMMA RegisterInv ==
  ASSUME DriveInv, TypeInv', NEW p \in Proc, Select(p) \/ SetLba0(p) \/ SetLba1(p)
  PROVE  DriveInv'
<1> DEFINE u == th[p]
           d == u.req.disk
           c == Chan(p)
<1>1. InRequest(p) /\ u.pc \in Programming /\ UNCHANGED <<disk, dev, refused, errors, Others>>
  BY DEF Select, SetLba0, SetLba1, InRequest, Programming
<1>2. u \in Threads /\ Course(u) /\ c \in Channel
  BY <1>1, OwnDisk
<1>3. reg \in [Channel -> [disk : Disk, lba0 : Digit, lba1 : Digit]]
  BY DEF DriveInv, TypeInv, TypeOK
<1>4. PICK place \in Programming :
        /\ th' = [th EXCEPT ![p] = [u EXCEPT !.pc = place]]
        /\ \A x \in Channel : x # c => reg'[x] = reg[x]
        /\ c \notin overlap => Registers([u EXCEPT !.pc = place], reg'[c])
  <2>1. c \notin overlap => Registers(u, reg[c])
    BY <1>1, OwnDisk DEF Mine
  <2> HIDE DEF c, u
  <2>2. CASE Select(p)
    <3> DEFINE t == [u EXCEPT !.pc = "lba0"]
    <3>1. u.pc = "select" /\ reg' = [reg EXCEPT ![c].disk = u.req.disk] /\ th' = [th EXCEPT ![p] = t]
      BY <2>2 DEF Select, Goto, c, u
    <3>2. t.pc = "lba0" /\ t.req = u.req /\ reg'[c].disk = u.req.disk
          /\ \A x \in Channel : x # c => reg'[x] = reg[x]
      BY <1>2, <1>3, <3>1 DEF Threads, u
    <3>3. Registers(t, reg'[c])
      BY <3>2 DEF Registers, Transfer
    <3> QED
      BY <3>1, <3>2, <3>3 DEF Programming
  <2>3. CASE SetLba0(p)
    <3> DEFINE t == [u EXCEPT !.pc = "lba1"]
    <3>1. u.pc = "lba0" /\ reg' = [reg EXCEPT ![c].lba0 = u.lba % Base] /\ th' = [th EXCEPT ![p] = t]
      BY <2>3 DEF SetLba0, Goto, c, u
    <3>2. t.pc = "lba1" /\ t.req = u.req /\ t.lba = u.lba /\ reg'[c].disk = reg[c].disk
          /\ reg'[c].lba0 = u.lba % Base /\ \A x \in Channel : x # c => reg'[x] = reg[x]
      BY <1>2, <1>3, <3>1 DEF Threads, u
    <3>3. c \notin overlap => Registers(t, reg'[c])
      BY <2>1, <3>1, <3>2 DEF Registers, Transfer
    <3> QED
      BY <3>1, <3>2, <3>3 DEF Programming
  <2>4. CASE SetLba1(p)
    <3> DEFINE t == [u EXCEPT !.pc = "command"]
    <3>1. u.pc = "lba1" /\ reg' = [reg EXCEPT ![c].lba1 = u.lba \div Base] /\ th' = [th EXCEPT ![p] = t]
      BY <2>4 DEF SetLba1, Goto, c, u
    <3>2. t.pc = "command" /\ t.req = u.req /\ t.lba = u.lba /\ reg'[c].disk = reg[c].disk
          /\ reg'[c].lba0 = reg[c].lba0 /\ reg'[c].lba1 = u.lba \div Base
          /\ \A x \in Channel : x # c => reg'[x] = reg[x]
      BY <1>2, <1>3, <3>1 DEF Threads, u
    <3>3. c \notin overlap => Registers(t, reg'[c])
      BY <2>1, <3>1, <3>2 DEF Registers, Transfer
    <3> QED
      BY <3>1, <3>2, <3>3 DEF Programming
  <2> QED
    BY <2>2, <2>3, <2>4
<1> DEFINE t == [u EXCEPT !.pc = place]
<1>5. t \in Threads /\ t.req = u.req /\ t.pc # "idle" /\ Course(t)
  BY <1>2, CourseAt DEF Threads, Programming, Places
<1>6. c \notin overlap => Mine(t, dev[d], reg'[c], disk[d], refused)
  BY <1>1, <1>2, <1>4, OwnDisk, RegisterMine
<1>7. ErrorsEnd' /\ dev' = dev /\ UNCHANGED <<disk, covered, overlap, refused>>
  BY <1>1 DEF DriveInv, ErrorsEnd, Others
<1> QED
  BY <1>1, <1>4, <1>5, <1>6, <1>7, ProcessStep

LEMMA CommandInv ==
  ASSUME DriveInv, TypeInv', NEW p \in Proc, Command(p)
  PROVE  DriveInv'
<1> DEFINE u == th[p]
           d == u.req.disk
           c == Chan(p)
           e == Selected(p)
           l == reg[c].lba1 * Base + reg[c].lba0
           v == [st |-> "busy", cmd |-> u.dir, lba |-> l, n |-> 0, buf |-> JunkBuffer, err |-> FALSE]
           t == [u EXCEPT !.pc = "poll", !.i = 0]
<1>1. InRequest(p) /\ u.pc = "command" /\ UNCHANGED <<disk, reg, refused, errors, Others>>
  BY DEF Command, InRequest
<1>2. /\ u \in Threads /\ Course(u) /\ c \in Channel /\ d \in Disk /\ ChannelOf[d] = c
      /\ u.dir \in {"read", "write"} /\ u.lba \in Lba
  BY <1>1, OwnDisk DEF Threads
<1>3. /\ e \in Disk /\ ChannelOf[e] = c
      /\ dev \in [Disk -> Devices]
  BY <1>1, ThreadFields DEF DriveInv, TypeInv, TypeOK
<1>4. /\ th' = [th EXCEPT ![p] = t]
      /\ dev' = [dev EXCEPT ![e] = v] \/ (dev[e].st # "ready" /\ dev' = dev)
  BY DEF Command
<1>5. t \in Threads /\ t.req = u.req /\ t.pc = "poll" /\ t.dir = u.dir /\ t.lba = u.lba
      /\ t.i = 0 /\ t.buf = u.buf /\ t.got = u.got /\ t.val = u.val /\ t.stat = u.stat
  <2>1. 0 \in 0..SectorSize
    BY SizesPositive, SMT
  <2> QED
    BY <1>2, <2>1 DEF Threads, Places
<1>6. v.st = "busy" /\ v.cmd = u.dir /\ v.lba = l /\ v.err = FALSE
  OBVIOUS
<1> HIDE DEF v, t, l
<1>7. Course(t)
  BY <1>1, <1>2, <1>5 DEF Course
<1>8. ErrorsEnd'
  BY <1>3, <1>4, <1>6 DEF DriveInv, ErrorsEnd
<1>9. \A x \in Disk : ChannelOf[x] # c => dev'[x] = dev[x]
  BY <1>3, <1>4
<1>10. ASSUME c \notin overlap
       PROVE  /\ \A x \in Disk : x # d => dev'[x] = dev[x]
              /\ Mine(t, dev'[d], reg[c], disk[d], refused)
  <2>1. e = d /\ Mine(u, dev[d], reg[c], disk[d], refused)
    BY <1>1, <1>10, OwnDisk
  <2>2. dev[d].st = "ready"
    BY <1>1, <2>1 DEF Mine, Working, Transfer
  <2>3. dev' = [dev EXCEPT ![d] = v]
    BY <1>4, <2>1, <2>2
  <2>4. dev'[d] = v /\ \A x \in Disk : x # d => dev'[x] = dev[x]
    BY <1>2, <1>3, <2>3
  <2>5. l = u.lba
    <3>1. reg[c].lba0 = u.lba % Base /\ reg[c].lba1 = u.lba \div Base
      BY <1>1, <2>1 DEF Mine, Registers
    <3> QED
      BY <1>2, <3>1, Digits DEF l
  <2> DEFINE w == dev[d]
             r == reg[c]
             s == disk[d]
  <2>6. Mine(u, w, r, s, refused)
    BY <2>1
  <2> HIDE DEF w, r, s, u
  <2>7. Registers(t, r) /\ Working(t, v)
    BY <1>1, <1>5, <1>6, <2>5, <2>6 DEF Mine, Registers, Working, Transfer
  <2>8. Buffers(t, v, s)
    BY <1>1, <1>5, <1>6, <2>6 DEF Mine, Buffers, Part
  <2>9. Copies(t, s) /\ Writes(t, v, s, refused) /\ Denied(t, v, refused)
    BY <1>1, <1>5, <1>6, <2>6 DEF Mine, Copies, Writes, Denied, Through
  <2>10. Mine(t, v, r, s, refused)
    BY <2>7, <2>8, <2>9 DEF Mine
  <2> QED
    BY <2>4, <2>10 DEF r, s
<1>11. UNCHANGED <<disk, covered, overlap, refused>> /\ reg' = reg
  BY <1>1 DEF Others
<1> QED
  BY <1>1, <1>4, <1>5, <1>7, <1>8, <1>9, <1>10, <1>11, ProcessStep

\* The places in a buffer before the next one are one more, or all of them.
LEMMA OneMore ==
  ASSUME NEW i \in Offset
  PROVE  /\ \A k \in Offset : k < i + 1 => k < i \/ k = i
         /\ i + 1 = SectorSize => \A k \in Offset : k < i + 1
         /\ \A k \in Offset : k < i => k # i
BY SizesPositive, SMT DEF Offset

LEMMA DataInMine ==
  ASSUME NEW u \in Threads, InLoop(u), NEW v \in Devices, NEW r, NEW s, NEW ref,
         Mine(u, v, r, s, ref), u.pc = "data", u.dir = "read"
  PROVE  /\ v.st = "data" /\ v.cmd = "read"
         /\ Mine([Moved(u, "sector") EXCEPT !.buf[u.i] = v.buf[v.n]], Given(v), r, s, ref)
<1> DEFINE t == [Moved(u, "sector") EXCEPT !.buf[u.i] = v.buf[v.n]]
           w == Given(v)
           more(k) == t.buf[k] = s[At(u.lba, k)]
<1>1. v.st = "data" /\ v.cmd = "read" /\ v.n = u.i
  BY DEF Mine, Working, Transfer
<1>2. u.i \in Offset /\ u.i + 1 \in Nat /\ u.buf \in [Offset -> Value]
  BY SizesPositive, SMT DEF Threads, InLoop, Offset
<1>3. /\ t.req = u.req /\ t.dir = "read" /\ t.lba = u.lba /\ t.i = u.i + 1
      /\ t.got = u.got /\ t.val = u.val /\ t.stat = u.stat
      /\ t.pc = IF u.i + 1 = SectorSize THEN "sector" ELSE "data"
      /\ t.buf = [u.buf EXCEPT ![u.i] = v.buf[v.n]]
  BY DEF Moved, Threads
<1>4. /\ w.buf = v.buf /\ w.cmd = v.cmd /\ w.lba = v.lba
      /\ u.i + 1 = SectorSize => w.st = "ready"
      /\ u.i + 1 # SectorSize => w.st = "data" /\ w.n = u.i + 1
  <2>1. v.n = SectorSize - 1 <=> u.i + 1 = SectorSize
    BY <1>1, <1>2, SizesPositive, SMT DEF Offset
  <2> QED
    BY <1>1, <2>1 DEF Given, Devices
<1>5. \A k \in Offset : v.buf[k] = s[At(u.lba, k)]
  BY <1>1 DEF Mine, Buffers
<1>6. /\ \A k \in Offset : k < u.i => more(k)
      /\ more(u.i)
  BY <1>1, <1>2, <1>3, <1>5, OneMore DEF Mine, Buffers
<1>7. /\ \A k \in Offset : k < u.i + 1 => more(k)
      /\ u.i + 1 = SectorSize => \A k \in Offset : more(k)
  BY <1>2, <1>6, OneMore
<1> HIDE DEF t, w
<1>8. Registers(t, r) /\ Working(t, w)
  BY <1>1, <1>3, <1>4 DEF Mine, Registers, Working, Transfer
<1>9. Buffers(t, w, s)
  BY <1>3, <1>4, <1>5, <1>7 DEF Buffers
<1>10. Copies(t, s) /\ Writes(t, w, s, ref) /\ Denied(t, w, ref)
  BY <1>3 DEF Mine, Copies, Writes, Denied
<1>11. Mine(t, w, r, s, ref)
  BY <1>8, <1>9, <1>10 DEF Mine
<1> QED
  BY <1>1, <1>11 DEF t, w

\* Moving a unit does not change what a disk says of errors.
LEMMA UnitErrors ==
  ASSUME DriveInv, NEW e \in Disk, NEW u,
         \/ dev' = dev
         \/ dev[e].st = "data" /\ dev' = [dev EXCEPT ![e] = Given(dev[e])]
         \/ dev[e].st = "data" /\ dev' = [dev EXCEPT ![e] = Taken(dev[e], u)]
  PROVE  ErrorsEnd' /\ \A x \in Disk : x # e => dev'[x] = dev[x]
<1>1. dev \in [Disk -> Devices] /\ ErrorsEnd
  BY DEF DriveInv, TypeInv, TypeOK
<1>2. Given(dev[e]).err = dev[e].err /\ Taken(dev[e], u).err = dev[e].err
  BY <1>1 DEF Given, Taken, Devices
<1>3. /\ \A x \in Disk : x # e => dev'[x] = dev[x]
      /\ dev'[e].err = dev[e].err /\ (dev[e].st = "ready" => dev'[e].st = "ready")
  BY <1>1, <1>2
<1> QED
  BY <1>1, <1>3 DEF ErrorsEnd

LEMMA DataInInv ==
  ASSUME DriveInv, TypeInv', NEW p \in Proc, DataIn(p)
  PROVE  DriveInv'
<1> DEFINE u == th[p]
           d == u.req.disk
           c == Chan(p)
           e == Selected(p)
           t(x) == [Moved(u, "sector") EXCEPT !.buf[u.i] = x]
<1>1. InRequest(p) /\ u.pc = "data" /\ u.dir = "read" /\ UNCHANGED <<disk, reg, refused, errors, Others>>
  BY DEF DataIn, InRequest
<1>2. /\ u \in Threads /\ InLoop(u) /\ Course(u) /\ c \in Channel /\ d \in Disk /\ ChannelOf[d] = c
      /\ dev[d] \in Devices /\ dev \in [Disk -> Devices]
  BY <1>1, OwnDisk DEF DriveInv, TypeInv, TypeOK
<1>3. e \in Disk /\ ChannelOf[e] = c /\ dev[e] \in Devices
  BY ThreadFields DEF DriveInv
<1>4. \/ /\ Moves(e, "read")
         /\ th' = [th EXCEPT ![p] = t(dev[e].buf[dev[e].n])]
         /\ dev' = [dev EXCEPT ![e] = Given(dev[e])]
      \/ ~Moves(e, "read") /\ th' = [th EXCEPT ![p] = t(Junk)] /\ dev' = dev
  BY DEF DataIn
<1>5. ErrorsEnd' /\ \A x \in Disk : x # e => dev'[x] = dev[x]
  BY <1>3, <1>4, UnitErrors DEF Moves
<1>6. PICK x \in Value : th' = [th EXCEPT ![p] = t(x)] /\ (Moves(e, "read") => x = dev[e].buf[dev[e].n])
  BY <1>3, <1>4 DEF Devices, Value
<1>7. Moved(u, "sector") \in Threads /\ u.i \in Offset
  BY <1>1, MovedTypes DEF DriveInv
<1>8. t(x) \in Threads /\ t(x).req = u.req /\ t(x).pc \in {"data", "sector"}
      /\ t(x).dir = u.dir /\ t(x).lba = u.lba
  BY <1>2, <1>7 DEF Threads, Moved
<1>9. Course(t(x))
  BY <1>2, <1>8 DEF Course
<1>10. ASSUME c \notin overlap
       PROVE  /\ \A y \in Disk : y # d => dev'[y] = dev[y]
              /\ Mine(t(x), dev'[d], reg[c], disk[d], refused)
  <2>1. e = d /\ Mine(u, dev[d], reg[c], disk[d], refused)
    BY <1>1, <1>10, OwnDisk DEF Transfer
  <2>2. /\ dev[d].st = "data" /\ dev[d].cmd = "read"
        /\ Mine(t(dev[d].buf[dev[d].n]), Given(dev[d]), reg[c], disk[d], refused)
    BY <1>1, <1>2, <2>1, DataInMine
  <2>3. Moves(e, "read")
    BY <2>1, <2>2 DEF Moves
  <2>4. x = dev[d].buf[dev[d].n] /\ dev' = [dev EXCEPT ![d] = Given(dev[d])]
    BY <1>4, <1>6, <2>1, <2>3
  <2> QED
    BY <1>2, <1>5, <2>1, <2>2, <2>4
<1>11. UNCHANGED <<disk, covered, overlap, refused>> /\ reg' = reg
  BY <1>1 DEF Others
<1>12. t(x).pc # "idle" /\ \A y \in Disk : ChannelOf[y] # c => dev'[y] = dev[y]
  BY <1>3, <1>5, <1>8
<1> HIDE DEF t
<1> QED
  BY <1>1, <1>5, <1>6, <1>8, <1>9, <1>10, <1>11, <1>12, ProcessStep

LEMMA DataOutMine ==
  ASSUME NEW u \in Threads, InLoop(u), NEW v \in Devices, NEW r, NEW s, NEW ref,
         Mine(u, v, r, s, ref), u.pc = "data", u.dir = "write"
  PROVE  LET t == Moved(u, "flush") IN
         /\ v.st = "data" => v.cmd = "write" /\ Mine(t, Taken(v, u.buf[u.i]), r, s, ref)
         /\ v.st # "data" => Mine(t, v, r, s, ref)
<1> DEFINE t == Moved(u, "flush")
           w == IF v.st = "data" THEN Taken(v, u.buf[u.i]) ELSE v
<1>1. u.i \in Offset /\ u.i + 1 \in Nat /\ u.buf \in [Offset -> Value] /\ u.i + 1 # 0
  BY SizesPositive, SMT DEF Threads, InLoop, Offset
<1>2. /\ t.req = u.req /\ t.dir = "write" /\ t.lba = u.lba /\ t.i = u.i + 1 /\ t.buf = u.buf
      /\ t.got = u.got /\ t.val = u.val /\ t.stat = u.stat
      /\ t.pc = IF u.i + 1 = SectorSize THEN "flush" ELSE "data"
  BY DEF Moved, Threads
<1>3. /\ v.st = "data" \/ v.st = "ready"
      /\ v.cmd = "write" /\ v.lba = u.lba
      /\ v.st = "data" => v.n = u.i
  BY DEF Mine, Working, Transfer
<1>4. CASE v.st = "data"
  <2>1. /\ w.buf = [v.buf EXCEPT ![u.i] = u.buf[u.i]] /\ w.cmd = v.cmd /\ w.lba = v.lba
        /\ u.i + 1 = SectorSize => w.st = "store"
        /\ u.i + 1 # SectorSize => w.st = "data" /\ w.n = u.i + 1
    <3>1. v.n = SectorSize - 1 <=> u.i + 1 = SectorSize
      BY <1>1, <1>3, <1>4, SizesPositive, SMT DEF Offset
    <3> QED
      BY <1>3, <1>4, <3>1 DEF Taken, Devices
  <2>2. \A k \in Offset : k < u.i => w.buf[k] = u.buf[k]
    BY <1>1, <1>3, <1>4, <2>1, OneMore DEF Mine, Buffers, Devices
  <2>3. w.buf[u.i] = u.buf[u.i]
    BY <1>1, <2>1 DEF Devices
  <2>4. /\ \A k \in Offset : k < u.i + 1 => w.buf[k] = u.buf[k]
        /\ u.i + 1 = SectorSize => \A k \in Offset : w.buf[k] = u.buf[k]
    BY <1>1, <2>2, <2>3, OneMore
  <2> HIDE DEF t, w
  <2>5. Registers(t, r) /\ Working(t, w)
    BY <1>2, <1>3, <2>1 DEF Mine, Registers, Working, Transfer
  <2>6. Buffers(t, w, s)
    BY <1>2, <2>1, <2>4 DEF Mine, Buffers, Part
  <2>7. Copies(t, s) /\ Denied(t, w, ref)
    BY <1>2, <2>1 DEF Mine, Copies, Denied
  <2>8. Writes(t, w, s, ref)
    <3>1. ~Through(t, w)
      BY <1>2, <2>1 DEF Through
    <3> QED
      BY <1>2, <3>1 DEF Mine, Writes
  <2>9. Mine(t, w, r, s, ref)
    BY <2>5, <2>6, <2>7, <2>8 DEF Mine
  <2> QED
    BY <1>3, <1>4, <2>9 DEF t, w
<1>5. CASE v.st = "ready"
  <2> HIDE DEF t
  <2>1. <<u.req.disk, u.lba>> \in ref
    BY <1>5 DEF Mine, Denied
  <2>2. Registers(t, r) /\ Working(t, v)
    BY <1>2, <1>3, <1>5 DEF Mine, Registers, Working, Transfer
  <2>3. Buffers(t, v, s)
    BY <1>2, <1>5 DEF Mine, Buffers, Part
  <2>4. Copies(t, s) /\ Denied(t, v, ref)
    BY <1>2, <2>1 DEF Mine, Copies, Denied
  <2>5. Writes(t, v, s, ref)
    BY <1>2, <2>1 DEF Mine, Writes
  <2>6. Mine(t, v, r, s, ref)
    BY <2>2, <2>3, <2>4, <2>5 DEF Mine
  <2> QED
    BY <1>5, <2>6 DEF t
<1> QED
  BY <1>3, <1>4, <1>5

LEMMA DataOutInv ==
  ASSUME DriveInv, TypeInv', NEW p \in Proc, DataOut(p)
  PROVE  DriveInv'
<1> DEFINE u == th[p]
           d == u.req.disk
           c == Chan(p)
           e == Selected(p)
           t == Moved(u, "flush")
<1>1. InRequest(p) /\ u.pc = "data" /\ u.dir = "write" /\ UNCHANGED <<disk, reg, refused, errors, Others>>
  BY DEF DataOut, InRequest
<1>2. /\ u \in Threads /\ InLoop(u) /\ Course(u) /\ c \in Channel /\ d \in Disk /\ ChannelOf[d] = c
      /\ dev[d] \in Devices /\ dev \in [Disk -> Devices]
  BY <1>1, OwnDisk DEF DriveInv, TypeInv, TypeOK
<1>3. e \in Disk /\ ChannelOf[e] = c
  BY ThreadFields DEF DriveInv
<1>4. /\ th' = [th EXCEPT ![p] = t]
      /\ \/ Moves(e, "write") /\ dev' = [dev EXCEPT ![e] = Taken(dev[e], u.buf[u.i])]
         \/ ~Moves(e, "write") /\ dev' = dev
  BY DEF DataOut
<1>5. ErrorsEnd' /\ \A x \in Disk : x # e => dev'[x] = dev[x]
  BY <1>3, <1>4, UnitErrors DEF Moves
<1>6. t \in Threads /\ t.req = u.req /\ t.pc \in {"data", "flush"} /\ t.dir = u.dir /\ t.lba = u.lba
  BY <1>1, <1>2, MovedTypes DEF DriveInv, Threads, Moved
<1>7. Course(t)
  BY <1>1, <1>2, <1>6 DEF Course
<1>8. ASSUME c \notin overlap
      PROVE  /\ \A y \in Disk : y # d => dev'[y] = dev[y]
             /\ Mine(t, dev'[d], reg[c], disk[d], refused)
  <2>1. e = d /\ Mine(u, dev[d], reg[c], disk[d], refused)
    BY <1>1, <1>8, OwnDisk DEF Transfer
  <2>2. /\ dev[d].st = "data" =>
             dev[d].cmd = "write" /\ Mine(t, Taken(dev[d], u.buf[u.i]), reg[c], disk[d], refused)
        /\ dev[d].st # "data" => Mine(t, dev[d], reg[c], disk[d], refused)
    BY <1>1, <1>2, <2>1, DataOutMine
  <2> HIDE DEF t
  <2>3. CASE dev[d].st = "data"
    <3>1. dev' = [dev EXCEPT ![d] = Taken(dev[d], u.buf[u.i])]
      BY <1>4, <2>1, <2>2, <2>3 DEF Moves
    <3> QED
      BY <1>2, <2>2, <2>3, <3>1
  <2>4. CASE dev[d].st # "data"
    <3>1. dev' = dev
      BY <1>4, <2>1, <2>4 DEF Moves
    <3> QED
      BY <2>2, <2>4, <3>1
  <2> QED
    BY <2>3, <2>4
<1>9. UNCHANGED <<disk, covered, overlap, refused>> /\ reg' = reg
  BY <1>1 DEF Others
<1>10. t.pc # "idle" /\ \A y \in Disk : ChannelOf[y] # c => dev'[y] = dev[y]
  BY <1>3, <1>5, <1>6
<1> HIDE DEF t
<1> QED
  BY <1>1, <1>4, <1>5, <1>6, <1>7, <1>8, <1>9, <1>10, ProcessStep

\* The sectors of a request's addresses, before and behind the one in hand.
LEMMA RequestSectors ==
  ASSUME NEW u \in Threads, u.req \in Requests
  PROVE  \A a \in u.req.from..u.req.to :
           /\ a \in Address /\ SectorOf(a) \in Int /\ u.lba \in Int
           /\ SectorOf(u.req.from) <= SectorOf(a)
           /\ SectorOf(a) < u.lba + 1 => SectorOf(a) < u.lba \/ SectorOf(a) = u.lba
           /\ Last(u) => SectorOf(a) < u.lba \/ SectorOf(a) = u.lba
           /\ SectorOf(a) = u.lba =>
                a \in Part(u) /\ a % SectorSize \in Offset /\ a = At(u.lba, a % SectorSize)
<1> SUFFICES ASSUME NEW a \in u.req.from..u.req.to
             PROVE  /\ a \in Address /\ SectorOf(a) \in Int /\ u.lba \in Int
                    /\ SectorOf(u.req.from) <= SectorOf(a)
                    /\ SectorOf(a) < u.lba + 1 => SectorOf(a) < u.lba \/ SectorOf(a) = u.lba
                    /\ Last(u) => SectorOf(a) < u.lba \/ SectorOf(a) = u.lba
                    /\ SectorOf(a) = u.lba =>
                         a \in Part(u) /\ a % SectorSize \in Offset /\ a = At(u.lba, a % SectorSize)
  OBVIOUS
<1>1. a \in Address /\ u.req.from \in Address /\ u.req.to \in Address /\ u.lba \in Lba
  BY RangeTypes, RequestTypes DEF Threads
<1>2. u.req.from \in Int /\ u.req.to \in Int
  BY <1>1, SizesPositive, SMT DEF Address
<1>3. SectorOf(a) \in Lba /\ a % SectorSize \in Offset /\ a = At(SectorOf(a), a % SectorSize)
  BY <1>1, SectorAndOffset
<1>4. SectorOf(a) \in Int /\ u.lba \in Int
  BY <1>1, <1>3, SMT DEF Lba
<1>5. u.req.from <= a /\ a <= u.req.to
  BY <1>2, SMT
<1>6. SectorOf(u.req.from) <= SectorOf(a) /\ SectorOf(a) <= SectorOf(u.req.to)
  BY <1>1, <1>5, SectorsInOrder
<1>7. Last(u) => SectorOf(u.req.to) <= u.lba
  BY <1>1, Behind DEF Last
<1>8. SectorOf(u.req.to) \in Int
  <2>1. SectorOf(u.req.to) \in Lba
    BY <1>1, SectorAndOffset
  <2> QED
    BY <2>1, SizesPositive, SMT DEF Lba
<1>9. SectorOf(a) < u.lba + 1 => SectorOf(a) < u.lba \/ SectorOf(a) = u.lba
  BY <1>4, SMT
<1>10. SectorOf(a) <= u.lba => SectorOf(a) < u.lba \/ SectorOf(a) = u.lba
  BY <1>4, SMT
<1>11. Last(u) => SectorOf(a) <= u.lba
  BY <1>4, <1>6, <1>7, <1>8, SMT
<1> QED
  BY <1>1, <1>3, <1>4, <1>6, <1>9, <1>10, <1>11 DEF Part

\* drive_write is for one sector, all of it.
LEMMA WholeSector ==
  ASSUME NEW r \in Requests, r.op = "overwrite"
  PROVE  /\ SectorOf(r.to) = SectorOf(r.from)
         /\ \A k \in Offset : At(SectorOf(r.from), k) \in r.from..r.to
<1> DEFINE l == SectorOf(r.from)
<1>1. /\ r.from \in Address /\ l \in Lba /\ r.from % SectorSize = 0
      /\ r.to = r.from + SectorSize - 1
  BY RequestTypes, RequestsFit
<1>2. r.from = At(l, 0) /\ l \in Nat /\ SectorSize \in Nat \ {0} /\ r.from \in Int
  BY <1>1, SectorAndOffset, SizesPositive, SMT DEF Lba, Address
<1>3. SectorSize - 1 \in Offset /\ \A k \in Offset : k \in Int /\ 0 <= k /\ k <= SectorSize - 1
  BY <1>2, SMT DEF Offset
<1> HIDE DEF l
<1>4. \A k \in Offset : At(l, k) = r.from + k
  BY <1>2, <1>3, SMT DEF At
<1>5. r.to = At(l, SectorSize - 1)
  BY <1>1, <1>2, <1>3, <1>4, SMT
<1>6. SectorOf(r.to) = l
  BY <1>1, <1>3, <1>5, AddressOf DEF l
<1>7. \A k \in Offset : At(l, k) \in r.from..r.to
  BY <1>1, <1>2, <1>3, <1>4, SMT
<1> QED
  BY <1>6, <1>7 DEF l

LEMMA LastDone ==
  ASSUME NEW u \in Threads, NEW v, NEW r, NEW s, NEW ref,
         Course(u), Mine(u, v, r, s, ref), u.pc = "sector", u.dir = "write"
  PROVE  Mine([u EXCEPT !.pc = "done"], v, r, s, ref)
<1> DEFINE t == [u EXCEPT !.pc = "done"]
<1>1. t.pc = "done" /\ t.req = u.req /\ t.dir = "write" /\ t.lba = u.lba /\ t.i = u.i
      /\ t.buf = u.buf /\ t.got = u.got /\ t.val = u.val /\ t.stat = u.stat
  BY DEF Threads
<1>2. u.req.op # "read" /\ v.st = "ready"
  BY DEF Course, Mine, Working, Transfer
<1> HIDE DEF t
<1>3. Registers(t, r) /\ Working(t, v)
  BY <1>1, <1>2 DEF Registers, Working, Transfer
<1>4. Buffers(t, v, s)
  BY <1>1, <1>2 DEF Mine, Buffers, Part
<1>5. Copies(t, s) /\ Denied(t, v, ref)
  BY <1>1, <1>2 DEF Copies, Denied
<1>6. Writes(t, v, s, ref)
  BY <1>1 DEF Mine, Writes, Through
<1>7. Mine(t, v, r, s, ref)
  BY <1>3, <1>4, <1>5, <1>6 DEF Mine
<1> QED
  BY <1>7 DEF t

LEMMA NextWritten ==
  ASSUME NEW u \in Threads, u.req \in Requests, NEW v, NEW r, NEW s, NEW ref,
         Course(u), Mine(u, v, r, s, ref), u.pc = "sector", u.dir = "write", ~Last(u)
  PROVE  Mine([u EXCEPT !.pc = "wait", !.lba = u.lba + 1, !.dir = FirstDir(u.req.op)], v, r, s, ref)
<1> DEFINE t == [u EXCEPT !.pc = "wait", !.lba = u.lba + 1, !.dir = FirstDir(u.req.op)]
<1>1. v.st = "ready" /\ u.req.op # "read" /\ u.lba \in Lba /\ u.lba \in Int
  BY SMT DEF Course, Mine, Working, Transfer, Threads, Lba
<1>2. u.req.to \in Address /\ u.req.op \in {"read", "write", "overwrite"}
      /\ SectorOf(u.req.to) \in Int
  BY RequestTypes, SMT DEF Lba
<1>3. u.lba + 1 <= SectorOf(u.req.to)
  BY <1>1, <1>2, Behind DEF Last
<1>4. u.req.op = "write"
  <2>1. u.req.op = "overwrite" => SectorOf(u.req.to) <= u.lba
    BY WholeSector DEF Course
  <2> QED
    BY <1>1, <1>2, <1>3, <2>1, SMT
<1>5. t.pc = "wait" /\ t.req = u.req /\ t.dir = "read" /\ t.lba = u.lba + 1 /\ t.val = u.val
  BY <1>4 DEF Threads, FirstDir
<1> HIDE DEF t
<1>6. Registers(t, r) /\ Working(t, v)
  BY <1>1, <1>5 DEF Registers, Working, Transfer
<1>7. Buffers(t, v, s) /\ Copies(t, s) /\ Denied(t, v, ref)
  BY <1>1, <1>5 DEF Buffers, Copies, Denied
<1>8. Writes(t, v, s, ref)
  BY <1>1, <1>5, RequestSectors DEF Mine, Writes, Through
<1>9. Mine(t, v, r, s, ref)
  BY <1>6, <1>7, <1>8 DEF Mine
<1> QED
  BY <1>9 DEF t

LEMMA CopiedMine ==
  ASSUME NEW u \in Threads, u.req \in Requests, NEW v, NEW r, NEW s, NEW ref,
         Mine(u, v, r, s, ref), u.pc = "sector", u.dir = "read", u.req.op = "read"
  PROVE  Mine(Next1(Copied(u)), v, r, s, ref)
<1> DEFINE c == Copied(u)
           t == Next1(c)
           into(a) == u.req.from <= a /\ a <= u.req.to
<1>1. v.st = "ready"
  BY DEF Mine, Working, Transfer
<1>2. /\ c.req = u.req /\ c.lba = u.lba /\ (Last(c) <=> Last(u))
      /\ c.got = [a \in Address |-> IF a \in Part(u) THEN u.buf[a % SectorSize] ELSE u.got[a]]
  BY DEF Copied, Last, Threads
<1>3. /\ t.pc = IF Last(u) THEN "done" ELSE "wait"
      /\ t.req = u.req /\ t.got = c.got
      /\ t.lba = u.lba \/ t.lba = u.lba + 1
      /\ Last(u) => t.lba = u.lba
      /\ t.dir = "read"
  BY <1>2 DEF Next1, FirstDir, Copied, Threads
<1> HIDE DEF t, c
<1>4. \A a \in u.req.from..u.req.to : SectorOf(a) = u.lba => t.got[a] = s[a]
  BY <1>2, <1>3, RequestSectors DEF Mine, Buffers
<1>5. \A a \in u.req.from..u.req.to : SectorOf(a) < u.lba => t.got[a] = s[a]
  <2> SUFFICES ASSUME NEW a \in u.req.from..u.req.to, SectorOf(a) < u.lba
               PROVE  t.got[a] = s[a]
    OBVIOUS
  <2>1. a \in Address /\ SectorOf(a) \in Int /\ u.lba \in Int
    BY RequestSectors
  <2>2. SectorOf(a) # u.lba
    BY <2>1, SMT
  <2>3. a \notin Part(u)
    BY <2>2 DEF Part
  <2> QED
    BY <1>2, <1>3, <2>1, <2>3 DEF Mine, Copies
<1>6. Registers(t, r) /\ Working(t, v)
  BY <1>1, <1>3 DEF Registers, Working, Transfer
<1>7. Buffers(t, v, s) /\ Writes(t, v, s, ref) /\ Denied(t, v, ref)
  BY <1>1, <1>3 DEF Buffers, Writes, Denied
<1>8. Copies(t, s)
  BY <1>3, <1>4, <1>5, RequestSectors DEF Copies
<1>9. Mine(t, v, r, s, ref)
  BY <1>6, <1>7, <1>8 DEF Mine
<1> QED
  BY <1>9 DEF t, c

LEMMA MergedMine ==
  ASSUME NEW u \in Threads, NEW v, NEW r, NEW s, NEW ref,
         Mine(u, v, r, s, ref), u.pc = "sector", u.dir = "read", u.req.op # "read"
  PROVE  Mine(Merged(u), v, r, s, ref)
<1> DEFINE t == Merged(u)
<1>1. v.st = "ready"
  BY DEF Mine, Working, Transfer
<1>2. /\ t.pc = "wait" /\ t.req = u.req /\ t.lba = u.lba /\ t.dir = "write" /\ t.val = u.val
      /\ \A k \in Offset : t.buf[k] = IF At(u.lba, k) \in Part(u) THEN u.val ELSE u.buf[k]
  BY DEF Merged, Threads
<1> HIDE DEF t
<1>3. Part(t) = Part(u)
  BY <1>2 DEF Part
<1>4. Registers(t, r) /\ Working(t, v)
  BY <1>1, <1>2 DEF Registers, Working, Transfer
<1>5. Buffers(t, v, s)
  BY <1>1, <1>2, <1>3 DEF Mine, Buffers
<1>6. Copies(t, s) /\ Writes(t, v, s, ref) /\ Denied(t, v, ref)
  BY <1>1, <1>2 DEF Mine, Copies, Writes, Denied, Through
<1>7. Mine(t, v, r, s, ref)
  BY <1>4, <1>5, <1>6 DEF Mine
<1> QED
  BY <1>7 DEF t

\* What drive.c does after a sector.
After(u) ==
  IF u.dir = "write" THEN Next1(u)
  ELSE IF u.req.op = "read" THEN Next1(Copied(u)) ELSE Merged(u)

LEMMA AfterCourse ==
  ASSUME NEW u \in Threads, u.req \in Requests, Course(u), u.pc = "sector"
  PROVE  /\ After(u).req = u.req /\ After(u).pc \in {"done", "wait"} /\ Course(After(u))
<1>1. /\ Copied(u).req = u.req /\ Copied(u).lba = u.lba /\ Copied(u).dir = u.dir
      /\ Copied(u).pc = u.pc /\ Copied(u).stat = u.stat
      /\ u.dir \in {"read", "write"}
  BY DEF Copied, Threads
<1>2. /\ u.lba \in Lba /\ u.req.to \in Address /\ u.lba \in Int
      /\ SectorOf(u.req.from) \in Int /\ SectorOf(u.req.to) \in Int
      /\ u.req.op \in {"read", "write", "overwrite"}
  BY RequestTypes, SMT DEF Threads, Lba
<1>3. SectorOf(u.req.from) <= u.lba /\ SectorOf(u.req.from) <= u.lba + 1
  BY <1>2, SMT DEF Course
<1>4. ~Last(u) => u.lba + 1 <= SectorOf(u.req.to)
  BY <1>2, Behind DEF Last
<1>5. ASSUME NEW x, x = u \/ x = Copied(u), u.dir = "write" \/ u.req.op = "read"
      PROVE  Next1(x).req = u.req /\ Next1(x).pc \in {"done", "wait"} /\ Course(Next1(x))
  <2>1. /\ x.req = u.req /\ x.lba = u.lba /\ x.dir = u.dir /\ x.stat = u.stat
        /\ Last(x) <=> Last(u)
    BY <1>1, <1>5 DEF Last
  <2>2. CASE Last(u)
    <3>1. /\ Next1(x).req = u.req /\ Next1(x).lba = u.lba /\ Next1(x).dir = u.dir
          /\ Next1(x).pc = "done"
      BY <1>5, <2>1, <2>2 DEF Next1, Copied, Threads
    <3>2. Last(Next1(x))
      BY <2>2, <3>1 DEF Last
    <3> QED
      BY <1>3, <1>5, <3>1, <3>2 DEF Course
  <2>3. CASE ~Last(u)
    <3>1. /\ Next1(x).req = u.req /\ Next1(x).lba = u.lba + 1
          /\ Next1(x).dir = FirstDir(u.req.op) /\ Next1(x).pc = "wait"
      BY <1>5, <2>1, <2>3 DEF Next1, Copied, Threads
    <3> QED
      BY <1>3, <1>4, <2>3, <3>1 DEF Course, FirstDir
  <2> QED
    BY <2>2, <2>3
<1>6. CASE u.dir = "write"
  BY <1>5, <1>6 DEF After
<1>7. CASE u.dir = "read" /\ u.req.op = "read"
  BY <1>5, <1>7 DEF After
<1>8. CASE u.dir = "read" /\ u.req.op # "read"
  <2>1. /\ Merged(u).req = u.req /\ Merged(u).lba = u.lba /\ Merged(u).dir = "write"
        /\ Merged(u).pc = "wait"
    BY DEF Merged, Threads
  <2> QED
    BY <1>8, <2>1 DEF After, Course
<1> QED
  BY <1>1, <1>6, <1>7, <1>8

LEMMA NextSectorInv ==
  ASSUME DriveInv, TypeInv', NEW p \in Proc, NextSector(p)
  PROVE  DriveInv'
<1> DEFINE u == th[p]
           d == u.req.disk
           t == After(u)
<1>1. InRequest(p) /\ u.pc = "sector" /\ UNCHANGED <<disk, dev, reg, refused, errors, Others>>
  BY DEF NextSector, InRequest
<1>2. /\ u \in Threads /\ u.req \in Requests /\ Course(u) /\ u.dir \in {"read", "write"}
      /\ Chan(p) \notin overlap => Mine(u, dev[d], reg[Chan(p)], disk[d], refused)
  BY <1>1, OwnDisk DEF Threads
<1>3. t.req = u.req /\ t.pc \in {"done", "wait"} /\ Course(t)
  BY <1>1, <1>2, AfterCourse
<1>4. th' = [th EXCEPT ![p] = t]
  BY DEF NextSector, After
<1>5. t \in Threads
  BY <1>4 DEF TypeInv, TypeOK, DriveInv
<1>6. ASSUME Chan(p) \notin overlap
      PROVE  Mine(t, dev[d], reg[Chan(p)], disk[d], refused)
  <2>1. CASE u.dir = "write" /\ Last(u)
    BY <1>1, <1>2, <1>6, <2>1, LastDone DEF After, Next1
  <2>2. CASE u.dir = "write" /\ ~Last(u)
    BY <1>1, <1>2, <1>6, <2>2, NextWritten DEF After, Next1
  <2>3. CASE u.dir = "read" /\ u.req.op = "read"
    BY <1>1, <1>2, <1>6, <2>3, CopiedMine DEF After
  <2>4. CASE u.dir = "read" /\ u.req.op # "read"
    BY <1>1, <1>2, <1>6, <2>4, MergedMine DEF After
  <2> QED
    BY <1>2, <2>1, <2>2, <2>3, <2>4
<1> HIDE DEF t
<1> QED
  BY <1>1, <1>3, <1>4, <1>5, <1>6, QuietStep

LEMMA ReturnInv ==
  ASSUME DriveInv, NEW p \in Proc, Return(p), TypeInv'
  PROVE  DriveInv'
<1>1. TypeInv /\ OneAtATime /\ Owned /\ ErrorsEnd /\ KeepsTheRest /\ \A q \in Proc : RequestInv(q)
  BY DEF DriveInv
<1>2. /\ th[p].pc = "done" /\ th' = [th EXCEPT ![p] = Idle] /\ Idle.pc = "idle"
      /\ UNCHANGED <<disk, dev, reg, refused, overlap, covered>>
  BY DEF Return, Others, Idle
<1>3. th'[p].pc = "idle" /\ \A q \in Proc : q # p => th'[q] = th[q]
  BY <1>1, <1>2 DEF TypeInv, TypeOK
<1>4. OneAtATime'
  BY <1>1, <1>2, <1>3 DEF OneAtATime, InRequest, Chan
<1>5. Owned'
  BY <1>1, <1>2, <1>3 DEF Owned, Alone, Transfer
<1>6. ErrorsEnd' /\ KeepsTheRest'
  BY <1>1, <1>2 DEF ErrorsEnd, KeepsTheRest, Alone
<1>7. \A q \in Proc : RequestInv(q)'
  <2> SUFFICES ASSUME NEW q \in Proc PROVE RequestInv(q)'
    OBVIOUS
  <2>1. CASE q = p
    BY <1>3, <2>1 DEF RequestInv, InRequest
  <2>2. CASE q # p
    BY <1>2, <1>3, <2>2, Undisturbed
  <2> QED
    BY <2>1, <2>2
<1> QED
  BY <1>4, <1>5, <1>6, <1>7 DEF DriveInv

\* A request that was just made, on a disk that is ready.
LEMMA FreshMine ==
  ASSUME NEW t, t.req \in Requests, t.pc = "wait", t.lba = SectorOf(t.req.from),
         t.dir = FirstDir(t.req.op),
         t.req.op = "overwrite" => \A k \in Offset : t.buf[k] = t.val,
         t.stat = 0, NEW v, v.st = "ready", NEW r, NEW s, NEW ref
  PROVE  Course(t) /\ Mine(t, v, r, s, ref)
<1>1. /\ t.req.from \in Address /\ t.req.to \in Address /\ t.req.from <= t.req.to
      /\ SectorOf(t.req.from) \in Lba /\ SectorOf(t.req.from) <= SectorOf(t.req.to)
      /\ t.req.op \in {"read", "write", "overwrite"}
  BY RequestTypes, SectorsInOrder
<1>2. t.lba \in Int
  BY <1>1, SizesPositive, SMT DEF Lba
<1>3. t.lba <= t.lba
  BY <1>2, SMT
<1>4. Course(t)
  BY <1>1, <1>3 DEF Course, FirstDir
<1>5. Registers(t, r) /\ Working(t, v) /\ Denied(t, v, ref)
  BY DEF Registers, Working, Denied, Transfer
<1>6. Buffers(t, v, s)
  <2>1. ASSUME t.dir = "write", NEW k \in Offset
        PROVE  At(t.lba, k) \in Part(t) /\ t.buf[k] = t.val
    <3>1. t.req.op = "overwrite"
      BY <2>1 DEF FirstDir
    <3>2. At(t.lba, k) \in t.req.from..t.req.to
      BY <3>1, WholeSector
    <3>3. SectorOf(At(t.lba, k)) = t.lba
      BY <1>1, AddressOf
    <3> QED
      BY <3>1, <3>2, <3>3 DEF Part
  <2> QED
    BY <2>1 DEF Buffers
<1>7. \A a \in t.req.from..t.req.to : ~(SectorOf(a) < t.lba)
  <2> SUFFICES ASSUME NEW a \in t.req.from..t.req.to PROVE ~(SectorOf(a) < t.lba)
    OBVIOUS
  <2>1. a \in Address
    BY RangeTypes
  <2>2. t.req.from \in Int /\ t.req.to \in Int
    BY <1>1, SizesPositive, SMT DEF Address
  <2>3. t.req.from <= a
    BY <2>2, SMT
  <2>4. t.lba <= SectorOf(a) /\ SectorOf(a) \in Lba
    BY <1>1, <2>1, <2>3, SectorsInOrder, SectorAndOffset
  <2>5. SectorOf(a) \in Int
    BY <2>4, SizesPositive, SMT DEF Lba
  <2> QED
    BY <1>2, <2>4, <2>5, SMT
<1>8. Copies(t, s) /\ Writes(t, v, s, ref)
  BY <1>7 DEF Copies, Writes, Through
<1> QED
  BY <1>4, <1>5, <1>6, <1>8 DEF Mine

LEMMA BeginInv ==
  ASSUME DriveInv, NEW p \in Proc, Begin(p), TypeInv'
  PROVE  DriveInv'
<1> DEFINE val == New(p, calls + 1)
           begun(r) == [pc |-> "wait", req |-> r, val |-> val, stat |-> 0,
                        dir |-> FirstDir(r.op), lba |-> SectorOf(r.from), i |-> 0,
                        buf |-> IF r.op = "overwrite" THEN [k \in Offset |-> val] ELSE JunkBuffer,
                        got |-> [a \in Address |-> Junk]]
           rivals(r) == {q \in Proc \ {p} : th[q].pc # "idle" /\ Chan(q) = ChannelOf[r.disk]}
<1>1. TypeInv /\ OneAtATime /\ Owned /\ ErrorsEnd /\ KeepsTheRest /\ \A q \in Proc : RequestInv(q)
  BY DEF DriveInv
<1>2. /\ th[p].pc = "idle" /\ UNCHANGED <<disk, dev, reg, refused>>
  BY DEF Begin
<1>3. PICK r \in Requests :
        /\ th' = [th EXCEPT ![p] = begun(r)]
        /\ overlap' = IF rivals(r) = {} THEN overlap ELSE overlap \union {ChannelOf[r.disk]}
        /\ covered' = IF r.op = "read" THEN covered
                      ELSE covered \union {<<r.disk, a>> : a \in r.from..r.to}
  BY DEF Begin
<1> DEFINE t == begun(r)
           c == ChannelOf[r.disk]
<1>4. /\ t.req = r /\ t.pc = "wait" /\ t.lba = SectorOf(r.from) /\ t.dir = FirstDir(r.op)
      /\ t.stat = 0 /\ (r.op = "overwrite" => \A k \in Offset : t.buf[k] = t.val)
  OBVIOUS
<1>5. overlap \subseteq overlap' /\ covered \subseteq covered' /\ refused \subseteq refused'
  BY <1>2, <1>3
<1>6. c \notin overlap' =>
        c \notin overlap /\ \A q \in Proc : q # p /\ InRequest(q) => Chan(q) # c
  BY <1>3 DEF InRequest
<1>7. CoveredBy(t, covered')
  BY <1>3, <1>4 DEF CoveredBy
<1>8. th' = [th EXCEPT ![p] = t]
  BY <1>3
<1> HIDE DEF t
<1>9. th'[p] = t /\ \A q \in Proc : q # p => th'[q] = th[q]
  BY <1>1, <1>8 DEF TypeInv, TypeOK
<1>10. OneAtATime'
  <2> SUFFICES ASSUME NEW x \in Proc, NEW y \in Proc, x # y, InRequest(x)', InRequest(y)',
                      Chan(x)' = Chan(y)'
               PROVE  Chan(x)' \in overlap'
    BY DEF OneAtATime
  <2>1. Chan(p)' = c
    BY <1>4, <1>9 DEF Chan
  <2>2. \A q \in Proc : q # p => Chan(q)' = Chan(q) /\ (InRequest(q)' <=> InRequest(q))
    BY <1>9 DEF Chan, InRequest
  <2>3. CASE x # p /\ y # p
    BY <1>1, <1>5, <2>2, <2>3 DEF OneAtATime
  <2>4. CASE x = p \/ y = p
    BY <1>6, <2>1, <2>2, <2>4
  <2> QED
    BY <2>3, <2>4
<1>11. Owned'
  <2> SUFFICES ASSUME NEW d \in Disk, ChannelOf[d] \notin overlap', dev[d].st # "ready"
               PROVE  \E q \in Proc : th'[q].req.disk = d /\ th'[q].pc \in Transfer
    BY <1>2 DEF Owned, Alone
  <2>1. PICK q \in Proc : th[q].req.disk = d /\ th[q].pc \in Transfer
    BY <1>1, <1>5 DEF Owned, Alone
  <2>2. q # p
    BY <1>2, <2>1 DEF Transfer
  <2> QED
    BY <1>9, <2>1, <2>2
<1>12. ErrorsEnd' /\ KeepsTheRest'
  BY <1>1, <1>2, <1>5 DEF ErrorsEnd, KeepsTheRest, Alone
<1>13. RequestInv(p)'
  <2>1. ASSUME c \notin overlap'
        PROVE  dev[r.disk].st = "ready"
    <3> SUFFICES ASSUME dev[r.disk].st # "ready" PROVE FALSE
      OBVIOUS
    <3>1. r.disk \in Disk
      BY RequestTypes
    <3>2. PICK q \in Proc : th[q].req.disk = r.disk /\ th[q].pc \in Transfer
      BY <1>1, <1>6, <2>1, <3>1 DEF Owned, Alone
    <3>3. q # p /\ InRequest(q) /\ Chan(q) = c
      BY <1>2, <3>2 DEF Transfer, InRequest, Chan
    <3> QED
      BY <1>6, <2>1, <3>3
  <2>2. c \notin overlap' => Mine(t, dev[r.disk], reg[c], disk[r.disk], refused)
    BY <1>4, <2>1, FreshMine
  <2>3. Course(t)
    <3> DEFINE v == [st |-> "ready"]
    <3>1. v.st = "ready"
      OBVIOUS
    <3> HIDE DEF v
    <3> QED
      BY <1>4, <3>1, FreshMine
  <2> QED
    BY <1>2, <1>4, <1>7, <1>9, <2>2, <2>3 DEF RequestInv, Alone, Chan
<1>14. \A q \in Proc : q # p => RequestInv(q)'
  BY <1>2, <1>5, <1>9, Undisturbed
<1> QED
  BY <1>10, <1>11, <1>12, <1>13, <1>14 DEF DriveInv

-----------------------------------------------------------------------------
(***************************************************************************)
(* Steps of a disk that works for a request.                               *)
(***************************************************************************)
LEMMA AtWork ==
  ASSUME NEW u \in Threads, InLoop(u), Course(u), NEW v \in Devices, NEW r, NEW s, NEW ref,
         Mine(u, v, r, s, ref), v.st \in {"busy", "store"}
  PROVE  /\ v.st = "busy" => u.pc = "poll" /\ u.i = 0
         /\ v.st = "store" => u.pc = "flush" /\ u.dir = "write"
         /\ v.lba = u.lba /\ v.cmd = u.dir /\ u.pc \in Transfer
BY DEF Mine, Working, Transfer, Course, InLoop

LEMMA FetchMine ==
  ASSUME NEW u \in Threads, InLoop(u), Course(u), NEW v \in Devices, NEW r, NEW s, NEW ref,
         Mine(u, v, r, s, ref), v.st = "busy", NEW w,
         w.st = "data", w.n = 0, w.lba = v.lba, w.cmd = v.cmd,
         v.cmd = "read" => \A k \in Offset : w.buf[k] = s[At(v.lba, k)]
  PROVE  Mine(u, w, r, s, ref)
<1>1. u.pc = "poll" /\ u.i = 0 /\ v.lba = u.lba /\ v.cmd = u.dir
  BY AtWork
<1>2. \A k \in Offset : ~(k < 0)
  BY SizesPositive, SMT DEF Offset
<1>3. Registers(u, r) /\ Working(u, w)
  BY <1>1 DEF Mine, Registers, Working, Transfer
<1>4. Buffers(u, w, s)
  BY <1>1, <1>2 DEF Mine, Buffers
<1>5. Copies(u, s) /\ Denied(u, w, ref) /\ Writes(u, w, s, ref)
  BY <1>1 DEF Mine, Copies, Denied, Writes, Through
<1> QED
  BY <1>3, <1>4, <1>5 DEF Mine

LEMMA RefuseMine ==
  ASSUME NEW u \in Threads, InLoop(u), Course(u), NEW v \in Devices, NEW r, NEW s, NEW ref,
         Mine(u, v, r, s, ref), v.st \in {"busy", "store"}, NEW w,
         w.st = "ready", w.lba = v.lba, w.cmd = v.cmd,
         NEW more, ref \subseteq more, v.cmd = "write" => <<u.req.disk, v.lba>> \in more
  PROVE  Mine(u, w, r, s, more)
<1>1. /\ u.pc \in {"poll", "flush"} /\ u.pc \in Transfer /\ v.lba = u.lba /\ v.cmd = u.dir
  BY AtWork
<1>2. Registers(u, r) /\ Working(u, w)
  BY <1>1 DEF Mine, Registers, Working, Transfer
<1>3. Buffers(u, w, s)
  BY <1>1 DEF Mine, Buffers
<1>4. Copies(u, s) /\ Denied(u, w, more)
  BY <1>1 DEF Mine, Copies, Denied
<1>5. Writes(u, w, s, more)
  BY <1>1 DEF Mine, Writes
<1> QED
  BY <1>2, <1>3, <1>4, <1>5 DEF Mine

\* What a disk that stores v's buffer makes of its contents s.
Stored(v, s) ==
  [a \in Address |-> IF SectorOf(a) = v.lba THEN v.buf[a % SectorSize] ELSE s[a]]

LEMMA StoreMine ==
  ASSUME NEW u \in Threads, InLoop(u), u.req \in Requests, Course(u), NEW v \in Devices, NEW r,
         NEW s, NEW ref, Mine(u, v, r, s, ref), v.st = "store",
         NEW w, w.st = "ready", w.lba = v.lba, w.cmd = v.cmd
  PROVE  /\ Mine(u, w, r, Stored(v, s), ref)
         /\ \A a \in Address : a \notin u.req.from..u.req.to \/ u.req.op = "read" =>
              Stored(v, s)[a] = s[a]
<1> DEFINE s2 == Stored(v, s)
<1>1. u.pc = "flush" /\ u.dir = "write" /\ v.lba = u.lba /\ v.cmd = "write" /\ u.req.op # "read"
  BY AtWork DEF Course
<1>2. u.lba \in Lba
  BY DEF Threads
<1>3. \A k \in Offset :
        /\ At(u.lba, k) \in Address /\ v.buf[k] = u.buf[k]
        /\ u.buf[k] = IF At(u.lba, k) \in Part(u) THEN u.val ELSE s[At(u.lba, k)]
  BY <1>1, <1>2, AddressOf DEF Mine, Buffers
<1>4. \A k \in Offset : s2[At(u.lba, k)] = u.buf[k]
  BY <1>1, <1>2, <1>3, AddressOf DEF Stored
<1>5. \A a \in Address : SectorOf(a) # u.lba => s2[a] = s[a]
  BY <1>1 DEF Stored
<1>6. \A a \in Address : SectorOf(a) = u.lba => s2[a] = IF a \in Part(u) THEN u.val ELSE s[a]
  <2> SUFFICES ASSUME NEW a \in Address, SectorOf(a) = u.lba
               PROVE  s2[a] = IF a \in Part(u) THEN u.val ELSE s[a]
    OBVIOUS
  <2>1. a % SectorSize \in Offset /\ a = At(u.lba, a % SectorSize)
    BY SectorAndOffset
  <2> QED
    BY <1>3, <1>4, <2>1
<1> HIDE DEF s2
<1>7. Registers(u, r) /\ Working(u, w) /\ Denied(u, w, ref) /\ Copies(u, s2)
  BY <1>1 DEF Mine, Registers, Working, Denied, Copies, Transfer
<1>8. Buffers(u, w, s2)
  BY <1>1, <1>3, <1>4 DEF Mine, Buffers
<1>9. Writes(u, w, s2, ref)
  <2> SUFFICES ASSUME NEW a \in u.req.from..u.req.to,
                      SectorOf(a) < u.lba \/ SectorOf(a) = u.lba
               PROVE  s2[a] = u.val \/ <<u.req.disk, SectorOf(a)>> \in ref
    BY DEF Writes
  <2>1. a \in Address /\ (SectorOf(a) = u.lba => a \in Part(u))
    BY RequestSectors
  <2>2. CASE SectorOf(a) = u.lba
    BY <1>6, <2>1, <2>2
  <2>3. CASE SectorOf(a) # u.lba
    BY <1>1, <1>5, <2>1, <2>3 DEF Mine, Writes
  <2> QED
    BY <2>2, <2>3
<1>10. \A a \in Address : a \notin u.req.from..u.req.to => s2[a] = s[a]
  BY <1>5, <1>6 DEF Part
<1>11. Mine(u, w, r, s2, ref)
  BY <1>7, <1>8, <1>9 DEF Mine
<1> QED
  BY <1>1, <1>10, <1>11 DEF s2

\* A step of disk d, which was at work.
LEMMA DiskStep ==
  ASSUME DriveInv, TypeInv', NEW d \in Disk, dev[d].st # "ready",
         UNCHANGED <<reg, th, overlap, covered>>, refused \subseteq refused',
         \A e \in Disk : e # d => dev'[e] = dev[e] /\ disk'[e] = disk[e],
         dev'[d].st # "ready" => ~dev'[d].err,
         \A p \in Proc : InRequest(p) /\ th[p].req.disk = d /\ Alone(d) =>
           Mine(th[p], dev'[d], reg[Chan(p)], disk'[d], refused'),
         KeepsTheRest'
  PROVE  DriveInv'
<1>1. TypeInv /\ OneAtATime /\ Owned /\ ErrorsEnd /\ \A q \in Proc : RequestInv(q)
  BY DEF DriveInv
<1>2. th' = th /\ reg' = reg /\ overlap' = overlap /\ covered' = covered
  OBVIOUS
<1>3. OneAtATime'
  BY <1>1, <1>2 DEF OneAtATime, InRequest, Chan
<1>4. Owned'
  BY <1>1, <1>2 DEF Owned, Alone
<1>5. ErrorsEnd'
  BY <1>1 DEF ErrorsEnd
<1>6. \A q \in Proc : RequestInv(q)'
  <2> SUFFICES ASSUME NEW q \in Proc PROVE RequestInv(q)'
    OBVIOUS
  <2>1. CASE th[q].req.disk = d
    BY <1>1, <1>2, <2>1 DEF RequestInv, InRequest, Alone, Chan, CoveredBy
  <2>2. CASE th[q].req.disk # d
    <3>1. th[q].req.disk \in Disk
      BY <1>1, ThreadFields
    <3> QED
      BY <1>2, <2>2, <3>1, Undisturbed
  <2> QED
    BY <2>1, <2>2
<1> QED
  BY <1>3, <1>4, <1>5, <1>6 DEF DriveInv

\* The request a disk works for.
LEMMA Worker ==
  ASSUME DriveInv, NEW d \in Disk, NEW p \in Proc, InRequest(p), th[p].req.disk = d, Alone(d)
  PROVE  /\ th[p] \in Threads /\ InLoop(th[p]) /\ Course(th[p]) /\ th[p].req \in Requests
         /\ dev[d] \in Devices
         /\ Mine(th[p], dev[d], reg[Chan(p)], disk[d], refused)
BY OwnDisk DEF Alone

LEMMA FetchInv ==
  ASSUME DriveInv, NEW d \in Disk, Fetch(d), TypeInv'
  PROVE  DriveInv'
<1> DEFINE v == dev[d]
           w == IF v.cmd = "read" THEN [v EXCEPT !.st = "data", !.n = 0, !.buf = Sector(d)]
                ELSE [v EXCEPT !.st = "data", !.n = 0]
<1>1. /\ v.st = "busy" /\ dev' = [dev EXCEPT ![d] = w]
      /\ UNCHANGED <<disk, reg, th, refused, overlap, covered>>
  BY DEF Fetch, Others
<1>2. dev \in [Disk -> Devices] /\ v \in Devices /\ ErrorsEnd /\ KeepsTheRest
  BY DEF DriveInv, TypeInv, TypeOK
<1>3. /\ w.st = "data" /\ w.n = 0 /\ w.lba = v.lba /\ w.cmd = v.cmd /\ w.err = v.err
      /\ v.cmd = "read" => \A k \in Offset : w.buf[k] = disk[d][At(v.lba, k)]
  BY <1>2 DEF Devices, Sector
<1>4. ~v.err
  BY <1>1, <1>2 DEF ErrorsEnd
<1> HIDE DEF w
<1>5. dev'[d] = w /\ \A e \in Disk : e # d => dev'[e] = dev[e]
  BY <1>1, <1>2
<1>6. \A p \in Proc : InRequest(p) /\ th[p].req.disk = d /\ Alone(d) =>
        Mine(th[p], w, reg[Chan(p)], disk[d], refused)
  BY <1>1, <1>3, Worker, FetchMine
<1>7. KeepsTheRest'
  BY <1>1, <1>2 DEF KeepsTheRest, Alone
<1> QED
  BY <1>1, <1>3, <1>4, <1>5, <1>6, <1>7, DiskStep

LEMMA RefuseInv ==
  ASSUME DriveInv, NEW d \in Disk, Refuse(d), TypeInv'
  PROVE  DriveInv'
<1> DEFINE v == dev[d]
           w == [v EXCEPT !.st = "ready", !.err = TRUE]
<1>1. /\ v.st \in {"busy", "store"} /\ dev' = [dev EXCEPT ![d] = w]
      /\ refused' = IF v.cmd = "write" THEN refused \union {<<d, v.lba>>} ELSE refused
      /\ UNCHANGED <<disk, reg, th, overlap, covered>>
  BY DEF Refuse, Busy, Others
<1>2. dev \in [Disk -> Devices] /\ v \in Devices /\ KeepsTheRest
  BY DEF DriveInv, TypeInv, TypeOK
<1>3. w.st = "ready" /\ w.lba = v.lba /\ w.cmd = v.cmd
  BY <1>2 DEF Devices
<1> HIDE DEF w
<1>4. dev'[d] = w /\ \A e \in Disk : e # d => dev'[e] = dev[e]
  BY <1>1, <1>2
<1>5. refused \subseteq refused' /\ (v.cmd = "write" => <<d, v.lba>> \in refused')
  BY <1>1
<1>6. \A p \in Proc : InRequest(p) /\ th[p].req.disk = d /\ Alone(d) =>
        Mine(th[p], w, reg[Chan(p)], disk[d], refused')
  BY <1>1, <1>3, <1>5, Worker, RefuseMine
<1>7. KeepsTheRest'
  BY <1>1, <1>2 DEF KeepsTheRest, Alone
<1> QED
  BY <1>1, <1>3, <1>4, <1>5, <1>6, <1>7, DiskStep

LEMMA StoreInv ==
  ASSUME DriveInv, NEW d \in Disk, Store(d), TypeInv'
  PROVE  DriveInv'
<1> DEFINE v == dev[d]
           w == [v EXCEPT !.st = "ready"]
           s2 == Stored(v, disk[d])
<1>1. /\ v.st = "store" /\ dev' = [dev EXCEPT ![d] = w] /\ disk' = [disk EXCEPT ![d] = s2]
      /\ UNCHANGED <<reg, th, refused, overlap, covered>>
  BY DEF Store, Others, Stored
<1>2. /\ dev \in [Disk -> Devices] /\ v \in Devices /\ disk \in [Disk -> [Address -> Value]]
      /\ Owned /\ KeepsTheRest /\ \A p \in Proc : RequestInv(p)
  BY DEF DriveInv, TypeInv, TypeOK
<1>3. w.st = "ready" /\ w.lba = v.lba /\ w.cmd = v.cmd
  BY <1>2 DEF Devices
<1> HIDE DEF w, s2
<1>4. /\ dev'[d] = w /\ disk'[d] = s2
      /\ \A e \in Disk : e # d => dev'[e] = dev[e] /\ disk'[e] = disk[e]
  BY <1>1, <1>2
<1>5. \A p \in Proc : InRequest(p) /\ th[p].req.disk = d /\ Alone(d) =>
        /\ Mine(th[p], w, reg[Chan(p)], s2, refused)
        /\ \A a \in Address : a \notin th[p].req.from..th[p].req.to \/ th[p].req.op = "read" =>
             s2[a] = disk[d][a]
  BY <1>1, <1>3, Worker, StoreMine DEF s2
<1>6. KeepsTheRest'
  <2> SUFFICES ASSUME NEW e \in Disk, NEW a \in Address, Alone(e), <<e, a>> \notin covered
               PROVE  disk'[e][a] = Old(e, a)
    BY <1>1 DEF KeepsTheRest, Alone
  <2>1. disk[e][a] = Old(e, a)
    BY <1>2 DEF KeepsTheRest
  <2>2. CASE e = d
    <3>1. PICK p \in Proc : th[p].req.disk = d /\ th[p].pc \in Transfer
      BY <1>1, <1>2, <2>2 DEF Owned
    <3>2. InRequest(p)
      BY <3>1 DEF InRequest, Transfer
    <3>3. a \notin th[p].req.from..th[p].req.to \/ th[p].req.op = "read"
      BY <1>2, <2>2, <3>1, <3>2 DEF RequestInv, CoveredBy
    <3> QED
      BY <1>4, <1>5, <2>1, <2>2, <3>1, <3>2, <3>3
  <2>3. CASE e # d
    BY <1>4, <2>1, <2>3
  <2> QED
    BY <2>2, <2>3
<1> QED
  BY <1>1, <1>3, <1>4, <1>5, <1>6, DiskStep

LEMMA NothingMoves ==
  ASSUME DriveInv, TypeInv', UNCHANGED <<disk, dev, reg, th, overlap, covered, refused>>
  PROVE  DriveInv'
<1>1. OneAtATime' /\ Owned' /\ ErrorsEnd' /\ KeepsTheRest'
  BY DEF DriveInv, OneAtATime, Owned, ErrorsEnd, KeepsTheRest, Alone, InRequest, Chan
<1>2. \A q \in Proc : RequestInv(q)'
  BY Undisturbed
<1> QED
  BY <1>1, <1>2 DEF DriveInv

LEMMA InitInv == Init => DriveInv
<1> SUFFICES ASSUME Init PROVE DriveInv
  OBVIOUS
<1>1. TypeInv
  BY InitTypes
<1>2. \A p \in Proc : ~InRequest(p)
  BY DEF Init, InRequest, Idle
<1>3. \A d \in Disk : dev[d].st = "ready"
  BY DEF Init
<1>4. OneAtATime /\ \A p \in Proc : RequestInv(p)
  BY <1>2 DEF OneAtATime, RequestInv
<1>5. Owned /\ ErrorsEnd
  BY <1>3 DEF Owned, ErrorsEnd
<1>6. KeepsTheRest
  BY DEF Init, KeepsTheRest
<1> QED
  BY <1>1, <1>4, <1>5, <1>6 DEF DriveInv

LEMMA NextInv == DriveInv /\ [Next]_vars => DriveInv'
<1> SUFFICES ASSUME DriveInv, [Next]_vars PROVE DriveInv'
  OBVIOUS
<1>1. TypeInv'
  BY NextTypes DEF DriveInv
<1>2. cpu \in Proc
  BY DEF DriveInv, TypeInv, TypeOK
<1>3. CASE Begin(cpu)
  BY <1>1, <1>2, <1>3, BeginInv
<1>4. CASE Step(cpu)
  BY <1>1, <1>2, <1>4, WaitingInv, RegisterInv, CommandInv, CheckInv, DataInInv, DataOutInv,
     NextSectorInv, ReturnInv DEF Step
<1>5. CASE Switch
  BY <1>1, <1>5, NothingMoves DEF Switch
<1>6. CASE \E d \in Disk : Fetch(d) \/ Store(d) \/ Refuse(d)
  BY <1>1, <1>6, FetchInv, StoreInv, RefuseInv
<1>7. CASE UNCHANGED vars
  BY <1>1, <1>7, NothingMoves DEF vars
<1> QED
  BY <1>3, <1>4, <1>5, <1>6, <1>7 DEF Next

\* The bytes no request was to write stay as they were, whatever errors the disks report and
\* however the requests on other channels go between (drive_write_linear writes back whole
\* sectors), as long as no two requests were under way on the channel at once.
THEOREM UncoveredKept == Spec => []KeepsTheRest
<1>1. DriveInv => KeepsTheRest
  BY DEF DriveInv
<1> QED
  BY <1>1, InitInv, NextInv, PTL DEF Spec

\* A read that reports success has what the disk holds, over all its sectors, and a write
\* that reports success is on the disk but for sectors the disk refused, as long as no two
\* requests were under way on the channel at once.
THEOREM RequestsHonoured == Spec => []DoneAsAsked
<1>1. DriveInv => DoneAsAsked
  <2> SUFFICES ASSUME DriveInv, NEW p \in Proc, th[p].pc = "done", th[p].stat = 0,
                      Alone(th[p].req.disk), NEW a \in th[p].req.from..th[p].req.to
               PROVE  IF th[p].req.op = "read" THEN th[p].got[a] = disk[th[p].req.disk][a]
                      ELSE \/ disk[th[p].req.disk][a] = th[p].val
                           \/ <<th[p].req.disk, SectorOf(a)>> \in refused
    BY DEF DoneAsAsked
  <2> DEFINE t == th[p]
             d == t.req.disk
  <2>1. InRequest(p)
    BY DEF InRequest
  <2>2. t \in Threads /\ t.req \in Requests /\ d \in Disk /\ Course(t)
    BY <2>1, OwnDisk
  <2>3. Mine(t, dev[d], reg[Chan(p)], disk[d], refused)
    BY <2>1, <2>2, Worker
  <2>4. SectorOf(a) < t.lba \/ SectorOf(a) = t.lba
    BY <2>2, RequestSectors DEF Course
  <2>5. CASE t.req.op = "read"
    BY <2>3, <2>5 DEF Mine, Copies
  <2>6. CASE t.req.op # "read"
    BY <2>2, <2>3, <2>4, <2>6 DEF Mine, Writes, Course, Through
  <2> QED
    BY <2>5, <2>6
<1> QED
  BY <1>1, InitInv, NextInv, PTL DEF Spec

=============================================================================
