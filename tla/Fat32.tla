------------------------------- MODULE Fat32 -------------------------------
(***************************************************************************)
(* The FAT32 driver, fs/interfaces/fat32.c, as operators on a disk. Every  *)
(* operator that writes works on a session `h' whose field d is the disk   *)
(* as it is then and whose field log holds the disk after each write, so   *)
(* that a crash in the middle is a choice among the members of the log.    *)
(*                                                                         *)
(* A cluster is one sector. It holds Slots directory entries of 32 bytes   *)
(* or Units units of data. The table is used through its first copy only,  *)
(* as in the code. A directory entry is one or more "long" slots with its  *)
(* name and a "short" slot with the rest.                                  *)
(*                                                                         *)
(* What the code does with a table it has misread is not followed: the     *)
(* session's field bad names the reason, and the session stops there.      *)
(***************************************************************************)
EXTENDS Integers, Sequences

CONSTANTS
    TableSectors,   \* sectors of a table
    PerSector,      \* table entries in a sector (128)
    FirstAlloc,     \* the cluster allocation starts from (12)
    LastCluster,    \* the last cluster of the disk
    Slots,          \* directory entries in a cluster (16)
    Units,          \* units of data in a cluster
    Root,           \* the root directory's first cluster
    NameLen         \* the length of each name

ASSUME GeometryAssumption ==
    /\ {TableSectors, PerSector, Units} \subseteq Nat \ {0}
    /\ Slots \in Nat /\ Slots >= 2 /\ LastCluster \in Nat
    /\ FirstAlloc \in 2 .. LastCluster /\ Root \in 2 .. LastCluster
    /\ LastCluster < TableSectors * PerSector

Clusters == 2 .. LastCluster
Places == Clusters \X (1 .. Slots)      \* where entries begin
EOC == -1                       \* any value from 0x0fffff00 on
End  == <<0, 0>>                \* NULL instead of an entry
Lost == <<0, 1>>                \* reading on from memory or sectors that hold no entry
Spots == Places \union {End, Lost}

Zero == [k |-> "zero", name |-> "", first |-> 0, size |-> 0, attr |-> {}]
Junk == [Zero EXCEPT !.k = "junk"]          \* whatever lies on the stack
Long(n) == [Zero EXCEPT !.k = "long", !.name = n]
Short(n, f, sz, a) == [k |-> "short", name |-> n, first |-> f, size |-> sz, attr |-> a]

IsDisk(d) ==
    /\ DOMAIN d = {"fat", "slots", "data"}
    /\ d.fat \in [0 .. LastCluster -> {EOC} \union 0 .. LastCluster]
    /\ DOMAIN d.slots = Clusters /\ DOMAIN d.data = Clusters
    /\ \A c \in Clusters : /\ DOMAIN d.slots[c] = 1 .. Slots /\ DOMAIN d.data[c] = 1 .. Units
                           /\ d.slots[c] = [i \in 1 .. Slots |-> d.slots[c][i]]

IsSlot(e) == DOMAIN e = {"k", "name", "first", "size", "attr"} /\ e.size \in Nat
Hidden(e) == e.name \in {".", "..", "gone"}

(* The slots that lead to a cluster, and the clusters where a chain can begin: taken, and no
   other's successor. *)
First(d, q) == d.slots[q[1]][q[2]].first
Owners(d) == {q \in Places : LET e == d.slots[q[1]][q[2]] IN e.k # "long" /\ ~Hidden(e) /\ e.first # 0}
IsHead(d, c) == c \in Clusters /\ d.fat[c] # 0 /\ \A a \in 0 .. LastCluster : d.fat[a] # c

(* A disk as a formatter, a checker and this driver leave it. What is no directory's counts as
   slots with zeros. *)
Consistent(d) ==
    /\ \A q \in Places : IsSlot(d.slots[q[1]][q[2]])
    /\ \A c \in 0 .. LastCluster : d.fat[c] # 1 /\ (d.fat[c] \in Clusters => d.fat[d.fat[c]] # 0)
    /\ \A a, b \in 0 .. LastCluster : d.fat[a] = d.fat[b] /\ d.fat[a] \in Clusters => a = b
    /\ IsHead(d, Root)
    /\ \A q \in Owners(d) : IsHead(d, First(d, q)) /\ First(d, q) # Root
    /\ \A p, q \in Owners(d) : First(d, p) = First(d, q) => p = q

NewSession(d) == [d |-> d, log |-> <<>>, bad |-> "none", sector |-> 0, cache |-> d.fat]
Put(h, d) == [h EXCEPT !.d = d, !.log = Append(@, d)]
Bad(h, why) == [h EXCEPT !.bad = why]

(* What a loop that does Turn makes of x in n turns. *)
After(n, Turn(_), x) == LET f[i \in 0 .. n] == IF i = 0 THEN x ELSE Turn(f[i - 1]) IN f[n]

PutFat(h, c, v) == Put(h, [h.d EXCEPT !.fat[c] = v])
PutData(h, c, off, units) ==
    Put(h, [h.d EXCEPT !.data[c] = [i \in 1 .. Units |->
                IF i \in off + 1 .. off + Len(units) THEN units[i - off] ELSE @[i]]])

-----------------------------------------------------------------------------
(* Directories. *)

(* fat_read_node_clusters, fat_read_next: the cluster and its successor, if it has one. *)
Window(d, c) == d.slots[c] \o IF d.fat[c] \in Clusters THEN d.slots[d.fat[c]]
                                                       ELSE [i \in 1 .. Slots |-> Junk]

SkipName(w, i) == IF \A j \in i .. Len(w) : w[j].k = "long" THEN Len(w) + 1
                  ELSE CHOOSE j \in i .. Len(w) : w[j].k # "long" /\ \A m \in i .. j - 1 : w[m].k = "long"

EntryAt(w, i) == IF SkipName(w, i) > Len(w) THEN Junk ELSE w[SkipName(w, i)]
Entry(d, p) == EntryAt(Window(d, p[1]), p[2])
NameAt(d, p) == LET e == d.slots[p[1]][p[2]] IN IF e.k = "long" THEN e.name ELSE Entry(d, p).name

(* The n-th slot of the window of cluster c. *)
SlotAt(d, c, n) == IF n <= Slots THEN <<c, n>> ELSE <<d.fat[c], n - Slots>>

(* Where the short slot of the entry at p lies. *)
ShortAt(d, p) == SlotAt(d, p[1], SkipName(Window(d, p[1]), p[2]))

(* drive_read_linear of 512 bytes from an entry on: the rest of its cluster
   and the beginning of the cluster that lies behind it on the disk. *)
EntryOnDisk(d, p) ==
    EntryAt(SubSeq(d.slots[p[1]], p[2], Slots) \o
            (IF p[1] < LastCluster THEN d.slots[p[1] + 1] ELSE <<>>), 1)

Behind(d, p) == SkipName(Window(d, p[1]), p[2]) + 1     \* the slot that follows an entry

NextEntry(d, p) ==
    LET w == Window(d, p[1])
    IN  IF Behind(d, p) > Len(w) \/ w[Behind(d, p)].k = "junk" THEN Lost
        ELSE IF w[Behind(d, p)].k = "zero" THEN End ELSE SlotAt(d, p[1], Behind(d, p))

NextEntryUnsafe(d, p) ==
    IF Behind(d, p) <= Slots \/ d.fat[p[1]] \in Clusters THEN SlotAt(d, p[1], Behind(d, p)) ELSE Lost

(* The entries a walk meets from p on, then End or Lost. No directory has more of them than
   the disk has slots. *)
Listing(d, p) ==
    LET from[x \in Spots \X (0 .. Slots * LastCluster)] ==
            IF x[1] \in {End, Lost} \/ x[2] = 0 THEN <<x[1]>>
            ELSE <<x[1]>> \o from[<<NextEntry(d, x[1]), x[2] - 1>>]
    IN  from[<<p, Slots * LastCluster>>]

\* The first member of a list that passes, or its last member, which is End or Lost.
FirstWhere(list, Test(_)) ==
    list[CHOOSE i \in 1 .. Len(list) :
            /\ i = Len(list) \/ Test(list[i])
            /\ \A j \in 1 .. i - 1 : ~Test(list[j])]

NodeAt(node, d, p) == [node EXCEPT !.at = p, !.root = FALSE, !.off = 0, !.dev = "dev" \in Entry(d, p).attr]
RootNode(node) == [node EXCEPT !.at = <<Root, 1>>, !.root = TRUE, !.off = 0]

(* Where the entries of the directory `node' begin; End if it is none. *)
FirstPlace(c) == IF c \in Clusters THEN <<c, 1>> ELSE Lost
Inside(e) == IF "dir" \notin e.attr THEN End ELSE FirstPlace(e.first)
DirStart(d, node) == IF node.root THEN node.at ELSE Inside(EntryOnDisk(d, node.at))

(* fat_search_node. *)
Search(d, node, token) ==
    FirstWhere(Listing(d, DirStart(d, node)), LAMBDA p : ~Hidden(Entry(d, p)) /\ NameAt(d, p) = token)

(* fat_get_child, of the root. *)
GetChild(d, node) == FirstWhere(Listing(d, node.at), LAMBDA p : ~Hidden(Entry(d, p)))

FaultyIterate(d, p) == NextEntry(d, p)      \* does not skip

(* fat_iterate. Skipping to the end goes on from NULL. *)
Skipped(next, shown) == IF next # End /\ shown = End THEN Lost ELSE shown
Iterate(d, p) ==
    LET next == NextEntry(d, p)
    IN  Skipped(next, FirstWhere(Listing(d, next), LAMBDA q : ~Hidden(Entry(d, q))))

FirstAt(d, p) == IF p \in {End, Lost} THEN 0 ELSE Entry(d, p).first
DotDot(d, c) == FirstAt(d, FirstWhere(Listing(d, FirstPlace(c)), LAMBDA q : Entry(d, q).name = ".."))

FaultyBacktrackTo(d, node, parent) ==   \* takes the parent's cluster for the place of its entry
    IF parent \in {0, Root} THEN RootNode(node) ELSE NodeAt(node, d, <<parent, 1>>)

(* fat_backtrack: the entry of the directory `node' lies in, which is found as
   the one in the grandparent that leads to the parent's cluster. *)
Leading(d, c, parent) ==
    FirstWhere(Listing(d, FirstPlace(IF c = 0 THEN Root ELSE c)), LAMBDA q : Entry(d, q).first = parent)

BacktrackTo(d, node, parent) ==
    IF parent \in {0, Root} THEN RootNode(node)
    ELSE LET p == Leading(d, DotDot(d, parent), parent)
         IN  IF p \in {End, Lost} THEN node ELSE NodeAt(node, d, p)

BacktrackFrom(d, node, start) ==
    IF start \in {End, Lost} THEN [node EXCEPT !.at = start]
    ELSE BacktrackTo(d, node, DotDot(d, start[1]))

Backtrack(d, node) == IF node.root THEN node ELSE BacktrackFrom(d, node, DirStart(d, node))

-----------------------------------------------------------------------------
(* The table. *)

AllocEnd == (TableSectors * PerSector) \div 4   \* a number of entries compared with a byte offset

FreeClusters(d) == {c \in FirstAlloc .. AllocEnd - 1 : c \in Clusters /\ d.fat[c] = 0}

(* fat_alloc_cluster: the first free cluster, 0 if there is none. *)
Allocated(d) == IF FreeClusters(d) = {} THEN 0
                ELSE CHOOSE c \in FreeClusters(d) : \A e \in FreeClusters(d) : c <= e

(* fat_get_cluster_info_cached: one sector of the table is kept, as it was when it was read. *)
Load(h, c) == IF c \div PerSector = h.sector THEN h
              ELSE [h EXCEPT !.sector = c \div PerSector, !.cache = h.d.fat]

Stale(h, c) == h.cache[c] # h.d.fat[c]

(* The step to the next cluster in fat_write: past the end of the chain a new one is linked. *)
Extend(h, c, n) ==
    IF n = 0 THEN [h |-> Bad(PutFat(h, c, 0), "full"), c |-> 0, off |-> 0]
    ELSE [h |-> PutFat(PutFat(h, n, EOC), c, n), c |-> n, off |-> 0]

NextCluster(h, c) ==
    LET l == Load(h, c)
    IN  IF Stale(l, c) THEN [h |-> Bad(l, "stale"), c |-> 0, off |-> 0]
        ELSE IF l.cache[c] # EOC THEN [h |-> l, c |-> l.cache[c], off |-> 0]
        ELSE Extend(l, c, Allocated(l.d))

-----------------------------------------------------------------------------
(* Files. *)

Lesser(m, n) == IF m < n THEN m ELSE n

SeekTurn(s) ==
    LET l == Load(s.h, s.c)
    IN  IF s.h.bad # "none" \/ s.off < Units THEN s
        ELSE IF l.cache[s.c] \notin Clusters THEN [h |-> Bad(l, "lost"), c |-> s.c, off |-> 0]
        ELSE [h |-> l, c |-> l.cache[s.c], off |-> s.off - Units]

(* No chain is longer than the disk. *)
Seek(h, c, off) == After(LastCluster, SeekTurn, [h |-> h, c |-> c, off |-> off])

(* The end of fat_write: what is left of the chain is freed, but not cut off. *)
FreeTurn(s) ==
    LET l == Load(s.h, s.c)
    IN  IF s.c = EOC THEN s ELSE [h |-> PutFat(l, s.c, 0), c |-> l.cache[s.c]]

FreeRest(h, c) == After(LastCluster, FreeTurn, [h |-> h, c |-> c]).h

Trim(h, c) ==
    LET l == Load(h, c)
    IN  IF Stale(l, c) THEN Bad(l, "stale")
        ELSE IF l.cache[c] = EOC THEN l ELSE Bad(FreeRest(l, l.cache[c]), "cut")

FillTurn(s) ==
    LET fit == Lesser(Len(s.left), Units - s.off)
        next == NextCluster(PutData(s.h, s.c, s.off, SubSeq(s.left, 1, fit)), s.c)
    IN  IF s.h.bad # "none" \/ s.done THEN s
        ELSE IF s.off = 0 /\ Len(s.left) < Units
             THEN [s EXCEPT !.h = Trim(PutData(s.h, s.c, 0, s.left), s.c), !.done = TRUE]
        ELSE [h |-> next.h, c |-> next.c, off |-> next.off, done |-> FALSE,
              left |-> SubSeq(s.left, fit + 1, Len(s.left))]

(* Each turn but the last two takes a unit or more. *)
Fill(s, input) ==
    After(Len(input) + 2, FillTurn, [h |-> s.h, c |-> s.c, off |-> s.off, left |-> input, done |-> FALSE]).h

PutSlot(h, q, e) == Put(h, [h.d EXCEPT !.slots[q[1]][q[2]] = e])
PutEntry(h, p, e) == PutSlot(h, ShortAt(h.d, p), e)

FaultyFirstCluster(h, p) ==     \* the entry is written before the table
    LET e == Entry(h.d, p)   n == Allocated(h.d)
    IN  IF e.first \notin {0, EOC} THEN h
        ELSE IF n = 0 THEN Bad(h, "full")
        ELSE PutFat(PutEntry(h, p, [e EXCEPT !.first = n]), n, EOC)

FaultyFirstClusterAlways(h, p) ==   \* gives the file a new cluster at every write
    PutEntry(PutFat(h, Allocated(h.d), EOC), p, [Entry(h.d, p) EXCEPT !.first = Allocated(h.d)])

(* A file without clusters gets its first: first the table, then the entry. *)
FirstCluster(h, p) ==
    LET e == Entry(h.d, p)
        n == Allocated(h.d)
    IN  IF e.first \notin {0, EOC} THEN h
        ELSE IF n = 0 THEN Bad(h, "full")
        ELSE PutEntry(PutFat(h, n, EOC), p, [e EXCEPT !.first = n])

FaultyReadTable(h) == h             \* reads the table before the file gets its first cluster

ReadTable(h) == [h EXCEPT !.sector = 0, !.cache = h.d.fat]

(* fat_write: first cluster, data, size. *)
PutSize(h, p, size) ==
    IF h.bad \notin {"none", "cut"} THEN h ELSE PutEntry(h, p, [Entry(h.d, p) EXCEPT !.size = size])

PutInput(h, p, off, input) ==
    IF h.bad # "none" THEN h
    ELSE PutSize(Fill(Seek(ReadTable(h), Entry(h.d, p).first, off), input), p, Len(input))

WriteFile(h, node, input) ==
    IF node.root \/ "dir" \in Entry(h.d, node.at).attr THEN h
    ELSE PutInput(FirstCluster(h, node.at), node.at, node.off, input)

(* The units memcpy takes from a buffer with one cluster in it. *)
Copied(units, from, n) == [i \in 1 .. n |-> IF from + i <= Units THEN units[from + i] ELSE "junk"]

FaultyCopy(d, c, len, size) == Copied(d.data[c], 0, len)       \* does not look at the size

CopyTurn(d, s) ==
    IF s.c \notin Clusters \/ s.len = 0 THEN s
    ELSE IF s.len > Units /\ s.size > s.len
         THEN [c |-> d.fat[s.c], len |-> s.len - Units, size |-> s.size - Units,
               got |-> s.got \o Copied(d.data[s.c], 0, Units)]
    ELSE [s EXCEPT !.len = 0, !.got = @ \o Copied(d.data[s.c], 0, Lesser(s.len, s.size))]

Copy(d, c, len, size) ==
    After(LastCluster, LAMBDA s : CopyTurn(d, s), [c |-> c, len |-> len, size |-> size, got |-> <<>>]).got

(* fat_read: what it returns. The size is not lessened by the offset in the cluster. *)
ReadAt(d, s, len, size) ==
    LET fit == IF s.off = 0 THEN 0 ELSE Lesser(Lesser(Units - s.off, len), size)
    IN  IF s.h.bad # "none" THEN <<"junk">>
        ELSE Copied(d.data[s.c], s.off, fit) \o
             Copy(d, IF s.off = 0 THEN s.c ELSE d.fat[s.c], len - fit, size - fit)

ReadFrom(d, e, off, len) ==
    IF "dir" \in e.attr \/ off >= e.size THEN <<>>
    ELSE ReadAt(d, Seek(NewSession(d), e.first, off), len, e.size - Units * (off \div Units))

ReadFile(d, node, len) == IF node.root THEN <<>> ELSE ReadFrom(d, Entry(d, node.at), node.off, len)

-----------------------------------------------------------------------------
(* Creation. *)

FreeSlot(d, p, n) ==
    LET from[q \in Spots, m \in 0 .. n] ==
            IF q = Lost \/ m = 0 THEN Lost
            ELSE IF d.slots[q[1]][q[2]].k = "zero" THEN q ELSE from[NextEntryUnsafe(d, q), m - 1]
    IN  from[p, n]

(* fat_name_chunkise clears 13 bytes of 13 characters, so what lay on the stack
   follows a name whose last chunk has between 6 and 12 characters. *)
NameStored(name) == IF name \in DOMAIN NameLen /\ NameLen[name] % 13 >= 6 THEN {name, "garbled"} ELSE {name}

FaultyDirent(name, stored, e) ==    \* no room for the 0 behind a name of five characters
    <<Long(IF NameLen[name] = 5 THEN "garbled" ELSE stored), e>>

(* fat_create_dirent: a long slot for every 13 characters, the short one behind them. *)
Dirent(name, stored, e) ==
    LET n == (NameLen[name] + 13) \div 13 IN [i \in 1 .. n + 1 |-> IF i = n + 1 THEN e ELSE Long(stored)]

(* The sectors fat_create writes: the window's first cluster, then the second, if there is one. *)
PutDirent(h, p, slots) ==
    LET c == p[1]
        n == h.d.fat[c]
        new == [i \in 1 .. 2 * Slots |->
                    IF i - p[2] + 1 \in DOMAIN slots THEN slots[i - p[2] + 1] ELSE Window(h.d, c)[i]]
        h1 == Put(h, [h.d EXCEPT !.slots[c] = [i \in 1 .. Slots |-> new[i]]])
    IN  IF n \in Clusters THEN Put(h1, [h1.d EXCEPT !.slots[n] = [i \in 1 .. Slots |-> new[Slots + i]]])
        ELSE IF p[2] + Len(slots) - 1 > Slots THEN Bad(h1, "torn") ELSE h1

FaultyDotFiles(c, parent) ==        \* writes the two entries only
    <<Short(".", c, 0, {"dir"}), Short("..", parent, 0, {"dir"})>>

DotFiles(c, parent) ==
    <<Short(".", c, 0, {"dir"}), Short("..", parent, 0, {"dir"})>> \o [i \in 1 .. Slots - 2 |-> Zero]

(* fat_create: returns the session and the place of the new entry, End for NULL. *)
CreateAt(h, p, name, stored, first, attr) ==
    [h |-> PutDirent(h, p, Dirent(name, stored, Short("DOSFILE", first, 0, attr))), at |-> p]

PutDotFiles(h, n, parent) ==
    LET h1 == PutFat(h, n, EOC) IN Put(h1, [h1.d EXCEPT !.slots[n] = DotFiles(n, parent)])

CreateFrom(h, start, p, n, name, stored, attr) ==
    IF start = End THEN [h |-> h, at |-> End]
    ELSE IF start = Lost \/ p \notin Places THEN [h |-> Bad(h, "lost"), at |-> End]
    ELSE IF "dir" \notin attr THEN CreateAt(h, p, name, stored, 0, attr)
    ELSE IF n = 0 THEN [h |-> Bad(h, "full"), at |-> End]
    ELSE CreateAt(PutDotFiles(h, n, IF start[1] = Root THEN 0 ELSE start[1]), p, name, stored, n, attr)

Create(h, dir, name, stored, attr) ==
    LET start == DirStart(h.d, dir)
    IN  CreateFrom(h, start, FreeSlot(h.d, start, Slots * LastCluster), Allocated(h.d), name, stored, attr)
=============================================================================
