------------------------------- MODULE Files -------------------------------
(***************************************************************************)
(* The virtual file system (fs/fs.c) on FAT32, with the system calls that  *)
(* reach it: nodes, path walks, mount points, file descriptors, and the    *)
(* power going off between two writes to the disk.                         *)
(*                                                                         *)
(* A walk owns the node it allocates (id 0) until it leaves it in a        *)
(* descriptor; device nodes and the copies in mount points are shared by   *)
(* all walks, so they and the descriptors' nodes are kept in `nodes'.      *)
(* System calls on files run one at a time here.                           *)
(***************************************************************************)
EXTENDS Fat32, SequencesExt

CONSTANTS
    Inputs,         \* the sequences of units they write in one call
    ReadLens,       \* the lengths they read
    Paths,          \* the paths they open, "/" standing for any separators
    Drives,         \* how many FAT drives are found
    FirstDisk,      \* what the first drive holds before LemonOS ever ran
    DiskName,       \* the name of each drive's directory in /dev
    MaxSteps,       \* starts and calls together
    MaxFds

ASSUME FilesAssumption ==
    /\ Drives \subseteq Nat /\ MaxSteps \in Nat /\ ReadLens \subseteq Nat
    /\ \A d \in FirstDisk : IsDisk(d) /\ Consistent(d)
    /\ \A u \in Inputs : u \in Seq(ToSet(u))
    /\ \A p \in Paths : p \in Seq(STRING)

VARIABLES
    disk,           \* the first drive
    up,             \* fs_init is done
    nodes,          \* the nodes that outlive a walk
    devs,           \* device_nodes: id of the node, of the copy, number of the drive
    fds,            \* descriptors: id of the node, whether a mount point was passed
    drives,
    damage,         \* the reason for which the session of a call was bad
    content,        \* what the files hold, as far as calls say: set of [at, units]
    crashed,        \* the power went off in the middle of a call
    calls, boots

vars == <<disk, up, nodes, devs, fds, drives, damage, content, crashed, calls, boots>>

-----------------------------------------------------------------------------
Nothing == [at |-> <<Root, 1>>, root |-> FALSE, dev |-> FALSE, off |-> 0, fs |-> 0, mnt |-> FALSE, live |-> TRUE]

(* fs_path2node's first node. *)
Start == RootNode(Nothing)

(* The disk behind a node: what a mounter is asked for it passes on to its drive's file
   system. The other drives are empty: all their slots are zero. *)
DiskOf(h, n) == IF n.fs = 0 THEN h.d ELSE [h.d EXCEPT !.slots = [c \in Clusters |-> [i \in 1 .. Slots |-> Zero]]]

Null == -1
Begin == [d |-> disk, log |-> <<>>, bad |-> "none", sector |-> 0, cache |-> disk.fat,
          nodes |-> nodes, devs |-> devs, node |-> Start, id |-> 0, via |-> FALSE]
Fresh(h, n) == [h EXCEPT !.node = n, !.id = 0, !.via = FALSE]
Cur(h) == IF h.id = 0 THEN h.node ELSE h.nodes[h.id]
SetCur(h, n) == IF h.id = 0 THEN [h EXCEPT !.node = n] ELSE [h EXCEPT !.nodes[h.id] = n]
Free(h, id) == IF id = 0 THEN h ELSE [h EXCEPT !.nodes[id].live = FALSE]

(* fs_search_device. *)
SearchDevice(h) ==
    LET n == Cur(h)
        matching == {i \in DOMAIN h.devs : h.nodes[h.devs[i].id].at = n.at /\ n.fs = 0 /\ ~n.mnt}
    IN  IF \E i \in DOMAIN h.devs : ~h.nodes[h.devs[i].id].live THEN Bad(h, "freed")
        ELSE IF matching = {} THEN h
        ELSE [h EXCEPT !.id = h.devs[CHOOSE i \in matching : \A j \in matching : i <= j].id, !.via = TRUE]

(* mounter_search_node: the search starts from the mount point's copy of the drive's root. *)
EnterMount(h) ==
    LET i == CHOOSE i \in DOMAIN h.devs : h.devs[i].fs = Cur(h).fs
    IN  IF ~h.nodes[h.devs[i].copy].live THEN Bad(h, "freed")
        ELSE [h EXCEPT !.nodes[h.devs[i].copy] = [Start EXCEPT !.fs = Cur(h).fs],
                       !.id = h.devs[i].copy, !.via = TRUE]

(* fs_search. *)
Met(h) == IF Cur(h).dev THEN SearchDevice(h) ELSE h

Arrived(h, d, p) ==
    IF p = Lost THEN Bad(h, "lost")
    ELSE IF p = End THEN [h EXCEPT !.id = Null] ELSE Met(SetCur(h, NodeAt(Cur(h), d, p)))

SearchFrom(h, d, token) == IF h.bad # "none" THEN h ELSE Arrived(h, d, Search(d, Cur(h), token))

SearchStep(h, token) ==
    LET g == IF Cur(h).mnt THEN EnterMount(h) ELSE h
    IN  SearchFrom(g, DiskOf(g, Cur(g)), token)

(* fs_locate_dotfile, fs_node_backtrack. *)
Back(h, node) ==
    IF node.at = Lost THEN Bad(h, "lost") ELSE IF node.at = End THEN [h EXCEPT !.id = Null] ELSE SetCur(h, node)

DotStep(h, token) == IF token = "." THEN h ELSE Back(h, Backtrack(DiskOf(h, Cur(h)), Cur(h)))

(* One token of a path. fs_path2node frees the node from which a search failed, wherever it came from. *)
Step(h, token, freeing) ==
    IF h.id = Null \/ h.bad # "none" THEN h
    ELSE IF ~Cur(h).live THEN Bad(h, "freed")
    ELSE IF token \in {".", ".."} THEN DotStep(h, token)
    ELSE LET g == SearchStep(h, token)
         IN  IF g.id = Null /\ freeing THEN Free(g, h.id) ELSE g

(* fs_step_iterator: what lies between separators. *)
AddToken(tokens, t) == IF t = "/" THEN tokens ELSE Append(tokens, t)
Tokens(path) ==
    LET f[i \in 0 .. Len(path)] == IF i = 0 THEN <<>> ELSE AddToken(f[i - 1], path[i]) IN f[Len(path)]

(* The loops of fs_path2node and fs_path_touch, over the first n tokens. *)
Walk(h, tokens, n, freeing) ==
    LET f[i \in 0 .. n] == IF i = 0 THEN Fresh(h, Start) ELSE Step(f[i - 1], tokens[i], freeing) IN f[n]

Path2Node(h, path) == Walk(h, Tokens(path), Len(Tokens(path)), TRUE)

(* fs_create: the new node gets the file system of the directory. *)
Made(h, r) ==
    IF r.at = End THEN [r.h EXCEPT !.id = Null]
    ELSE [Fresh(r.h, [NodeAt(Cur(h), r.h.d, r.at) EXCEPT !.live = TRUE]) EXCEPT !.via = h.via]

CreateIn(h, name, stored, attr) ==
    IF Cur(h).fs # 0 THEN [h EXCEPT !.id = Null] ELSE Made(h, Create(h, Cur(h), name, stored, attr))

(* fs_path_touch: the directory's node is freed in any case, be it a device's. *)
Forget(h) == [(IF h.id = Null THEN h ELSE Free(h, h.id)) EXCEPT !.id = Null]

TouchIn(h, name, stored) ==
    IF h.id = Null \/ h.bad # "none" THEN h
    ELSE IF name \in {".", ".."} THEN Forget(Step(h, name, FALSE))
    ELSE Free(CreateIn(h, name, stored, {}), h.id)

PathTouch(h, path, stored) ==
    LET t == Tokens(path)
    IN  IF t = <<>> THEN [h EXCEPT !.id = Null]
        ELSE TouchIn(Walk(h, t, Len(t) - 1, FALSE), t[Len(t)], stored)

-----------------------------------------------------------------------------
(* Booting: fs_mount_others, which looks for every drive's directory from the
   node at which the search for the one before ended. *)

(* fs_mount, fs_attach_device. *)
Attach(h, i) ==
    LET id == Len(h.nodes) + 1
    IN  IF h.bad # "none" \/ h.id = Null THEN h
        ELSE [h EXCEPT !.nodes = @ \o <<[Cur(h) EXCEPT !.mnt = TRUE, !.fs = i], Start>>,
                       !.devs = Append(@, [id |-> id, copy |-> id + 1, fs |-> i])]

Mount(h, i) == Attach(Path2Node(h, <<"dev", DiskName[i]>>), i)

(* The next drive's directory is looked for in the one found, in /dev again when it had to
   be made, and where this one was when it could not be: that drive is not mounted. *)
DevAgain(h, dev) ==
    IF dev.bad # "none" THEN dev ELSE IF dev.id = Null THEN Bad(h, "lost") ELSE Fresh(h, Cur(dev))

MountMade(h, s, c, i) ==
    IF s.bad # "none" THEN s
    ELSE IF s.id # Null THEN Fresh(Mount(s, i), Cur(s))
    ELSE IF c.bad # "none" THEN c
    ELSE IF c.id = Null THEN h ELSE DevAgain(Mount(c, i), Path2Node(c, <<"dev">>))

MountNext(h, i) ==
    IF h.bad # "none" THEN h
    ELSE MountMade(h, Step(h, DiskName[i], FALSE), CreateIn(h, DiskName[i], DiskName[i], {"dir", "dev"}), i)

MountFrom(h, n) == LET f[i \in 0 .. n] == IF i = 0 THEN h ELSE MountNext(f[i - 1], i - 1) IN f[n]

MountOthers(h) ==
    LET dev == Path2Node(h, <<"dev">>)
    IN  MountFrom(IF dev.id # Null THEN dev ELSE CreateIn(Fresh(h, Start), "dev", "dev", {"dir"}), drives)

-----------------------------------------------------------------------------
Off == up' = FALSE /\ nodes' = <<>> /\ devs' = <<>> /\ fds' = <<>>

(* A call either ends, or the power goes off after one of its writes. *)
Ends(h) ==
    /\ disk' = h.d /\ nodes' = h.nodes /\ devs' = h.devs /\ damage' = h.bad
    /\ UNCHANGED <<drives, crashed>>

Crashes(h) ==
    /\ \E i \in 1 .. Len(h.log) : disk' = h.log[i]
    /\ crashed' = TRUE /\ damage' = h.bad
    /\ Off /\ UNCHANGED drives

Init ==
    /\ disk \in FirstDisk /\ drives \in Drives
    /\ up = FALSE /\ nodes = <<>> /\ devs = <<>> /\ fds = <<>>
    /\ damage = "none" /\ crashed = FALSE /\ calls = 0 /\ boots = 0
    /\ content = {}

(* fs_init. *)
Boot ==
    /\ ~up /\ boots + calls < MaxSteps /\ damage = "none"
    /\ \E h \in {MountOthers(Begin)} :
          \/ Ends(h) /\ up' = TRUE /\ fds' = <<>>
          \/ Crashes(h)
    /\ boots' = boots + 1
    /\ UNCHANGED <<content, calls>>

PowerOff == up /\ Off /\ UNCHANGED <<disk, drives, damage, content, crashed, calls, boots>>

Call == up /\ damage = "none" /\ boots + calls < MaxSteps /\ calls' = calls + 1 /\ UNCHANGED boots

FaultyDescriptor(h) ==          \* one node, allocated once, for all descriptors
    IF h.bad # "none" \/ h.id = Null THEN Ends(h) /\ UNCHANGED fds
    ELSE LET keep == IF h.id # 0 THEN h
                     ELSE IF fds = <<>> THEN [h EXCEPT !.nodes = Append(@, h.node), !.id = Len(h.nodes) + 1]
                     ELSE [h EXCEPT !.nodes[fds[1].id] = h.node, !.id = fds[1].id]
         IN  /\ Ends(keep)
             /\ fds' = Append(fds, [id |-> keep.id, via |-> h.via])

(* The end of open and creat: the node goes into a descriptor. *)
Descriptor(h) ==
    IF h.bad # "none" \/ h.id = Null THEN Ends(h) /\ UNCHANGED fds
    ELSE LET keep == IF h.id = 0 THEN [h EXCEPT !.nodes = Append(@, h.node), !.id = Len(h.nodes) + 1] ELSE h
         IN  /\ Ends(keep)
             /\ fds' = Append(fds, [id |-> keep.id, via |-> h.via])

Touched(h, path) ==
    \E stored \in NameStored(Last(<<"">> \o Tokens(path))) :
        \E g \in {PathTouch(h, path, stored)} :
            \/ Descriptor(g) /\ UNCHANGED up
            \/ Crashes(g)

(* creat_linux_syscall. *)
CreatFile(path) ==
    /\ Call /\ Len(fds) < MaxFds
    /\ Touched(Begin, path)
    /\ UNCHANGED content

(* open_linux_syscall: a path that leads nowhere is touched. *)
OpenFile(path) ==
    /\ Call /\ Len(fds) < MaxFds
    /\ \E h \in {Path2Node(Begin, path)} :
          \/ /\ h.id # Null \/ h.bad # "none"
             /\ Descriptor(h) /\ UNCHANGED up
          \/ /\ h.id = Null /\ h.bad = "none"
             /\ Touched(h, path)
    /\ UNCHANGED content

Node(i) == nodes[fds[i].id]

(* A descriptor whose node was freed with a mount point is used. *)
UseFreed(i) ==
    /\ Call /\ ~Node(i).live
    /\ damage' = "freed"
    /\ UNCHANGED <<disk, up, nodes, devs, fds, drives, content, crashed>>

(* file_read_fd. *)
ReadFd(i, len) ==
    /\ Call /\ Node(i).live
    /\ nodes' = [nodes EXCEPT ![fds[i].id].off = @ + Len(ReadFile(DiskOf(Begin, Node(i)), Node(i), len))]
    /\ UNCHANGED <<disk, up, devs, fds, drives, damage, content, crashed>>

(* file_write_fd. *)
WriteFd(i, input) ==
    /\ Call /\ Node(i).live /\ Node(i).fs = 0
    /\ \E h \in {WriteFile(Begin, Node(i), input)}, others \in {{x \in content : x.at # Node(i).at}} :
          \/ /\ Ends(h) /\ UNCHANGED <<up, fds>>
             /\ content' = IF h.log = <<>> \/ Node(i).off # 0 THEN others
                           ELSE others \union {[at |-> Node(i).at, units |-> input]}
          \/ Crashes(h) /\ content' = others

Next ==
    \/ Boot
    \/ PowerOff
    \/ \E p \in Paths : OpenFile(p) \/ CreatFile(p)
    \/ \E i \in DOMAIN fds :
          \/ UseFreed(i)
          \/ \E n \in ReadLens : ReadFd(i, n)
          \/ \E u \in Inputs : WriteFd(i, u)

Spec == Init /\ [][Next]_vars

-----------------------------------------------------------------------------
Damages == {"none", "stale", "full", "cut", "lost", "torn", "freed"}

TypeOK ==
    /\ IsDisk(disk)
    /\ \A i \in DOMAIN fds : fds[i].id \in DOMAIN nodes
    /\ \A i \in DOMAIN devs : {devs[i].id, devs[i].copy} \subseteq DOMAIN nodes
    /\ damage \in Damages
    /\ {up, crashed} \subseteq BOOLEAN /\ boots + calls \in 0 .. MaxSteps

InDirectory(d, c) ==
    {p \in ToSet(Listing(d, <<c, 1>>)) : p \in Places /\ ~Hidden(Entry(d, p))}
IsDir(d, p) == "dir" \in Entry(d, p).attr /\ Entry(d, p).first \in Clusters

(* The entries found so far and those one directory deeper. *)
Deeper(d, t) ==
    [all |-> t.all \union t.new,
     new |-> UNION {InDirectory(d, Entry(d, p).first) : p \in {p \in t.new : IsDir(d, p)}}]
Tree(d, root) ==
    LET f[i \in 0 .. LastCluster] ==
            IF i = 0 THEN [all |-> {}, new |-> InDirectory(d, root)] ELSE Deeper(d, f[i - 1])
    IN  f[LastCluster].all

ChainOf(d, c) ==
    LET from[x \in Int \X (0 .. LastCluster)] ==
            IF x[1] \notin Clusters \/ x[2] = 0 THEN <<>> ELSE <<x[1]>> \o from[<<d.fat[x[1]], x[2] - 1>>]
    IN  from[<<c, LastCluster>>]
Used(d, p) == ToSet(ChainOf(d, Entry(d, p).first))
Ends0(d, c) == c = 0 \/ d.fat[Last(ChainOf(d, c))] = EOC

(* As long as no call ran into one of the damages, whenever the power goes off: the
   chains of all entries end, lie apart from each other and from the root's, and
   hold no cluster the table calls free (fat_alloc_cluster before the entry that
   leads to the cluster, in fat_write and fat_create). *)
ChainsApart ==
    damage = "none" =>
        LET T == Tree(disk, Root)
        IN  /\ \A p \in T : Ends0(disk, Entry(disk, p).first) /\ Used(disk, p) \cap ToSet(ChainOf(disk, Root)) = {}
            /\ \A p, q \in T : p # q => Used(disk, p) \cap Used(disk, q) = {}

(* The clusters in chains, and the ones that are taken but in none. *)
Kept(d) == ToSet(ChainOf(d, Root)) \union UNION {Used(d, p) : p \in Tree(d, Root)}
Leaked(d) == {c \in Clusters : d.fat[c] # 0} \ Kept(d)

(* fat_search_node, fat_create and fat_backtrack read a directory's entry and what lies
   behind it on the disk (fat32.c:272, 608): right unless it goes on in another cluster. *)
Together(d, p) == ShortAt(d, p)[1] \in {p[1], p[1] + 1}

(* So the entry at p, be it a file's or torn, is taken for a directory that is in no chain. *)
Astray(d, p) ==
    LET start == Inside(EntryOnDisk(d, p))
    IN  ~Together(d, p) /\ start \in Places /\ start[1] \notin Kept(d)

(* No boot and no call that ends leaks a cluster, on a disk with the leaks of earlier crashes
   too: what fat_alloc_cluster took is in the chain of an entry that can be found from the
   root. Except what is created in an entry that is taken for a freed directory. *)
NothingLeaks ==
    [][up' /\ damage' = "none" /\ (\A p \in Tree(disk', Root) : ~Astray(disk', p))
           => Leaked(disk') \subseteq Leaked(disk)]_vars

(* Which part of a file of `size' units fat_read reads right. Begun at a cluster's border, it
   copies no more than is left, but the last part from one cluster, however long that part is.
   Begun elsewhere, it takes the file to be longer by what lies before it in the cluster. *)
ReadsRight(off, len, size) ==
    IF off % Units = 0 THEN len <= Units \/ size - off <= Units \/ off + len < size
                       ELSE off + len <= size

(* What a call has written is what later reads return, wherever in the file they begin and
   end, in the same cluster or another, whatever else is created, written, crashes or boots
   meanwhile. *)
ReadsBack ==
    damage = "none" =>
        \A x \in content : \A off \in 0 .. Len(x.units) - 1, len \in 1 .. Len(x.units) + 1 :
            ReadsRight(off, len, Len(x.units)) =>
                ReadFile(disk, [Start EXCEPT !.root = FALSE, !.at = x.at, !.off = off], len)
                    = SubSeq(x.units, off + 1, Lesser(off + len, Len(x.units)))

(* ".." leads back: fat_backtrack, which has only cluster numbers to go by, finds the entry
   of the directory fat_search_node came from, in whichever of its directory's clusters that
   entry lies and even if it goes over their border. The one entry that must lie together
   is that of the directory the walk is in. *)
DotDotLeadsBack ==
    damage = "none" =>
        \A p \in Tree(disk, Root) : IsDir(disk, p) =>
            \A q \in InDirectory(disk, Entry(disk, p).first) : IsDir(disk, q) /\ Together(disk, q) =>
                Backtrack(disk, NodeAt(Start, disk, q)).at = p

(* What main() lists after booting. *)
ListFrom(d, p) ==
    LET from[x \in Spots \X (0 .. Slots * LastCluster)] ==
            IF x[1] \in {End, Lost} \/ x[2] = 0 THEN <<x[1]>>
            ELSE <<x[1]>> \o from[<<Iterate(d, x[1]), x[2] - 1>>]
    IN  from[<<p, Slots * LastCluster>>]

(* main()'s walk with fat_get_child and fat_iterate shows every entry of the root
   directory once, over both its clusters, whatever was created or cut off by a crash. It
   runs off the end only if the last entry is a deleted one, or the directory is full. *)
ListingWhole ==
    damage = "none" =>
        LET all == Listing(disk, <<Root, 1>>)
            list == ListFrom(disk, GetChild(disk, Start))
        IN  /\ ToSet(list) \ {End, Lost} = InDirectory(disk, Root)
            /\ \A i, j \in DOMAIN list : i # j => list[i] # list[j]
            /\ Last(list) = Lost =>
                   Last(all) = Lost \/ (Len(all) > 1 /\ Hidden(Entry(disk, all[Len(all) - 1])))

(* Booting settles: fs_mount_others, which looks for each drive's directory from where
   the search for the one before has led it, creates nothing once it has run as often as
   there are drives. *)
BootSettles ==
    [][boots >= drives /\ boots' > boots /\ calls = 0 /\ ~crashed => disk' = disk /\ damage' = "none"]_vars

(* How many clusters from a file's beginning a write of n units at off goes: one that
   begins within a cluster leaves it, even if there is room for more. *)
Reach(off, n) == IF off % Units # 0 /\ (off % Units) + n < Units THEN off \div Units + 2
                 ELSE (off + n) \div Units + 1

(* The file or directory at p has its entry in the directory's chain. *)
HasEntry(d, p) == ShortAt(d, p) \in Places /\ ~Hidden(Entry(d, p))

(* A write that ends in the cluster the file's chain ends in, or in the first one
   of a file without clusters, does no damage. All others do, unless the chain
   goes on in another sector of the table. *)
WritesWithinChain ==
    [][\A i \in DOMAIN fds, u \in Inputs :
        LET e == Entry(disk, Node(i).at)
        IN  damage' \notin {"none", "full"} /\ HasEntry(disk, Node(i).at) /\ ~Node(i).root /\ WriteFd(i, u)
                => Reach(Node(i).off, Len(u)) # (IF e.first = 0 THEN 1 ELSE Len(ChainOf(disk, e.first)))]_vars

(* A descriptor that was not reached through a mount point keeps its file, whatever other paths are walked. *)
DescriptorsKeepTheirFile ==
    [][\A i \in DOMAIN fds : up' /\ ~fds[i].via => nodes'[fds'[i].id].at = nodes[fds[i].id].at]_vars
=============================================================================
