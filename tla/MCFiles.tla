------------------------------ MODULE MCFiles ------------------------------
EXTENDS Files

CONSTANTS unitA, unitB  \* what is written

MCNameLen == [n \in {"BIG", "F", "dev", "disk0", "disk1", "longname"} |->
                CASE n = "F" -> 1 [] n \in {"BIG", "dev"} -> 3 [] n = "longname" -> 8 [] OTHER -> 5]
MCDiskName == [i \in 0 .. 1 |-> IF i = 0 THEN "disk0" ELSE "disk1"]
MCInputs == {<<unitB>>, <<unitA, unitB>>, <<unitB, unitA, unitB>>,
             <<unitB, unitA, unitA, unitB, unitB>>}
MCPaths == {<<"BIG">>, <<"/", "F">>, <<"longname">>, <<"dev", "/", "..", "/", "dev", "/", "F">>,
            <<"BIG", "/", "..">>, <<"dev", "/", "disk0", "/", "BIG">>, <<"dev", "/", "disk0", "/", "F">>,
            <<"dev", "disk1", "F">>}

\* A disk on which next[c] follows c, the clusters in ends are the last of a chain, and
\* slots[<<c, i>>] is the i-th slot of c.
MCDisk(next, ends, slots) ==
    [fat |-> [c \in 0 .. LastCluster |-> IF c \in DOMAIN next THEN next[c]
                                         ELSE IF c \in {0, 1} \union ends THEN EOC ELSE 0],
     slots |-> [c \in Clusters |-> [i \in 1 .. Slots |->
                   IF <<c, i>> \in DOMAIN slots THEN slots[<<c, i>>] ELSE Zero]],
     data |-> [c \in Clusters |-> [i \in 1 .. Units |-> IF c \in 3 .. 4 THEN unitA ELSE unitB]]]

Gone(c, some) == [q \in {c} \X some |-> Short("gone", 0, 0, {})]
Dots(c, parent) == <<c, 1>> :> Short(".", c, 0, {"dir"}) @@ <<c, 2>> :> Short("..", parent, 0, {"dir"})
DirAt(p, q, name, c) == p :> Long(name) @@ q :> Short("DOSFILE", c, 0, {"dir"})
Big(c, size) == <<2, 1>> :> Short("BIG", c, size, {})

\* The root directory has two clusters. It holds a file of two clusters and a deleted one, and
\* room for two entries of two slots before the border.
MCPlain == MCDisk(2 :> 11 @@ 3 :> 4, {4, 11}, Big(3, 3) @@ Gone(2, {2}))

\* /dev will go over the border, and the driver will look for its second half in a file of three clusters.
MCParted == MCDisk(2 :> 11 @@ 3 :> 4 @@ 4 :> 5, {5, 11}, Big(3, 5) @@ Gone(2, 2 .. 5))

\* Behind the root's first cluster lies what is left of a directory that was deleted.
MCLeftOver == MCDisk(2 :> 11, {11}, Gone(2, 1 .. 5) @@ Dots(3, 0))

\* The root's clusters are neighbours, with /dev over their border, and so are the first two of
\* the three clusters of a directory D, with a directory over each of the two borders.
MCDeep == MCDisk(2 :> 3 @@ 4 :> 5 @@ 5 :> 11, {3, 9, 10, 11},
                 DirAt(<<2, 1>>, <<2, 2>>, "D", 4) @@ Gone(2, 3 .. 5)
                 @@ Dots(4, 0) @@ Gone(4, 3 .. 5) @@ Gone(5, 2 .. 5)
                 @@ DirAt(<<4, 6>>, <<5, 1>>, "S", 10) @@ Dots(10, 4)
                 @@ DirAt(<<5, 6>>, <<11, 1>>, "T", 9) @@ Dots(9, 4))

MCFirstDisk == {MCPlain, MCParted, MCLeftOver, MCDeep}
=============================================================================
