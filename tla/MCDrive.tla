------------------------------ MODULE MCDrive ------------------------------
(* An instance of Drive for TLC: two disks on one channel, a third on the other. *)
EXTENDS Drive

CONSTANTS hda, hdb, hdc, primary, secondary

Wiring == [d \in Disk |-> IF d = hdc THEN secondary ELSE primary]

\* Sectors of two units: 3..4 straddles the border where both digits change.
Ask(op, d, from, to) == [op |-> op, disk |-> d, from |-> from, to |-> to]

Mixed == {Ask("write", hda, 3, 4), Ask("read", hda, 3, 4), Ask("overwrite", hdb, 4, 5),
          Ask("write", hdc, 3, 3)}
=============================================================================
