----------------------------- MODULE MCNetwork -----------------------------
EXTENDS Network

CONSTANT m1                 \* the peer's hardware address

Udp(from, mac, dport, len) == [k |-> "udp", from |-> from, mac |-> mac, sport |-> 1, dport |-> dport, len |-> len]
Other(k, from, mac) == [k |-> k, from |-> from, mac |-> mac]

MCFrames == {Udp(1, m1, 7, 256), Udp(1, m1, 8, 100), Other("answer", 1, m1), Other("request", 1, m1), Other("echo", 1, m1)}
MCTargets == {[addr |-> 1, port |-> 1]}
=============================================================================
