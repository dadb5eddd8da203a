--------------------------- MODULE MCPacketStore ---------------------------
(* Model-checking instance of PacketStore: a path without hops, one of two *)
(* hops and (where the run asks for it) one of three.                      *)
EXTENDS PacketStore, TLC

CONSTANTS short, long, longer

TwoPaths == {short, long}
ThreePaths == {short, long, longer}
MCPathLen ==
    [p \in Paths |-> CASE p = short -> 0 [] p = long -> 2 [] p = longer -> 3]
Symm == Permutations(Hashes)
=============================================================================
