----------------------------- MODULE MCIdentity -----------------------------
(* Instances of Identity for TLC: alice and bob, whom the same operator    *)
(* onboards, so that they share an overlay path unless --config is given.  *)
EXTENDS Identity, TLC

CONSTANTS alice, bob, k1, k2, k3, p1, p2, home, other

MCOwnerOf == [k \in Keys |-> IF k = k3 THEN bob ELSE alice]
MCUserOf == [a \in Principals |-> alice]
OnePath == [a \in Principals |-> home]

AllDelete == [k \in Keys |-> "deletes"]
MixedCustody == [k \in Keys |-> IF k = k1 THEN "refuses" ELSE "deletes"]

Symmetry == Permutations(Procs)
=============================================================================
