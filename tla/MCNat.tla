------------------------------- MODULE MCNat -------------------------------
(* Instances of Nat for TLC. *)
EXTENDS Nat, TLC

CONSTANTS i1, i2

\* the ranges overlap in one port
MCRanges == {<<1, 3>>, <<2, 3>>, <<2, 2>>}

MCHash == [s \in [iface : {i1, i2}, fam : {"v4", "v6"}, port : SrcPorts] |->
              IF s.fam = "v4" THEN 0 ELSE 3]

Symmetry == Permutations({i1, i2})

=============================================================================
