--------------------------- MODULE MCControlPlane ---------------------------
(* Two virtual functions for TLC.                                           *)
EXTENDS ControlPlane, TLC

CONSTANTS p1, p2, a, b, l1, l2

MCPortSeq == <<p1, p2>>

\* The interface ids are interchangeable, and so are the load balancers' addresses;
\* the ports are not, for their order
Symmetry == Permutations({a, b}) \cup Permutations({l1, l2})
=============================================================================
