------------------------------ MODULE MCCapture ------------------------------
(* Interchangeable virtual functions and sinks for TLC.                     *)
EXTENDS Capture, TLC

CONSTANTS vf1, vf2, s1, s2

Symmetry == Permutations({vf1, vf2}) \cup Permutations({s1, s2})
=============================================================================
