------------------------------ MODULE MCVirtSvc ------------------------------
\* Small instances of VirtSvc.
EXTENDS VirtSvc, TLC

Symmetry == Permutations(Vfs) \cup Permutations(L4Ports)
=============================================================================
