----------------------------- MODULE MCPersist ------------------------------
EXTENDS Persist, TLC

CONSTANTS s1, s2

SlaveMC == {s1, s2}
SlaveSymmetry == Permutations(SlaveMC)
=============================================================================
