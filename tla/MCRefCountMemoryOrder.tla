------------------------ MODULE MCRefCountMemoryOrder ------------------------
EXTENDS RefCountMemoryOrder, TLC

HandleSymmetry == Permutations(Handle)
=============================================================================
