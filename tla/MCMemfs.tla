------------------------------ MODULE MCMemfs ------------------------------
EXTENDS MemfsNames, TLC

Symmetry == Permutations(Slots) \cup Permutations(Names) \cup Permutations(Files)
=============================================================================
