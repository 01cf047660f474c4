----------------------------- MODULE MCMemfsFile -----------------------------
EXTENDS MemfsFile, TLC

Contents == {<<>>, <<1>>}
Symmetry == Permutations(Fds)
=============================================================================
