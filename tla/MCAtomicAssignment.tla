---- MODULE MCAtomicAssignment ----
EXTENDS AtomicAssignment, TLC
Symmetry == Permutations(Process) \cup Permutations(Bead) \cup Permutations(Pane)
====
