---- MODULE MCLedgerStore ----
EXTENDS LedgerStore, TLC
Symmetry == Permutations(Store)
====
