---- MODULE MCCompletionOutbox ----
EXTENDS CompletionOutbox, TLC
Symmetry == Permutations(Consumer)
====
