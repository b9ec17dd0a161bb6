---- MODULE MCApprovalGate ----
EXTENDS ApprovalGate, TLC
Symmetry == Permutations(User)
====
