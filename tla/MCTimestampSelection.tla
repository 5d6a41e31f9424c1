---- MODULE MCTimestampSelection ----
EXTENDS TimestampSelection, TLC

Symmetry == Permutations(Dataset)
====
