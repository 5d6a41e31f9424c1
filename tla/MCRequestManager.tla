---- MODULE MCRequestManager ----
(* Values for the constants of RequestManager that are not in the cfg.  *)
EXTENDS RequestManager, TLC

Symmetry == Permutations(Request)
====
