---- MODULE MCHarvestWorker ----
(* Values for the constants of HarvestWorker that are not in the cfg.  *)
EXTENDS HarvestWorker, TLC

Symmetry == Permutations(Worker) \cup Permutations(Job)
====
