---- MODULE MCKoladaSelection ----
EXTENDS KoladaSelection, TLC
====
