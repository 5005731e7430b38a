---------------------------- MODULE MC_RssServer ----------------------------
(* RssServer for TLC: a few connection objects and short play loops.       *)
EXTENDS RssServer, TLC

\* Connection objects are interchangeable; sound for the safety properties.
Symmetry == Permutations(Conns)
=============================================================================
