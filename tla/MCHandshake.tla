---------------------------- MODULE MCHandshake ----------------------------
(* Two nodes that can be exchanged. *)
EXTENDS Handshake, TLC

Symmetry == Permutations(Nodes)
=============================================================================
