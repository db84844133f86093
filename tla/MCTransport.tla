---------------------------- MODULE MCTransport ----------------------------
(* A session whose counter leaves exactly one value above the limit for   *)
(* each task, the tightest instance of TransportAssumption.                *)
EXTENDS Transport, TLC

Symmetry == Permutations(Senders)
=============================================================================
