----------------------------- MODULE MCWgConfig -----------------------------
(* Small instances of WgConfig: two prefixes, a and b, and b0, an address  *)
(* of b that a request or a file lists without masking it.                 *)
EXTENDS WgConfig, TLC

CONSTANTS a, b, b0

MCMasked == (a :> a) @@ (b :> b) @@ (b0 :> b)

MCAllowedIpSets == {{}, {a}, {a, b0}}

Symmetry == Permutations(PublicKeys)
=============================================================================
