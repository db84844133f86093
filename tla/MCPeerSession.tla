--------------------------- MODULE MCPeerSession ---------------------------
(* Small instances of PeerSession: every PeerState is created for one and  *)
(* the same public key, so that the second is the first added again.       *)
EXTENDS PeerSession, TLC

MCKeyOf == [p \in Peers |-> CHOOSE k \in PublicKeys : TRUE]

Symmetry == Permutations(Ids) \cup Permutations(Scopes)
            \cup Permutations(InterfaceKeys)
=============================================================================
