---------------------------- MODULE MCJwksCache ----------------------------
(* Small instances of the signing-key cache for TLC. *)
EXTENDS JwksCache, TLC

MCSymmetry == Permutations(Callers) \cup Permutations(KeyIds)
=============================================================================
