--------------------------- MODULE MCIndexRefresh ---------------------------
(* Small instances of the index refresh for TLC. *)
EXTENDS IndexRefresh, TLC

MCSymmetry == Permutations(Notes)
=============================================================================
