------------------------- MODULE MCFrameworkRegistry -------------------------
(* A small instance of the framework registry for TLC, whose one overlay a  *)
(* policy reload may hide.                                                  *)
EXTENDS FrameworkRegistry, TLC

MCRequests == [op: {"register", "unregister", "reload"}, entry: [name: Names, path: Overlays]]

MCSymmetry == Permutations(Calls)
=============================================================================
