--------------------------- MODULE MCContentCache ---------------------------
(***************************************************************************)
(* ContentCache with two fingerprints whose outputs share one file, and    *)
(* two jobs at once.                                                       *)
(***************************************************************************)
EXTENDS ContentCache, TLC

CONSTANTS f1, f2, a, b, c, w1, w2

FingerprintMC == {f1, f2}
ContentMC == {a, b, c}
OutputsMC == f1 :> {a, b} @@ f2 :> {b, c}
WorkerMC == {w1, w2}
WorkerSymmetry == Permutations(WorkerMC)
=============================================================================
