----------------------------- MODULE MCAuthoring ------------------------------
(* Two workers on one level of two layouts, one folder to export to; one      *)
(* worker is enough where the operations need not overlap.                    *)
EXTENDS Authoring, TLC

CONSTANTS w1, w2, c1, c2, s1, s2, d1

Two == {w1, w2}
One == {w1}
MCCandidates == {c1, c2}
MCStreets == {s1, s2}
Symmetry == Permutations(Workers) \cup Permutations(MCCandidates)
==============================================================================
