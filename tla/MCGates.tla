------------------------------- MODULE MCGates -------------------------------
(* A candidate's site says everything itself, or leaves its markers and its   *)
(* structure to the shell; with neither built yet a lock protects nothing.    *)
(* The first run may end with any part of the candidates published.           *)
EXTENDS Gates, TLC

CONSTANTS c1, c2, vault, floor, stairs

Two == {c1, c2}
One == {c1}
Whole == [markers |-> {vault}, anchors |-> {}, ground |-> {}, structure |-> {stairs}]
Grounded == [Whole EXCEPT !.ground = {floor}]
Bare == [markers |-> {}, anchors |-> {}, ground |-> {}, structure |-> Omitted]
MCSiteOutputs == {Whole, Bare}
MCShellOutputs == {[markers |-> {vault}, anchors |-> {}, structure |-> {stairs}]}
JustWhole == {Whole}
WholeOrGrounded == {Whole, Grounded}
MCLayerSets == {{}, {"themed", "dressing", "handoff"}}
Symmetry == Permutations(Candidates)
==============================================================================
