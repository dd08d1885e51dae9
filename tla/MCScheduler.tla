---------------------------- MODULE MCScheduler -----------------------------
(***************************************************************************)
(* Scheduler on two job graphs of the shapes the planner makes.            *)
(*                                                                         *)
(* candidates: two candidates, each a shell job with two graders of it     *)
(* (Deli Counter -> Laser Tag, walktest; Lot is folded into the shell), and *)
(* one mission-level job, the shared texture build of a batch, feeding an  *)
(* art job of the first candidate.                                         *)
(***************************************************************************)
EXTENDS Scheduler, TLC

CONSTANTS shellA, laserA, walkA, artA, shellB, laserB, skins, candA, candB

JobsMC == {shellA, laserA, walkA, artA, shellB, laserB, skins}
DepsMC == shellA :> {} @@ shellB :> {} @@ skins :> {}
          @@ laserA :> {shellA} @@ walkA :> {shellA} @@ laserB :> {shellB}
          @@ artA :> {shellA, skins}
ClassMC == {"blender", "godot_headless", "python_cpu"}
ClassOfMC == shellA :> "blender" @@ shellB :> "blender" @@ artA :> "blender"
             @@ laserA :> "godot_headless" @@ walkA :> "godot_headless"
             @@ laserB :> "godot_headless" @@ skins :> "python_cpu"
CandidateMC == {candA, candB}
CandidateOfMC == shellA :> candA @@ laserA :> candA @@ walkA :> candA @@ artA :> candA
                 @@ shellB :> candB @@ laserB :> candB @@ skins :> None
\* python_cpu has no configured width: it runs under the default of 1, and
\* the pool is narrower than what the caps let in.
ConcurrencyMC == [c \in {"blender", "godot_headless"} |-> IF c = "blender" THEN 1 ELSE 2]

=============================================================================
