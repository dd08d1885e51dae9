--------------------------------- MODULE Plan ---------------------------------
(***************************************************************************)
(* The job graph of a mission (packages/pipeline/planner.py) and of a      *)
(* batch of missions (packages/pipeline/batch_planner.py), as functions of *)
(* what is asked for, ordered by JobGraph.                                 *)
(*                                                                         *)
(* A job id is <<mission, stage, which>>: which candidate or which         *)
(* building it is for, None for the mission's own.  The buildings a        *)
(* candidate places are drawn by Lot; here they are any set of them.       *)
(***************************************************************************)
EXTENDS JobGraph

CONSTANTS
    Missions,
    Candidates,   \* the candidates a mission can have
    Buildings,    \* the library: lot buildings and Empties
    None, NoAsk,  \* no candidate and no building; no plan
    Site,         \* the archetype the site's own kit is planned under
    BatchName,    \* what a batch's own job is named after
    Asks          \* what is asked for, by a single mission or a batch

Layers == {"art", "light", "gameplay"}

Distinct(list) == \A i, j \in 1..Len(list) : list[i] = list[j] => i = j

\* layers: the layers asked for; batch: whether the missions are planned as one batch;
\* mission: for each one, its candidates, the one selected, the lot drawn for it (empty:
\* the mission's own shell stands for it), the buildings placed that get roof props, and
\* its Empties.
MissionAsk == [candidates : SUBSET Candidates, selected : Candidates \cup {None},
               lot : Seq(Buildings), roofed : Seq(Buildings \cup {None}), empties : Seq(Buildings)]

AskOK(ask) ==
    /\ ask.batch \in BOOLEAN /\ ask.layers \subseteq Layers
    /\ DOMAIN ask.mission \subseteq Missions
    /\ \A m \in DOMAIN ask.mission :
          LET of == ask.mission[m] IN
          /\ of \in MissionAsk
          /\ Elements(of.roofed) \subseteq (IF of.lot = <<>> THEN {None} ELSE Elements(of.lot))
          /\ Distinct(of.roofed)

ASSUME PlanAssumption ==
    /\ IsFiniteSet(Missions) /\ IsFiniteSet(Candidates) /\ IsFiniteSet(Buildings)
    /\ None \notin Candidates /\ NoAsk \notin Asks
    /\ \A ask \in Asks : AskOK(ask)

VARIABLE asked   \* what the graph is the plan of; NoAsk, when it is a graph of its own

vars == <<asked, graphVars>>

------------------------------------------------------------------------------
(* plan_mission: the jobs.                                                 *)

CandidateStages == {"deli_generate", "lot_assemble", "walktest_navqa", "laser_tag_evaluate"}

\* Stages planned for each building placed, and for each Empty too.
LitStages == {"zoo_fixtures_build", "lux_fixture_gate"}
DressStages == {"zoo_kit_build", "patina_apply", "patina_dressing", "zoo_dressing_build"}

\* Stages planned once, with the art.
ArtStages == {"pixelcoat_build", "presentation_compose", "themed_site_assemble",
              "zoo_clutter_build", "lot_site_surfaces", "patina_surface_dressing"}

Placed(of) == IF of.lot = <<>> THEN <<None>> ELSE of.lot
Dressed(of) == Placed(of) \o of.empties

Base(of) == CandidateStages \X of.candidates

ArtJobs(of) ==
    (ArtStages \X {None}) \cup (DressStages \X Elements(Dressed(of)))
        \cup (LitStages \X Elements(Placed(of)))
        \cup ({"zoo_roof_props_build"} \X Elements(of.roofed)) \cup {<<"zoo_kit_build", Site>>}

Optional(layers, of) ==
    (IF "art" \in layers THEN ArtJobs(of) ELSE {})
        \cup (IF {"art", "light"} \subseteq layers THEN {<<"lux_apply", None>>} ELSE {})
        \cup (IF "gameplay" \in layers THEN {<<"dispatch_handoff", None>>} ELSE {})

\* Optional layers require a selected candidate.
Chosen(layers, of) == of.selected # None

PlanJobs(layers, of) == Base(of) \cup (IF Chosen(layers, of) THEN Optional(layers, of) ELSE {})

------------------------------------------------------------------------------
(* plan_mission: what each of them depends on.                             *)

Each(stage, buildings) == [i \in 1..Len(buildings) |-> <<stage, buildings[i]>>]

\* Mutant of Pieces: the Empties' dressings are not composed.
PiecesOfTheLot(of) ==
    << <<"deli_generate", of.selected>> >>
        \o Each("zoo_kit_build", Dressed(of)) \o Each("zoo_dressing_build", Placed(of))
        \o Each("zoo_fixtures_build", Placed(of)) \o Each("zoo_roof_props_build", of.roofed)

\* What the presentation is composed of.
Pieces(of) ==
    << <<"deli_generate", of.selected>> >>
        \o Each("zoo_kit_build", Dressed(of)) \o Each("zoo_dressing_build", Dressed(of))
        \o Each("zoo_fixtures_build", Placed(of)) \o Each("zoo_roof_props_build", of.roofed)

\* The lit site when it is lit, else the themed one, else the greybox.
DispatchOf(layers, of) ==
    IF "art" \notin layers THEN <<"lot_assemble", of.selected>>
    ELSE IF "light" \in layers THEN <<"lux_apply", None>>
    ELSE <<"themed_site_assemble", None>>

Needs(layers, of, stage, which) ==
    LET site == <<"lot_assemble", of.selected>>
        skins == <<"pixelcoat_build", None>>
    IN
    CASE stage = "deli_generate" -> <<>>
      [] stage = "lot_assemble" -> << <<"deli_generate", which>> >>
      [] stage \in {"walktest_navqa", "laser_tag_evaluate"} -> << <<"lot_assemble", which>> >>
      [] stage \in {"pixelcoat_build", "patina_apply", "lot_site_surfaces"} -> <<site>>
      [] stage \in {"zoo_kit_build", "zoo_roof_props_build", "zoo_clutter_build"} -> <<site, skins>>
      [] stage = "patina_dressing" -> << <<"patina_apply", which>> >>
      [] stage = "zoo_dressing_build" -> << <<"patina_dressing", which>>, <<"zoo_kit_build", which>> >>
      [] stage = "zoo_fixtures_build" -> << <<"deli_generate", of.selected>>, skins >>
      [] stage = "lux_fixture_gate" -> << <<"zoo_fixtures_build", which>> >>
      [] stage = "presentation_compose" -> Pieces(of)
      [] stage = "themed_site_assemble" -> << <<"presentation_compose", None>>, <<"zoo_kit_build", Site>> >>
      [] stage = "patina_surface_dressing" ->
            << <<"zoo_clutter_build", None>>, <<"lot_site_surfaces", None>>, <<"themed_site_assemble", None>> >>
      [] stage = "lux_apply" -> << <<"themed_site_assemble", None>> >>
      [] stage = "dispatch_handoff" -> << DispatchOf(layers, of) >>

\* What leaves no plan: light without art (normalize_layers), a selection that is no
\* candidate of the plan (a KeyError), and a building met twice (JobGraph.add).
Refused(layers, of) ==
    \/ "light" \in layers /\ "art" \notin layers
    \/ layers # {} /\ of.selected # None /\ of.selected \notin of.candidates
    \/ "art" \in layers /\ of.selected # None /\ ~Distinct(<<Site>> \o Dressed(of))

Id(m, job) == <<m, job[1], job[2]>>

DependsOn(layers, of, id) ==
    LET needs == Needs(layers, of, id[2], id[3]) IN [i \in 1..Len(needs) |-> Id(id[1], needs[i])]

------------------------------------------------------------------------------
(* plan_batch                                                              *)

\* Missions without a selection are skipped when anything beyond the base is asked for.
InBatch(ask) == {m \in DOMAIN ask.mission : ask.layers = {} \/ ask.mission[m].selected # None}

\* The one Pixelcoat job all its missions take their skins from.
Skins == <<BatchName, "pixelcoat_shared", None>>

Shares(ask) == ask.batch /\ "art" \in ask.layers

\* Mutant of Shared: the missions' Pixelcoat jobs are dropped and their dependents left.
SharedNot(ask, list) == list

\* The missions' own Pixelcoat jobs give way to the batch's.
Shared(ask, list) ==
    [i \in 1..Len(list) |-> IF Shares(ask) /\ list[i][2] = "pixelcoat_build" THEN Skins ELSE list[i]]

Planned(ask) == IF ask.batch THEN InBatch(ask) ELSE DOMAIN ask.mission

MissionJobs(ask) ==
    {id \in UNION {{Id(m, job) : job \in PlanJobs(ask.layers, ask.mission[m])} : m \in Planned(ask)} :
        Shares(ask) => id[2] # "pixelcoat_build"}

Answered(ask) == \A m \in Planned(ask) : ~Refused(ask.layers, ask.mission[m])

PlanOf(ask) ==
    [id \in MissionJobs(ask) \cup (IF Shares(ask) THEN {Skins} ELSE {}) |->
        IF Shares(ask) /\ id = Skins THEN <<>>
        ELSE Shared(ask, DependsOn(ask.layers, ask.mission[id[1]], id))]

------------------------------------------------------------------------------
\* A plan, or any other graph the order is asked of.
Init ==
    /\ \/ /\ asked \in {ask \in Asks : Answered(ask)}
          /\ graph = PlanOf(asked)
       \/ /\ asked = NoAsk
          /\ graph \in Graphs
    /\ Uncounted

Next == GraphNext /\ UNCHANGED asked

Spec == Init /\ [][Next]_vars

------------------------------------------------------------------------------
\* Whatever is asked for, and whatever was drawn, the plan can be ordered: no dependency
\* is missing, none goes round, and every job of it is in the order.
PlansAreOrdered == asked # NoAsk => verdict \notin {"unknown", "cycle"}

\* The jobs a job waits for, directly or not.
Behind(id) ==
    LET more(ids) == ids \cup UNION {Elements(graph[j]) : j \in ids}
        f[n \in 0..Cardinality(Jobs)] == IF n = 0 THEN Elements(graph[id]) ELSE more(f[n - 1])
    IN  f[Cardinality(Jobs)]

\* Jobs nothing waits for: the fixture gates, which block by what they report, and the
\* dressing of the ground, which the export lays beside the level.
Aside == {"lux_fixture_gate", "zoo_clutter_build", "lot_site_surfaces", "patina_surface_dressing"}

\* The job a mission's deliverable comes from.
Deliverable(ask, m) ==
    LET of == ask.mission[m]
        dispatch == <<m, "dispatch_handoff", None>>
    IN  IF "gameplay" \in ask.layers THEN dispatch ELSE Id(m, DispatchOf(ask.layers, of))

\* The deliverable of a mission has every piece planned for it behind it, and of the
\* candidates the selected one alone, whatever else is in the batch ("so the jobs planned
\* here are for the buildings that actually get placed", planner.py:335).
DeliverableHasItAll ==
    verdict = "ordered" /\ asked # NoAsk =>
        \A m \in {n \in Planned(asked) : asked.layers # {} /\ asked.mission[n].selected # None} :
            LET of == asked.mission[m]
                last == Deliverable(asked, m)
                behind == Behind(last) \cup {last}
                pieces == {id \in Jobs : id[1] = m /\ id[2] \notin CandidateStages \cup Aside}
                chosen == {<<m, "deli_generate", of.selected>>, <<m, "lot_assemble", of.selected>>}
            IN  behind = pieces \cup chosen \cup (IF Shares(asked) THEN {Skins} ELSE {})
==============================================================================
