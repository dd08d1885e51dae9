------------------------------- MODULE MCPlanner -------------------------------
(* What is planned of a mission, its lot included: every behaviour is of a    *)
(* graph of jobs or of the draw of a lot, and the other stays as it began.    *)
(* Missions, candidates and buildings are numbers, which order the job ids as *)
(* their names do.  Three jobs of any dependencies stand for other graphs.    *)
(* The library has three families of two, two and one buildings, and lots are *)
(* of one to six places of it.                                                *)
EXTENDS Plan, Lot, SequencesExt, TLC

CONSTANT Pairs   \* layer sets a batch is planned with

MCNone == 0
MCSite == 19

Stages == <<"deli_generate", "dispatch_handoff", "laser_tag_evaluate", "lot_assemble",
            "lot_site_surfaces", "lux_apply", "lux_fixture_gate", "patina_apply",
            "patina_dressing", "patina_surface_dressing", "pixelcoat_build",
            "pixelcoat_shared", "presentation_compose", "themed_site_assemble",
            "walktest_navqa", "zoo_clutter_build", "zoo_dressing_build",
            "zoo_fixtures_build", "zoo_kit_build", "zoo_roof_props_build">>
Rank == [s \in Elements(Stages) |-> CHOOSE i \in 1..Len(Stages) : Stages[i] = s]

MCBefore(a, b) ==
    \/ a[1] < b[1]
    \/ a[1] = b[1] /\ Rank[a[2]] < Rank[b[2]]
    \/ a[1] = b[1] /\ a[2] = b[2] /\ a[3] < b[3]

Lots == {<<>>, <<11>>, <<12, 11>>}
Roofs(drew) == {<<>>} \cup {<<b>> : b \in Elements(IF drew = <<>> THEN <<0>> ELSE drew)} \cup {drew}

Missioned ==
    UNION {{[candidates |-> cands, selected |-> sel, lot |-> drew, roofed |-> roofed, empties |-> empties] :
                cands \in {{1}, {1, 2}}, sel \in {0, 1, 2}, roofed \in Roofs(drew), empties \in {<<>>, <<13>>, <<13, 11>>}}
            : drew \in Lots}

Singles == {[batch |-> FALSE, layers |-> layers, mission |-> [m \in {1} |-> choice]] :
                layers \in SUBSET Layers, choice \in Missioned}

BatchChoices == {c \in Missioned : c.candidates = {1, 2} /\ c.lot \in {<<>>, <<11>>} /\ c.empties \in {<<>>, <<13>>}
                                    /\ c.roofed = <<>>}
Batches == {[batch |-> TRUE, layers |-> layers, mission |-> mission] :
                layers \in Pairs, mission \in [{1, 2} -> BatchChoices]}

MCAsks == {ask \in Singles \cup Batches : AskOK(ask)}

Three == {<<9, "deli_generate", k>> : k \in 1..3}
MCGraphs == [Three -> {list \in SeqOf(Three \cup {<<9, "lot_assemble", 1>>}, 2) : TRUE}]

MCFamilyOf == ("bank_a1" :> "bank") @@ ("bank_a2" :> "bank") @@ ("deli_a1" :> "deli")
              @@ ("deli_a2" :> "deli") @@ ("arena_a1" :> "arena")

Library == DOMAIN MCFamilyOf

MCBriefs ==
    [rows : {Library, {"bank_a1", "deli_a1", "deli_a2"}}, fit : {Library, {"bank_a1", "bank_a2", "deli_a1"}},
     holed : SUBSET Library, count : 1..6, anchors : {{}, {"bank"}}, preferred : {<<>>, <<"deli", "marina", "bank">>},
     rate : {"never", "sometimes", "always"}, for : {"lot_for", "site_spec"}, themed : BOOLEAN]

BriefsOK == {b \in MCBriefs : b.fit \subseteq b.rows /\ b.holed \subseteq b.rows}

VARIABLE of   \* what this behaviour is of

plannerVars == <<vars, lotVars, of>>

\* No graph, and no draw: the first of each that may be asked for.
NoGraph == [j \in Three |-> <<>>]
NoBrief == CHOOSE b \in BriefsOK : b.count = 1

PlannerInit ==
    \/ /\ of = "plan" /\ brief = NoBrief
       /\ Init /\ LotInit
    \/ /\ of = "lot" /\ graph = NoGraph /\ asked = NoAsk
       /\ Init /\ LotInit

PlannerNext ==
    \/ of = "plan" /\ Next /\ UNCHANGED <<lotVars, of>>
    \/ of = "lot" /\ LotNext /\ UNCHANGED <<vars, of>>

PlannerSpec == PlannerInit /\ [][PlannerNext]_plannerVars
================================================================================
