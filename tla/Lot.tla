---------------------------------- MODULE Lot ----------------------------------
(***************************************************************************)
(* Which library buildings a candidate places: pick_lot, the rule for      *)
(* holes in floors, and the two ways in, lot_for (the planner, the compose *)
(* spec) and the site spec's own draw (packages/pipeline/                  *)
(* building_library.py, _write_site_spec).                                 *)
(*                                                                         *)
(* What the candidate's stream draws is any choice: no property is of one  *)
(* seed.  What Deli Counter's manifests say of a building (that it can     *)
(* wear a theme, that its floors have a hole) is part of the brief here.   *)
(***************************************************************************)
EXTENDS Naturals, Sequences, FiniteSets

CONSTANTS
    Briefs,       \* what may be asked of which library
    FamilyOf      \* library building -> its family

VARIABLES
    brief,   \* what is asked for, and of what library
    pool,    \* families not drawn yet
    lot,     \* the buildings drawn
    drawn,   \* history: the lot before the hole rule
    wanted,  \* whether the candidate's level carries a hole
    next,    \* the preferred family, or the place of the lot, that comes next
    at       \* what the draw is at

lotVars == <<brief, pool, lot, drawn, wanted, next, at>>

Of(list) == {list[i] : i \in 1..Len(list)}
Families(rows) == {FamilyOf[row] : row \in rows}
Variants(rows, fam) == {row \in rows : FamilyOf[row] = fam}

\* rows: the complete rows of the index; fit: those that can wear a theme; holed: those
\* with a hole; anchors: the families that answer to the archetype; preferred: the cluster
\* template's families; rate: how often a hole is wanted; for: lot_for or site_spec.
BriefOK(b) ==
    /\ b.rows \subseteq DOMAIN FamilyOf /\ IsFiniteSet(b.rows)
    /\ b.fit \subseteq b.rows /\ b.holed \subseteq b.rows
    /\ b.count \in Nat /\ b.rate \in {"never", "sometimes", "always"}
    /\ b.for \in {"lot_for", "site_spec"} /\ b.themed \in BOOLEAN

ASSUME BriefsAssumption == \A b \in Briefs : BriefOK(b)

\* The site spec narrows the library whatever is asked, lot_for for the themed callers.
Narrowed(b) == IF b.themed \/ b.for = "site_spec" THEN b.fit ELSE b.rows
Themed(b) == b.themed \/ b.for = "site_spec"

Entries == Narrowed(brief)
Places == brief.count

------------------------------------------------------------------------------
\* No lot of fewer than two buildings for lot_for; too few families refuse a themed lot.
Begin ==
    /\ at = "begin"
    /\ pool' = Families(Entries)
    /\ at' = IF brief.for = "lot_for" /\ Places < 2 THEN "done"
             ELSE IF Themed(brief) /\ Cardinality(Families(Entries)) < Places THEN "refused"
             ELSE IF Entries = {} \/ Places = 0 THEN "done"
             ELSE "anchor"
    /\ UNCHANGED <<brief, lot, drawn, wanted, next>>

Draw(row) == lot' = Append(lot, row)

DrawFrom(fam) ==
    /\ \E row \in Variants(Entries, fam) : Draw(row)
    /\ pool' = pool \ {fam}

\* The first place is the archetype's, when the library has a family for it.
DrawAnchor ==
    /\ at = "anchor"
    /\ IF brief.anchors \cap pool = {}
       THEN UNCHANGED <<pool, lot>>
       ELSE \E fam \in brief.anchors \cap pool : DrawFrom(fam)
    /\ at' = "preferred"
    /\ UNCHANGED <<brief, drawn, wanted, next>>

\* Then the template's families, in its order, those the library has.
DrawPreferred ==
    /\ at = "preferred"
    /\ IF next <= Len(brief.preferred) /\ Len(lot) < Places
       THEN /\ IF brief.preferred[next] \in pool
               THEN DrawFrom(brief.preferred[next])
               ELSE UNCHANGED <<pool, lot>>
            /\ next' = next + 1
            /\ UNCHANGED at
       ELSE /\ at' = "families"
            /\ UNCHANGED <<pool, lot, next>>
    /\ UNCHANGED <<brief, drawn, wanted>>

\* Then one of each family left.
DrawFamily ==
    /\ at = "families"
    /\ IF Len(lot) < Places /\ pool # {}
       THEN /\ \E fam \in pool : DrawFrom(fam)
            /\ UNCHANGED at
       ELSE /\ at' = "spare"
            /\ UNCHANGED <<pool, lot>>
    /\ UNCHANGED <<brief, drawn, wanted, next>>

\* Mutant of Spare: the buildings drawn already are not left out.
SpareAll == Entries

\* Variants not drawn.
Spare == Entries \ Of(lot)

\* With no family left, another variant of one, and with none left, any building again.
DrawSpare ==
    /\ at = "spare"
    /\ IF Len(lot) < Places
       THEN /\ \E row \in (IF Spare # {} THEN Spare ELSE Entries) : Draw(row)
            /\ UNCHANGED <<at, drawn, wanted, next>>
       ELSE /\ \E hole \in (CASE brief.rate = "never" -> {FALSE} [] brief.rate = "always" -> {TRUE}
                              [] OTHER -> BOOLEAN) : wanted' = hole
            /\ drawn' = lot
            /\ next' = 1
            /\ at' = IF wanted' /\ Of(lot) \cap brief.holed # {} THEN "done" ELSE "holes"
            /\ UNCHANGED lot
    /\ UNCHANGED <<brief, pool>>

\* Mutant of Alternatives: another family's building is one.
AlternativesOfAny(place) ==
    {row \in Entries \ Of(lot) : (row \in brief.holed) = wanted}

\* What a building may be swapped for: a sibling that is not placed, with a hole or
\* without as the level is to have it.
Alternatives(place) ==
    {row \in Variants(Entries, FamilyOf[lot[place]]) \ Of(lot) : (row \in brief.holed) = wanted}

\* apply_hole_rule, one place after another.
Swap ==
    /\ at = "holes"
    /\ IF next > Len(lot)
       THEN at' = "done" /\ UNCHANGED <<lot, next>>
       ELSE /\ IF (drawn[next] \in brief.holed) = wanted \/ Alternatives(next) = {}
               THEN UNCHANGED <<lot, at>>
               ELSE /\ \E row \in Alternatives(next) : lot' = [lot EXCEPT ![next] = row]
                    /\ at' = IF wanted THEN "done" ELSE at
            /\ next' = next + 1
    /\ UNCHANGED <<brief, pool, drawn, wanted>>

LotInit ==
    /\ brief \in Briefs
    /\ pool = {} /\ lot = <<>> /\ drawn = <<>> /\ wanted = FALSE /\ next = 1 /\ at = "begin"

LotNext == Begin \/ DrawAnchor \/ DrawPreferred \/ DrawFamily \/ DrawSpare \/ Swap

LotSpec == LotInit /\ [][LotNext]_lotVars

------------------------------------------------------------------------------
Least(m, n) == IF m < n THEN m ELSE n

\* A lot is as varied as its library allows, the archetype's building first: no family
\* comes twice while another is left, no building while another is left, and a themed
\* lot, whose buildings the planner names jobs after, repeats no family at all
\* (pick_lot: "no two from the same family"; require_themed_shells).
AsVariedAsCanBe ==
    at = "done" /\ lot # <<>> =>
        /\ Len(lot) = Places
        /\ Cardinality(Families(Of(lot))) = Least(Places, Cardinality(Families(Entries)))
        /\ Cardinality(Of(lot)) = Least(Places, Cardinality(Entries))
        /\ Themed(brief) => Cardinality(Families(Of(lot))) = Places
        /\ brief.anchors \cap Families(Entries) # {} => FamilyOf[lot[1]] \in brief.anchors

\* The rule for holes moves no family, and does all it can: a level without a hole wanted
\* keeps one only where a building has no sibling without, and one that is to have a hole
\* has it unless no building has a sibling with one (apply_hole_rule).
HolesAsWanted ==
    at = "done" /\ lot # <<>> =>
        /\ \A i \in 1..Len(lot) : FamilyOf[lot[i]] = FamilyOf[drawn[i]]
        /\ IF wanted
           THEN Of(lot) \cap brief.holed # {} \/ \A i \in 1..Len(lot) : Alternatives(i) = {}
           ELSE \A i \in 1..Len(lot) : lot[i] \in brief.holed => Alternatives(i) = {}
================================================================================
