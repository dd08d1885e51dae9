--------------------------- MODULE AuthoringProofs ---------------------------
(***************************************************************************)
(* A level made through the service by any number of workers at once, each *)
(* stopped or killed anywhere: what is saved, what a walk's record says of *)
(* a package and what is exported.                                         *)
(*                                                                         *)
(* Everything rests on one argument.  Two operations that are in progress  *)
(* at once know of each other (beside), and every file is written by a few *)
(* kinds of operation only.  So an operation that no such kind ran beside  *)
(* finds a file as it left it.                                             *)
(***************************************************************************)
EXTENDS Authoring, TLAPS

------------------------------------------------------------------------------
(* Types.                                                                  *)

Ops == {"idle", "save", "generate", "choose", "walk", "export"}
Dressing == {"art", "dressing", "preview", "packing", "packed", "check"}
Copying == {"copy", "copying", "rename", "tell"}
Ats == {"idle", "write", "import", "run", "building", "record", "approve"} \cup Dressing \cup Copying

Maybe == Candidates \cup {None}
Docs == [revision : Revisions, streets : Streets, edits : SUBSET Nat, raced : BOOLEAN]
Arts == [layout : Maybe, doc : Docs \cup {None}]
Packages == [stage : {"begun", "entered", "whole"}, layout : Maybe, art : Arts \cup {None},
             dressing : Arts \cup {None}, walk : Nat]
Walks == [layout : Maybe, walk : Nat, beside : SUBSET Ops]
Staged == [by : Nat, copied : BOOLEAN, package : Packages]
Snapshots == [revision : Revisions, walk : Walks, copied : BOOLEAN, package : Packages, beside : SUBSET Ops]
Operations == [op : Ops, at : Ats, id : Nat, doc : Docs \cup {None}, brief : Docs \cup {None},
               chosen : Maybe, walk : Maybe \cup Walks, dest : Destinations \cup {None}, beside : SUBSET Ops]

FilesType ==
    /\ design \in Docs /\ opened \in [Workers -> Docs]
    /\ request \in Docs \cup {None} /\ imported \in Docs \cup {None}
    /\ marker \in Maybe /\ art \in Arts \cup {None} /\ dressing \in Arts \cup {None}
    /\ package \in Packages \cup {None}
    /\ generated \in [Revisions -> Docs \cup {None}]
    /\ walked \in [Revisions -> Walks \cup {None}]
    /\ staging \in [Destinations -> Staged \cup {None}]
    /\ snapshots \in [Destinations -> Snapshots \cup {None}]
    /\ operations \in Nat

------------------------------------------------------------------------------
(* The workers.                                                            *)

\* Where an operation of each kind can be, and what it has read by then.
Place(as) ==
    /\ as.op = "idle" <=> as.at = "idle"
    /\ as.op = "save" <=> as.at = "write"
    /\ as.op = "choose" <=> as.at = "approve"
    /\ as.op = "export" <=> as.at \in Copying
    /\ as.at = "record" => as.op = "generate"
    /\ as.at \in {"import", "run", "building"} => as.op \in {"generate", "walk"}
    /\ as.at \in Dressing => as.op = "walk"
    /\ as.op \in {"save", "generate", "walk", "export"} => as.doc \in Docs
    /\ as.op = "walk" => as.walk \in Maybe
    /\ as.op = "export" => as.walk \in Walks /\ as.dest \in Destinations

Busy(w) == worker[w].op # "idle"

\* Operations in progress have numbers of their own and know of each other.
WorkersInv ==
    /\ worker \in [Workers -> Operations]
    /\ \A w \in Workers : Place(worker[w])
    /\ \A w \in Workers : Busy(w) => worker[w].id \in 1..operations
    /\ \A v, w \in Workers :
          v # w /\ Busy(v) /\ Busy(w) => worker[v].id # worker[w].id /\ worker[v].op \in worker[w].beside
    /\ \A w \in Workers : worker[w].at \in {"packing", "packed", "check"} => package \in Packages

------------------------------------------------------------------------------
(* The files, by who writes them.                                          *)

\* A save no other ran beside is of the design as it still stands, and what was opened at
\* the revision of an unraced design is that design.
Saves(w) ==
    /\ worker[w].doc.edits \subseteq 1..operations
    /\ "save" \notin worker[w].beside =>
          worker[w].doc.revision = design.revision + 1 /\ worker[w].doc.raced = design.raced
    /\ ~worker[w].doc.raced => worker[w].doc.edits \ {worker[w].id} = opened[w].edits

Shows(w) ==
    ~design.raced =>
        /\ opened[w].revision <= design.revision
        /\ opened[w].revision = design.revision => opened[w].edits = design.edits

SaveInv ==
    /\ design.edits \subseteq 1..operations
    /\ \A w \in Workers : worker[w].op = "save" => Saves(w)
    /\ \A w \in Workers : Shows(w)

\* A walk beside which nothing was generated, chosen or walked.
Alone(w) == worker[w].op = "walk" /\ worker[w].beside \cap Together = {}

\* Such a walk finds what it left: the request, the brief, the art and the package are of
\* the design it read and the layout that was chosen.
Finds(w) ==
    LET as == worker[w]
        its == [layout |-> as.chosen, doc |-> as.doc]
    IN
    /\ marker = as.chosen
    /\ Generations # {} => Latest.streets = as.doc.streets
    /\ as.at = "import" => request = as.doc
    /\ as.at \in {"run", "building", "art"} => imported = as.doc
    /\ as.at = "dressing" => as.brief = as.doc /\ as.walk = as.chosen
    /\ as.at = "preview" => art = its
    /\ as.at \in {"packing", "packed", "check"} =>
          /\ package.layout = as.chosen /\ package.art = its /\ package.walk = as.id
          /\ as.at = "check" => package.stage = "whole"

WalkInv == \A w \in Workers : Alone(w) => Finds(w)

\* What a record says of a package, where the package is still the walk's.
Truth(p, rec, r) ==
    p.walk = rec.walk /\ rec.beside \cap Together = {} =>
        /\ p.layout = rec.layout /\ p.art.layout = rec.layout
        /\ p.art.doc.revision = r
        /\ p.stage = "whole"

\* A record of a walk that is over, which no walk in progress is.
Kept(rec, r) ==
    /\ rec \in Walks /\ rec.walk \in 1..operations
    /\ \A w \in Workers : worker[w].op = "walk" => worker[w].id # rec.walk
    /\ package \in Packages /\ Truth(package, rec, r)

RecordsInv ==
    /\ \A r \in Revisions : walked[r] # None => Kept(walked[r], r)
    /\ \A w \in Workers : worker[w].op = "export" => Kept(worker[w].walk, worker[w].doc.revision)

\* An export beside which no other ran finds its own copy staged.
OwnCopy(w) ==
    LET staged == staging[worker[w].dest] IN
    /\ worker[w].at = "copying" => staged \in Staged /\ staged.by = worker[w].id
    /\ worker[w].at = "rename" => staged \in Staged /\ staged.copied

CopyInv == \A w \in Workers : worker[w].op = "export" /\ "export" \notin worker[w].beside => OwnCopy(w)

\* Whatever is staged where an export is copying to, its record is true of.
StagedInv ==
    \A w \in Workers : worker[w].at \in {"copying", "rename"} =>
        LET staged == staging[worker[w].dest] IN
        staged # None => Truth(staged.package, worker[w].walk, worker[w].doc.revision)

SnapshotsInv ==
    \A d \in Destinations : snapshots[d] # None =>
        /\ snapshots[d].copied \/ "export" \in snapshots[d].beside
        /\ Truth(snapshots[d].package, snapshots[d].walk, snapshots[d].revision)

AuthoringInv ==
    /\ FilesType /\ WorkersInv
    /\ SaveInv /\ WalkInv /\ RecordsInv /\ CopyInv /\ StagedInv /\ SnapshotsInv

------------------------------------------------------------------------------
(* What a step may do.                                                     *)

Acts(w) ==
    \/ Step(w)
    \/ \E streets \in Streets : BeginSave(w, streets)
    \/ BeginGenerate(w)
    \/ \E c \in Candidates : BeginChoose(w, c)
    \/ BeginWalk(w)
    \/ \E dest \in Destinations : BeginExport(w, dest)

\* To an operation that did not take the step: at most another is beside it.
Stays(v) ==
    /\ worker'[v].op = worker[v].op /\ worker'[v].at = worker[v].at /\ worker'[v].id = worker[v].id
    /\ worker'[v].doc = worker[v].doc /\ worker'[v].brief = worker[v].brief
    /\ worker'[v].chosen = worker[v].chosen /\ worker'[v].walk = worker[v].walk
    /\ worker'[v].dest = worker[v].dest
    /\ worker[v].beside \subseteq worker'[v].beside

Others(w) == \A v \in Workers : v # w => Stays(v)

\* To the files, by the kind of operation that took it.
Leaves(w) ==
    /\ \A v \in Workers : v # w => opened'[v] = opened[v]
    /\ opened'[w] \in {opened[w], design'}
    /\ design' = design \/ WriteDesign(w)
    /\ worker[w].op \notin Together /\ worker'[w].op \notin Together =>
          UNCHANGED <<request, imported, marker, art, dressing, generated>>
    /\ worker[w].op # "walk" => package' = package
    /\ package' = package \/ BeginPackage(w) \/ EnterPackage(w) \/ FinishPackage(w)
    /\ walked' = walked \/ RecordWalk(w)
    /\ worker[w].op # "export" => staging' = staging
    /\ staging' = staging \/ BeginCopy(w) \/ EndCopy(w) \/ Rename(w)
    /\ snapshots' = snapshots \/ Rename(w)
    /\ package \in Packages => package' \in Packages
    /\ operations' \in {operations, operations + 1}

\* The steps that leave an operation of each kind in progress.
Own(w) ==
    /\ worker'[w].op = "save" => \E streets \in Streets : BeginSave(w, streets)
    /\ worker'[w].op = "walk" =>
          \/ BeginWalk(w)
          \/ Import(w) \/ BeginRun(w) \/ EndRun(w) \/ BeginArt(w) \/ EndArt(w)
          \/ BreakArt(w) \/ BeginPackage(w) \/ EnterPackage(w) \/ FinishPackage(w)
    /\ worker'[w].op = "export" =>
          \/ \E dest \in Destinations : BeginExport(w, dest)
          \/ BeginCopy(w) \/ EndCopy(w) \/ Rename(w)

\* A worker's operation goes on, or is over.
LEMMA Moves ==
    ASSUME WorkersInv, operations \in Nat, operations' = operations,
           NEW w \in Workers, NEW r \in Operations, Place(r),
           r.op # "idle" => /\ r.op = worker[w].op /\ r.id = worker[w].id
                            /\ r.beside = worker[w].beside,
           r.at \in {"packing", "packed", "check"} => package' \in Packages,
           package \in Packages => package' \in Packages,
           worker' = [worker EXCEPT ![w] = r]
    PROVE  WorkersInv' /\ Others(w) /\ worker'[w] = r
<1>1. worker \in [Workers -> Operations]
  BY DEF WorkersInv
<1>2. worker'[w] = r /\ \A v \in Workers : v # w => worker'[v] = worker[v]
  BY <1>1
<1>3. worker' \in [Workers -> Operations]
  BY <1>1
<1>4. Others(w)
  BY <1>2 DEF Others, Stays
<1>5. \A v \in Workers : Place(worker'[v])
  BY <1>2 DEF WorkersInv
<1>6. \A v \in Workers : Busy(v)' => worker'[v].id \in 1..operations'
  BY <1>2 DEF WorkersInv, Busy
<1>7. \A u, v \in Workers :
        u # v /\ Busy(u)' /\ Busy(v)' => worker'[u].id # worker'[v].id /\ worker'[u].op \in worker'[v].beside
  <2> SUFFICES ASSUME NEW u \in Workers, NEW v \in Workers, u # v, Busy(u)', Busy(v)'
               PROVE  worker'[u].id # worker'[v].id /\ worker'[u].op \in worker'[v].beside
    OBVIOUS
  <2>1. Busy(u) /\ Busy(v) /\ worker'[u].id = worker[u].id /\ worker'[v].id = worker[v].id
        /\ worker'[u].op = worker[u].op /\ worker'[v].beside = worker[v].beside
    BY <1>2 DEF Busy
  <2> QED
    BY <2>1 DEF WorkersInv
<1>8. \A v \in Workers : worker'[v].at \in {"packing", "packed", "check"} => package' \in Packages
  BY <1>2 DEF WorkersInv
<1> HIDE DEF Place
<1> QED
  BY <1>2, <1>3, <1>4, <1>5, <1>6, <1>7, <1>8 DEF WorkersInv

\* An operation begins, and those in progress learn of it.
LEMMA Begins ==
    ASSUME WorkersInv, operations \in Nat, package' = package,
           NEW w \in Workers, NEW as \in Operations, Place(as), as.op # "idle",
           as.at \notin {"packing", "packed", "check"},
           Began(w, as)
    PROVE  /\ WorkersInv' /\ Others(w) /\ operations' = operations + 1 /\ worker[w] = Idle
           /\ worker'[w].op = as.op /\ worker'[w].at = as.at /\ worker'[w].id = operations + 1
           /\ worker'[w].doc = as.doc /\ worker'[w].chosen = as.chosen /\ worker'[w].walk = as.walk
           /\ worker'[w].dest = as.dest
           /\ worker'[w].beside = {worker[u].op : u \in Active}
<1> DEFINE mine == [as EXCEPT !.id = operations + 1, !.beside = {worker[u].op : u \in Active}]
<1> DEFINE theirs(v) == IF v \in Active THEN [worker[v] EXCEPT !.beside = @ \cup {as.op}] ELSE worker[v]
<1>1. worker \in [Workers -> Operations] /\ as.op \in Ops /\ \A v \in Workers : worker[v] \in Operations /\ worker[v].op \in Ops
  BY DEF WorkersInv, Operations
<1>2. /\ operations' = operations + 1 /\ worker[w] = Idle
      /\ worker' = [v \in Workers |-> IF v = w THEN mine ELSE theirs(v)]
  BY DEF Began
<1>3. worker'[w] = mine /\ \A v \in Workers : v # w => worker'[v] = theirs(v)
  BY <1>2
<1>4. {worker[u].op : u \in Active} \in SUBSET Ops
  BY <1>1 DEF Active
<1>5. /\ mine \in Operations /\ mine.op = as.op /\ mine.at = as.at /\ mine.id = operations + 1
      /\ mine.doc = as.doc /\ mine.chosen = as.chosen /\ mine.walk = as.walk /\ mine.dest = as.dest
      /\ mine.beside = {worker[u].op : u \in Active}
  <2> DEFINE known == {worker[u].op : u \in Active}
  <2> DEFINE numbered == [as EXCEPT !.id = operations + 1]
  <2>1. operations + 1 \in Nat /\ known \in SUBSET Ops
    BY <1>4
  <2>2. mine = [numbered EXCEPT !.beside = known]
    OBVIOUS
  <2> HIDE DEF known, mine
  <2>3. /\ numbered \in Operations /\ numbered.op = as.op /\ numbered.at = as.at
        /\ numbered.id = operations + 1 /\ numbered.doc = as.doc /\ numbered.walk = as.walk
        /\ numbered.dest = as.dest /\ numbered.chosen = as.chosen
    BY <2>1 DEF Operations
  <2> HIDE DEF numbered
  <2>4. /\ mine \in Operations /\ mine.op = as.op /\ mine.at = as.at /\ mine.id = operations + 1
        /\ mine.doc = as.doc /\ mine.chosen = as.chosen /\ mine.walk = as.walk
        /\ mine.dest = as.dest /\ mine.beside = known
    BY <2>1, <2>2, <2>3 DEF Operations
  <2> QED
    BY <2>4 DEF known
<1>6. \A v \in Workers :
        /\ theirs(v) \in Operations
        /\ theirs(v).op = worker[v].op /\ theirs(v).at = worker[v].at /\ theirs(v).id = worker[v].id
        /\ theirs(v).doc = worker[v].doc /\ theirs(v).brief = worker[v].brief
        /\ theirs(v).chosen = worker[v].chosen /\ theirs(v).walk = worker[v].walk
        /\ theirs(v).dest = worker[v].dest /\ worker[v].beside \subseteq theirs(v).beside
  <2> SUFFICES ASSUME NEW v \in Workers
               PROVE  /\ theirs(v) \in Operations
                      /\ theirs(v).op = worker[v].op /\ theirs(v).at = worker[v].at /\ theirs(v).id = worker[v].id
                      /\ theirs(v).doc = worker[v].doc /\ theirs(v).brief = worker[v].brief
                      /\ theirs(v).chosen = worker[v].chosen /\ theirs(v).walk = worker[v].walk
                      /\ theirs(v).dest = worker[v].dest /\ worker[v].beside \subseteq theirs(v).beside
    OBVIOUS
  <2>1. CASE v \notin Active
    BY <2>1, <1>1
  <2>2. CASE v \in Active
    <3>1. worker[v].beside \cup {as.op} \in SUBSET Ops
      BY <1>1 DEF Operations
    <3> QED
      BY <2>2, <3>1, <1>1 DEF Operations
  <2> QED
    BY <2>1, <2>2
<1>7. \A v \in Workers : Busy(v) => v \in Active /\ as.op \in theirs(v).beside
  <2> SUFFICES ASSUME NEW v \in Workers, Busy(v)
               PROVE  v \in Active /\ as.op \in theirs(v).beside
    OBVIOUS
  <2>1. v \in Active
    BY DEF Active, Busy, Idle
  <2> QED
    BY <2>1, <1>1 DEF Operations
<1> HIDE DEF mine, theirs
<1>8. worker' \in [Workers -> Operations]
  <2>1. \A v \in Workers : (IF v = w THEN mine ELSE theirs(v)) \in Operations
    BY <1>5, <1>6
  <2> QED
    BY <1>2, <2>1
<1>9. Others(w)
  BY <1>3, <1>6 DEF Others, Stays
<1>10. \A v \in Workers : Place(worker'[v])
  <2>1. Place(worker'[w])
    BY <1>3, <1>5 DEF Place
  <2>2. \A v \in Workers : v # w => Place(worker'[v])
    BY <1>3, <1>6 DEF Place, WorkersInv
  <2> QED
    BY <2>1, <2>2
<1>11. \A v \in Workers : Busy(v)' => worker'[v].id \in 1..operations'
  BY <1>2, <1>3, <1>5, <1>6 DEF WorkersInv, Busy
<1>12. \A u, v \in Workers :
        u # v /\ Busy(u)' /\ Busy(v)' => worker'[u].id # worker'[v].id /\ worker'[u].op \in worker'[v].beside
  <2> SUFFICES ASSUME NEW u \in Workers, NEW v \in Workers, u # v, Busy(u)', Busy(v)'
               PROVE  worker'[u].id # worker'[v].id /\ worker'[u].op \in worker'[v].beside
    OBVIOUS
  <2>1. CASE u = w
    <3>1. Busy(v) /\ worker[v].id \in 1..operations /\ worker'[v].id = worker[v].id
      BY <2>1, <1>3, <1>6 DEF WorkersInv, Busy
    <3>2. worker'[u].op \in worker'[v].beside
      BY <2>1, <3>1, <1>3, <1>5, <1>7
    <3>3. worker'[u].id = operations + 1
      BY <2>1, <1>3, <1>5
    <3>4. worker'[u].id # worker'[v].id
      BY <3>1, <3>3
    <3> QED
      BY <3>2, <3>4
  <2>2. CASE v = w
    <3>1. Busy(u) /\ worker[u].id \in 1..operations /\ worker'[u].id = worker[u].id /\ worker'[u].op = worker[u].op
      BY <2>2, <1>3, <1>6 DEF WorkersInv, Busy
    <3>2. worker'[u].op \in worker'[v].beside
      BY <2>2, <3>1, <1>3, <1>5, <1>7
    <3>3. worker'[v].id = operations + 1
      BY <2>2, <1>3, <1>5
    <3>4. worker'[u].id # worker'[v].id
      BY <3>1, <3>3
    <3> QED
      BY <3>2, <3>4
  <2>3. CASE u # w /\ v # w
    <3>1. /\ Busy(u) /\ Busy(v) /\ worker'[u].id = worker[u].id /\ worker'[v].id = worker[v].id
          /\ worker'[u].op = worker[u].op /\ worker[v].beside \subseteq worker'[v].beside
      BY <2>3, <1>3, <1>6 DEF Busy
    <3> QED
      BY <3>1 DEF WorkersInv
  <2> QED
    BY <2>1, <2>2, <2>3
<1>13. \A v \in Workers : worker'[v].at \in {"packing", "packed", "check"} => package' \in Packages
  BY <1>3, <1>5, <1>6 DEF WorkersInv
<1> QED
  BY <1>2, <1>3, <1>5, <1>8, <1>9, <1>10, <1>11, <1>12, <1>13 DEF WorkersInv

\* The package as a leg of a walk leaves it.
LEMMA Packing ==
    ASSUME package \in Packages, NEW w, NEW stage \in {"begun", "entered", "whole"}, Pack(w, stage)
    PROVE  /\ package' \in Packages /\ package'.stage = stage
           /\ package'.layout = package.layout /\ package'.art = package.art
           /\ package'.walk = IF package.walk = worker[w].id THEN package.walk ELSE 0
<1> DEFINE mark == IF package.walk = worker[w].id THEN package.walk ELSE 0
<1> DEFINE staged == [package EXCEPT !.stage = stage]
<1>1. package' = [staged EXCEPT !.walk = mark]
  BY DEF Pack, Packages
<1>2. mark \in Nat
  BY DEF Packages
<1> HIDE DEF mark
<1>3. /\ staged \in Packages /\ staged.stage = stage /\ staged.layout = package.layout
      /\ staged.art = package.art
  BY DEF Packages
<1> HIDE DEF staged
<1>4. /\ package' \in Packages /\ package'.stage = stage /\ package'.layout = package.layout
      /\ package'.art = package.art /\ package'.walk = mark
  BY <1>1, <1>2, <1>3 DEF Packages
<1> QED
  BY <1>4 DEF mark

\* What is staged as the copy leaves it.
LEMMA Copied ==
    ASSUME FilesType, NEW w \in Workers, worker[w].dest \in Destinations, worker[w].id \in Nat, EndCopy(w)
    PROVE  LET d == worker[w].dest IN
           /\ staging' \in [Destinations -> Staged \cup {None}]
           /\ \A e \in Destinations : e # d => staging'[e] = staging[e]
           /\ staging[d] \in Staged /\ staging'[d] \in Staged
           /\ staging'[d].copied = (staging[d].by = worker[w].id)
           /\ staging'[d].package.stage = staging[d].package.stage
           /\ staging'[d].package.layout = staging[d].package.layout
           /\ staging'[d].package.art = staging[d].package.art
           /\ staging'[d].package.walk \in {staging[d].package.walk, 0}
<1> DEFINE d == worker[w].dest
<1> DEFINE own == staging[d].by = worker[w].id
<1> DEFINE mark == IF staging[d].package = package THEN staging[d].package.walk ELSE 0
<1> DEFINE done == [staging[d] EXCEPT !.copied = own]
<1> DEFINE copy == [done.package EXCEPT !.walk = mark]
<1>1. staging \in [Destinations -> Staged \cup {None}] /\ d \in Destinations
  BY DEF FilesType
<1>2. staging[d] # None
  BY DEF EndCopy
<1>3. staging[d] \in Staged /\ staging[d].package \in Packages
  BY <1>1, <1>2 DEF Staged
<1>4. staging' = [[staging EXCEPT ![d].copied = own] EXCEPT ![d].package.walk = mark]
  BY DEF EndCopy
<1>5. staging' = [staging EXCEPT ![d] = [done EXCEPT !.package = copy]]
  BY <1>1, <1>3, <1>4
<1>6. own \in BOOLEAN /\ mark \in Nat /\ mark \in {staging[d].package.walk, 0}
  BY <1>3 DEF Packages
<1> HIDE DEF own, mark
<1>7. done \in Staged /\ done.by = staging[d].by /\ done.copied = own /\ done.package = staging[d].package
  BY <1>3, <1>6 DEF Staged
<1>8. /\ copy \in Packages /\ copy.stage = staging[d].package.stage
      /\ copy.layout = staging[d].package.layout /\ copy.art = staging[d].package.art /\ copy.walk = mark
  BY <1>3, <1>6, <1>7 DEF Packages
<1> HIDE DEF done, copy
<1>9. /\ [done EXCEPT !.package = copy] \in Staged /\ [done EXCEPT !.package = copy].copied = own
      /\ [done EXCEPT !.package = copy].package = copy
  BY <1>7, <1>8 DEF Staged
<1>10. staging'[d] = [done EXCEPT !.package = copy] /\ \A e \in Destinations : e # d => staging'[e] = staging[e]
  BY <1>1, <1>5
<1>11. staging' \in [Destinations -> Staged \cup {None}]
  BY <1>1, <1>5, <1>9
<1> HIDE DEF d
<1>12. /\ staging'[d] \in Staged /\ staging'[d].copied = (staging[d].by = worker[w].id)
       /\ staging'[d].package.stage = staging[d].package.stage
       /\ staging'[d].package.layout = staging[d].package.layout
       /\ staging'[d].package.art = staging[d].package.art
       /\ staging'[d].package.walk \in {staging[d].package.walk, 0}
  BY <1>6, <1>8, <1>9, <1>10 DEF own
<1> QED
  BY <1>3, <1>10, <1>11, <1>12 DEF d


LEMMA IdleIsPlaced == Idle \in Operations /\ Place(Idle) /\ Idle.op = "idle" /\ Idle.at = "idle"
BY DEF Idle, Operations, Ops, Ats, Maybe, Place, Dressing, Copying

\* The design a save writes.
Saved(streets) == [design EXCEPT !.revision = @ + 1, !.streets = streets, !.edits = @ \cup {operations + 1}]

LEMMA SavedIsADesign ==
    ASSUME design \in Docs, operations \in Nat, NEW streets \in Streets, design.revision < MaxRevision
    PROVE  /\ Saved(streets) \in Docs /\ Saved(streets).revision = design.revision + 1
           /\ Saved(streets).edits = design.edits \cup {operations + 1}
           /\ Saved(streets).raced = design.raced
<1> DEFINE next == [design EXCEPT !.revision = design.revision + 1]
<1> DEFINE made == [next EXCEPT !.streets = streets]
<1> DEFINE saved == [made EXCEPT !.edits = design.edits \cup {operations + 1}]
<1>1. Saved(streets) = saved
  BY DEF Saved, Docs
<1>2. /\ design.revision \in Nat /\ design.revision + 1 \in Revisions
      /\ design.edits \cup {operations + 1} \in SUBSET Nat
  BY AuthoringAssumption DEF Docs, Revisions
<1>3. next \in Docs /\ next.revision = design.revision + 1 /\ next.edits = design.edits /\ next.raced = design.raced
  BY <1>2 DEF Docs
<1> HIDE DEF next
<1>4. made \in Docs /\ made.revision = next.revision /\ made.edits = next.edits /\ made.raced = next.raced
  BY <1>3 DEF Docs
<1> HIDE DEF made
<1>5. /\ saved \in Docs /\ saved.revision = made.revision /\ saved.raced = made.raced
      /\ saved.edits = design.edits \cup {operations + 1}
  BY <1>2, <1>4 DEF Docs
<1> HIDE DEF saved
<1> QED
  BY <1>1, <1>3, <1>4, <1>5

\* An operation as it begins.
Begun(as, op, at) ==
    /\ as \in Operations /\ as.op = op /\ as.at = at
    /\ as.doc = None /\ as.chosen = None /\ as.walk = None /\ as.dest = None

LEMMA Begin ==
    ASSUME NEW op \in Ops, NEW at \in Ats
    PROVE  Begun([Idle EXCEPT !.op = op, !.at = at], op, at)
<1> DEFINE one == [Idle EXCEPT !.op = op]
<1> DEFINE two == [one EXCEPT !.at = at]
<1>1. Begun(Idle, "idle", "idle")
  BY IdleIsPlaced DEF Begun, Idle
<1>2. Begun(one, op, "idle")
  BY <1>1 DEF Begun, Operations
<1> HIDE DEF one
<1>3. Begun(two, op, at)
  BY <1>2 DEF Begun, Operations
<1> QED
  BY <1>3 DEF one

\* What is so as each kind of operation begins.
LEMMA BeginSaveBegins ==
    ASSUME FilesType, WorkersInv, NEW w \in Workers, NEW streets \in Streets, BeginSave(w, streets)
    PROVE  /\ WorkersInv' /\ Others(w) /\ operations' = operations + 1 /\ worker[w].op = "idle"
           /\ worker'[w].op = "save" /\ worker'[w].at = "write" /\ worker'[w].id = operations + 1
           /\ worker'[w].doc = Saved(streets)
           /\ worker'[w].beside = {worker[u].op : u \in Active}
<1> DEFINE begun == [Idle EXCEPT !.op = "save", !.at = "write"]
<1> DEFINE as == [begun EXCEPT !.doc = Saved(streets)]
<1>1. Began(w, as) /\ package' = package /\ operations \in Nat
  BY DEF BeginSave, files, Saved, FilesType
<1>t. Saved(streets) \in Docs
  BY SavedIsADesign DEF BeginSave, FilesType
<1>2. Begun(begun, "save", "write")
  BY Begin DEF Ops, Ats, Dressing, Copying
<1> HIDE DEF begun
<1>3. /\ as \in Operations /\ as.doc = Saved(streets)
      /\ as.op = begun.op /\ as.at = begun.at /\ as.chosen = begun.chosen /\ as.walk = begun.walk /\ as.dest = begun.dest
  BY <1>2, <1>t DEF Begun, Operations, Maybe, FilesType
<1> HIDE DEF as
<1>4. /\ as \in Operations /\ Place(as) /\ as.op = "save" /\ as.at = "write"
  BY <1>2, <1>3, <1>t DEF Begun, Place, Maybe, Dressing, Copying, FilesType
<1>5. as.op # "idle" /\ as.at \notin {"packing", "packed", "check"}
  BY <1>4
<1>6. /\ WorkersInv' /\ Others(w) /\ operations' = operations + 1 /\ worker[w] = Idle
      /\ worker'[w].op = as.op /\ worker'[w].at = as.at /\ worker'[w].id = operations + 1
      /\ worker'[w].doc = as.doc /\ worker'[w].chosen = as.chosen
      /\ worker'[w].walk = as.walk /\ worker'[w].dest = as.dest
      /\ worker'[w].beside = {worker[u].op : u \in Active}
  BY <1>1, <1>4, <1>5, Begins
<1> QED
  BY <1>2, <1>3, <1>4, <1>6, IdleIsPlaced

LEMMA BeginGenerateBegins ==
    ASSUME FilesType, WorkersInv, NEW w \in Workers, BeginGenerate(w)
    PROVE  /\ WorkersInv' /\ Others(w) /\ operations' = operations + 1 /\ worker[w].op = "idle"
           /\ worker'[w].op = "generate" /\ worker'[w].at = "import" /\ worker'[w].id = operations + 1
           /\ worker'[w].doc = design
           /\ worker'[w].beside = {worker[u].op : u \in Active}
<1> DEFINE begun == [Idle EXCEPT !.op = "generate", !.at = "import"]
<1> DEFINE as == [begun EXCEPT !.doc = design]
<1>1. Began(w, as) /\ package' = package /\ operations \in Nat
  BY DEF BeginGenerate, files, Saved, FilesType
<1>2. Begun(begun, "generate", "import")
  BY Begin DEF Ops, Ats, Dressing, Copying
<1> HIDE DEF begun
<1>3. /\ as \in Operations /\ as.doc = design
      /\ as.op = begun.op /\ as.at = begun.at /\ as.chosen = begun.chosen /\ as.walk = begun.walk /\ as.dest = begun.dest
  BY <1>2 DEF Begun, Operations, Maybe, FilesType
<1> HIDE DEF as
<1>4. /\ as \in Operations /\ Place(as) /\ as.op = "generate" /\ as.at = "import"
  BY <1>2, <1>3 DEF Begun, Place, Maybe, Dressing, Copying, FilesType
<1>5. as.op # "idle" /\ as.at \notin {"packing", "packed", "check"}
  BY <1>4
<1>6. /\ WorkersInv' /\ Others(w) /\ operations' = operations + 1 /\ worker[w] = Idle
      /\ worker'[w].op = as.op /\ worker'[w].at = as.at /\ worker'[w].id = operations + 1
      /\ worker'[w].doc = as.doc /\ worker'[w].chosen = as.chosen
      /\ worker'[w].walk = as.walk /\ worker'[w].dest = as.dest
      /\ worker'[w].beside = {worker[u].op : u \in Active}
  BY <1>1, <1>4, <1>5, Begins
<1> QED
  BY <1>2, <1>3, <1>4, <1>6, IdleIsPlaced

LEMMA BeginChooseBegins ==
    ASSUME FilesType, WorkersInv, NEW w \in Workers, NEW c \in Candidates, BeginChoose(w, c)
    PROVE  /\ WorkersInv' /\ Others(w) /\ operations' = operations + 1 /\ worker[w].op = "idle"
           /\ worker'[w].op = "choose" /\ worker'[w].at = "approve" /\ worker'[w].id = operations + 1
           /\ worker'[w].chosen = c
           /\ worker'[w].beside = {worker[u].op : u \in Active}
<1> DEFINE begun == [Idle EXCEPT !.op = "choose", !.at = "approve"]
<1> DEFINE as == [begun EXCEPT !.chosen = c]
<1>1. Began(w, as) /\ package' = package /\ operations \in Nat
  BY DEF BeginChoose, files, Saved, FilesType
<1>2. Begun(begun, "choose", "approve")
  BY Begin DEF Ops, Ats, Dressing, Copying
<1> HIDE DEF begun
<1>3. /\ as \in Operations /\ as.chosen = c
      /\ as.op = begun.op /\ as.at = begun.at /\ as.doc = begun.doc /\ as.walk = begun.walk /\ as.dest = begun.dest
  BY <1>2 DEF Begun, Operations, Maybe, FilesType
<1> HIDE DEF as
<1>4. /\ as \in Operations /\ Place(as) /\ as.op = "choose" /\ as.at = "approve"
  BY <1>2, <1>3 DEF Begun, Place, Maybe, Dressing, Copying, FilesType
<1>5. as.op # "idle" /\ as.at \notin {"packing", "packed", "check"}
  BY <1>4
<1>6. /\ WorkersInv' /\ Others(w) /\ operations' = operations + 1 /\ worker[w] = Idle
      /\ worker'[w].op = as.op /\ worker'[w].at = as.at /\ worker'[w].id = operations + 1
      /\ worker'[w].doc = as.doc /\ worker'[w].chosen = as.chosen
      /\ worker'[w].walk = as.walk /\ worker'[w].dest = as.dest
      /\ worker'[w].beside = {worker[u].op : u \in Active}
  BY <1>1, <1>4, <1>5, Begins
<1> QED
  BY <1>2, <1>3, <1>4, <1>6, IdleIsPlaced

LEMMA BeginWalkBegins ==
    ASSUME FilesType, WorkersInv, NEW w \in Workers, BeginWalk(w)
    PROVE  /\ WorkersInv' /\ Others(w) /\ operations' = operations + 1 /\ worker[w].op = "idle"
           /\ worker'[w].op = "walk" /\ worker'[w].at = "import" /\ worker'[w].id = operations + 1
           /\ worker'[w].doc = design /\ worker'[w].chosen = marker
           /\ worker'[w].beside = {worker[u].op : u \in Active}
<1> DEFINE begun == [Idle EXCEPT !.op = "walk", !.at = "import"]
<1> DEFINE chose == [begun EXCEPT !.doc = design]
<1> DEFINE as == [chose EXCEPT !.chosen = marker]
<1>1. Began(w, as) /\ package' = package /\ operations \in Nat
  BY DEF BeginWalk, files, Saved, FilesType
<1>2. Begun(begun, "walk", "import")
  BY Begin DEF Ops, Ats, Dressing, Copying
<1> HIDE DEF begun
<1>3. /\ chose \in Operations /\ chose.doc = design
      /\ chose.op = begun.op /\ chose.at = begun.at /\ chose.chosen = begun.chosen /\ chose.walk = begun.walk /\ chose.dest = begun.dest
  BY <1>2 DEF Begun, Operations, Maybe, FilesType
<1> HIDE DEF chose
<1>4. /\ as \in Operations /\ as.chosen = marker
      /\ as.op = chose.op /\ as.at = chose.at /\ as.doc = chose.doc /\ as.walk = chose.walk /\ as.dest = chose.dest
  BY <1>2, <1>3 DEF Begun, Operations, Maybe, FilesType
<1> HIDE DEF as
<1>5. /\ as \in Operations /\ Place(as) /\ as.op = "walk" /\ as.at = "import"
  BY <1>2, <1>3, <1>4 DEF Begun, Place, Maybe, Dressing, Copying, FilesType
<1>6. as.op # "idle" /\ as.at \notin {"packing", "packed", "check"}
  BY <1>5
<1>7. /\ WorkersInv' /\ Others(w) /\ operations' = operations + 1 /\ worker[w] = Idle
      /\ worker'[w].op = as.op /\ worker'[w].at = as.at /\ worker'[w].id = operations + 1
      /\ worker'[w].doc = as.doc /\ worker'[w].chosen = as.chosen
      /\ worker'[w].walk = as.walk /\ worker'[w].dest = as.dest
      /\ worker'[w].beside = {worker[u].op : u \in Active}
  BY <1>1, <1>5, <1>6, Begins
<1> QED
  BY <1>2, <1>3, <1>4, <1>5, <1>7, IdleIsPlaced

LEMMA BeginExportBegins ==
    ASSUME FilesType, WorkersInv, NEW w \in Workers, NEW dest \in Destinations, BeginExport(w, dest)
    PROVE  /\ WorkersInv' /\ Others(w) /\ operations' = operations + 1 /\ worker[w].op = "idle"
           /\ worker'[w].op = "export" /\ worker'[w].at = "copy" /\ worker'[w].id = operations + 1
           /\ worker'[w].doc = design /\ worker'[w].walk = WalkOf(design) /\ worker'[w].dest = dest
           /\ worker'[w].beside = {worker[u].op : u \in Active}
<1> DEFINE begun == [Idle EXCEPT !.op = "export", !.at = "copy"]
<1> DEFINE read == [begun EXCEPT !.doc = design]
<1> DEFINE chose == [read EXCEPT !.walk = WalkOf(design)]
<1> DEFINE as == [chose EXCEPT !.dest = dest]
<1>1. Began(w, as) /\ package' = package /\ operations \in Nat
  BY DEF BeginExport, files, Saved, FilesType
<1>t. WalkOf(design) \in Walks
  BY DEF BeginExport, WalkOf, FilesType, Docs
<1>2. Begun(begun, "export", "copy")
  BY Begin DEF Ops, Ats, Dressing, Copying
<1> HIDE DEF begun
<1>3. /\ read \in Operations /\ read.doc = design
      /\ read.op = begun.op /\ read.at = begun.at /\ read.chosen = begun.chosen /\ read.walk = begun.walk /\ read.dest = begun.dest
  BY <1>2, <1>t DEF Begun, Operations, Maybe, FilesType
<1> HIDE DEF read
<1>4. /\ chose \in Operations /\ chose.walk = WalkOf(design)
      /\ chose.op = read.op /\ chose.at = read.at /\ chose.doc = read.doc /\ chose.chosen = read.chosen /\ chose.dest = read.dest
  BY <1>2, <1>3, <1>t DEF Begun, Operations, Maybe, FilesType
<1> HIDE DEF chose
<1>5. /\ as \in Operations /\ as.dest = dest
      /\ as.op = chose.op /\ as.at = chose.at /\ as.doc = chose.doc /\ as.chosen = chose.chosen /\ as.walk = chose.walk
  BY <1>2, <1>3, <1>4, <1>t DEF Begun, Operations, Maybe, FilesType
<1> HIDE DEF as
<1>6. /\ as \in Operations /\ Place(as) /\ as.op = "export" /\ as.at = "copy"
  BY <1>2, <1>3, <1>4, <1>5, <1>t DEF Begun, Place, Maybe, Dressing, Copying, FilesType
<1>7. as.op # "idle" /\ as.at \notin {"packing", "packed", "check"}
  BY <1>6
<1>8. /\ WorkersInv' /\ Others(w) /\ operations' = operations + 1 /\ worker[w] = Idle
      /\ worker'[w].op = as.op /\ worker'[w].at = as.at /\ worker'[w].id = operations + 1
      /\ worker'[w].doc = as.doc /\ worker'[w].chosen = as.chosen
      /\ worker'[w].walk = as.walk /\ worker'[w].dest = as.dest
      /\ worker'[w].beside = {worker[u].op : u \in Active}
  BY <1>1, <1>6, <1>7, Begins
<1> QED
  BY <1>2, <1>3, <1>4, <1>5, <1>6, <1>8, IdleIsPlaced

\* What a chain makes is of some layout and some design.
LEMMA Makes ==
    ASSUME NEW w \in Workers, worker[w] \in Operations, worker[w].at = "dressing", Place(worker[w])
    PROVE  Made(w) \in Arts
BY DEF Made, Place, Dressing, Arts, Operations

\* Every step keeps the types and what is so of the workers, and leaves the others theirs.
LEMMA Steps ==
    ASSUME FilesType, WorkersInv, NEW w \in Workers, Acts(w)
    PROVE  FilesType' /\ WorkersInv' /\ Others(w) /\ Leaves(w) /\ Own(w)
<1>w. /\ worker \in [Workers -> Operations] /\ worker[w] \in Operations /\ Place(worker[w])
      /\ operations \in Nat
  BY DEF WorkersInv, FilesType
<1>1. CASE Open(w)
  <2>1. /\ opened' = [opened EXCEPT ![w] = design] /\ worker' = worker
        /\ UNCHANGED <<design, operations, request, imported, shell, marker, art, dressing, package, generated, walked, exported, staging, snapshots>>
    BY <1>1 DEF Open, files
  <2>3. WorkersInv' /\ Others(w) /\ worker'[w] = Idle
    BY <1>1, <2>1 DEF Open, WorkersInv, Busy, Others, Stays
  <2>4. FilesType'
    BY <2>1, <2>3, <1>w DEF FilesType
  <2>5. Leaves(w)
    BY <1>1, <2>1, <2>3, <1>w DEF Leaves, FilesType, Together
  <2>6. Own(w)
    BY <1>1, <2>1, <2>3, <1>w, IdleIsPlaced DEF Own, Place, Dressing, Copying
  <2> QED
    BY <2>3, <2>4, <2>5, <2>6
<1>2. CASE WriteDesign(w)
  <2>1. /\ worker[w].op = "save" /\ worker' = [worker EXCEPT ![w] = Idle]
        /\ design' = [worker[w].doc EXCEPT !.raced = @ \/ "save" \in worker[w].beside]
        /\ opened' = [opened EXCEPT ![w] = design']
        /\ UNCHANGED <<operations, request, imported, shell, marker, art, dressing, package, generated, walked, exported, staging, snapshots>>
    BY <1>2 DEF WriteDesign, Doing, Ends, files
  <2>3. WorkersInv' /\ Others(w) /\ worker'[w] = Idle
    BY <2>1, <1>w, Moves, IdleIsPlaced
  <2>2. design' \in Docs
    BY <2>1, <1>w DEF Place, Docs
  <2>4. FilesType'
    BY <2>1, <2>3, <1>w, <2>2 DEF FilesType
  <2>5. Leaves(w)
    BY <1>2, <2>1, <2>3, <1>w, <2>2 DEF Leaves, FilesType, Together
  <2>6. Own(w)
    BY <1>2, <2>1, <2>3, <1>w, <2>2, IdleIsPlaced DEF Own, Place, Dressing, Copying
  <2> QED
    BY <2>3, <2>4, <2>5, <2>6
<1>3. CASE Import(w)
  <2> DEFINE r == [worker[w] EXCEPT !.at = "run"]
  <2>1. /\ worker[w].at = "import" /\ worker' = [worker EXCEPT ![w] = r]
        /\ imported' = request
        /\ UNCHANGED <<design, opened, operations, request, shell, marker, art, dressing, package, generated, walked, exported, staging, snapshots>>
    BY <1>3 DEF Import, Goes
  <2>2. /\ r \in Operations /\ Place(r) /\ r.at = "run"
        /\ r.op = worker[w].op /\ r.id = worker[w].id /\ r.beside = worker[w].beside
    BY <2>1, <1>w DEF Operations, Place, Ats, Dressing, Copying
  <2> HIDE DEF r
  <2>3. WorkersInv' /\ Others(w) /\ worker'[w] = r
    BY <2>1, <2>2, <1>w, Moves
  <2>4. FilesType'
    BY <2>1, <2>3, <1>w DEF FilesType
  <2>5. Leaves(w)
    BY <1>3, <2>1, <2>3, <1>w DEF Leaves, FilesType, Together, Place
  <2>6. Own(w)
    BY <1>3, <2>1, <2>3, <1>w, <2>2, IdleIsPlaced DEF Own, Place, Dressing, Copying
  <2> QED
    BY <2>3, <2>4, <2>5, <2>6
<1>4. CASE BeginRun(w)
  <2> DEFINE read == [worker[w] EXCEPT !.brief = imported]
  <2> DEFINE r == [read EXCEPT !.at = "building"]
  <2>1. /\ worker[w].at = "run"
        /\ worker' = [[worker EXCEPT ![w].brief = imported] EXCEPT ![w].at = "building"]
        /\ UNCHANGED <<design, opened, operations, request, imported, shell, marker, art, dressing, package, generated, walked, exported, staging, snapshots>>
    BY <1>4 DEF BeginRun, files
  <2>a. worker' = [worker EXCEPT ![w] = r]
    BY <2>1, <1>w
  <2>b. imported \in Docs \cup {None}
    BY DEF FilesType
  <2>c. /\ read \in Operations /\ read.op = worker[w].op /\ read.id = worker[w].id /\ read.beside = worker[w].beside
        /\ read.at = worker[w].at /\ read.doc = worker[w].doc /\ read.walk = worker[w].walk /\ read.dest = worker[w].dest
    BY <2>b, <1>w DEF Operations
  <2> HIDE DEF read
  <2>2. /\ r \in Operations /\ Place(r) /\ r.at = "building"
        /\ r.op = worker[w].op /\ r.id = worker[w].id /\ r.beside = worker[w].beside
    BY <2>1, <2>c, <1>w DEF Operations, Place, Ats, Dressing, Copying
  <2> HIDE DEF r
  <2>3. WorkersInv' /\ Others(w) /\ worker'[w] = r
    BY <2>1, <2>2, <2>a, <1>w, Moves
  <2>4. FilesType'
    BY <2>1, <2>3, <1>w DEF FilesType
  <2>5. Leaves(w)
    BY <1>4, <2>1, <2>3, <1>w DEF Leaves, FilesType, Together
  <2>6. Own(w)
    BY <1>4, <2>1, <2>3, <1>w, <2>2, IdleIsPlaced DEF Own, Place, Dressing, Copying
  <2> QED
    BY <2>3, <2>4, <2>5, <2>6
<1>5. CASE EndRun(w)
  <2> DEFINE to == IF worker[w].op = "generate" THEN "record" ELSE "art"
  <2> DEFINE r == [worker[w] EXCEPT !.at = to]
  <2>1. /\ worker[w].at = "building" /\ worker' = [worker EXCEPT ![w] = r]
        /\ UNCHANGED <<design, opened, operations, request, imported, marker, art, dressing, package, generated, walked, exported, staging, snapshots>>
    BY <1>5 DEF EndRun, Goes
  <2>2. /\ r \in Operations /\ Place(r) /\ r.at \in {"record", "art"}
        /\ r.op = worker[w].op /\ r.id = worker[w].id /\ r.beside = worker[w].beside
    BY <2>1, <1>w DEF Operations, Place, Ats, Dressing, Copying
  <2> HIDE DEF r
  <2>3. WorkersInv' /\ Others(w) /\ worker'[w] = r
    BY <2>1, <2>2, <1>w, Moves
  <2>4. FilesType'
    BY <2>1, <2>3, <1>w DEF FilesType
  <2>5. Leaves(w)
    BY <1>5, <2>1, <2>3, <1>w DEF Leaves, FilesType, Together
  <2>6. Own(w)
    BY <1>5, <2>1, <2>3, <1>w, <2>2, IdleIsPlaced DEF Own, Place, Dressing, Copying
  <2> QED
    BY <2>3, <2>4, <2>5, <2>6
<1>6. CASE RecordLayouts(w)
  <2>1. /\ worker[w].op = "generate" /\ worker' = [worker EXCEPT ![w] = Idle]
        /\ generated' = [generated EXCEPT ![worker[w].doc.revision] = worker[w].doc]
        /\ UNCHANGED <<design, opened, operations, request, imported, shell, marker, art, dressing, package, walked, exported, staging, snapshots>>
    BY <1>6 DEF RecordLayouts, Doing, Ends, files
  <2>3. WorkersInv' /\ Others(w) /\ worker'[w] = Idle
    BY <2>1, <1>w, Moves, IdleIsPlaced
  <2>2. worker[w].doc \in Docs
    BY <2>1, <1>w DEF Place
  <2>4. FilesType'
    BY <2>1, <2>3, <1>w, <2>2 DEF FilesType
  <2>5. Leaves(w)
    BY <1>6, <2>1, <2>3, <1>w, <2>2 DEF Leaves, FilesType, Together
  <2>6. Own(w)
    BY <1>6, <2>1, <2>3, <1>w, <2>2, IdleIsPlaced DEF Own, Place, Dressing, Copying
  <2> QED
    BY <2>3, <2>4, <2>5, <2>6
<1>7. CASE ApproveChoice(w)
  <2>1. /\ worker[w].op = "choose" /\ worker' = [worker EXCEPT ![w] = Idle]
        /\ marker' = worker[w].chosen
        /\ UNCHANGED <<design, opened, operations, request, imported, shell, art, dressing, package, generated, walked, exported, staging, snapshots>>
    BY <1>7 DEF ApproveChoice, Doing, Ends, files
  <2>3. WorkersInv' /\ Others(w) /\ worker'[w] = Idle
    BY <2>1, <1>w, Moves, IdleIsPlaced
  <2>2. worker[w].chosen \in Maybe
    BY <1>w DEF Operations
  <2>4. FilesType'
    BY <2>1, <2>3, <1>w, <2>2 DEF FilesType
  <2>5. Leaves(w)
    BY <1>7, <2>1, <2>3, <1>w, <2>2 DEF Leaves, FilesType, Together
  <2>6. Own(w)
    BY <1>7, <2>1, <2>3, <1>w, <2>2, IdleIsPlaced DEF Own, Place, Dressing, Copying
  <2> QED
    BY <2>3, <2>4, <2>5, <2>6
<1>8. CASE BeginArt(w)
  <2> DEFINE read == [worker[w] EXCEPT !.brief = imported]
  <2> DEFINE told == [read EXCEPT !.walk = marker]
  <2> DEFINE r == [told EXCEPT !.at = "dressing"]
  <2>1. /\ worker[w].at = "art"
        /\ worker' = [[[worker EXCEPT ![w].brief = imported] EXCEPT ![w].walk = marker] EXCEPT ![w].at = "dressing"]
        /\ UNCHANGED <<design, opened, operations, request, imported, shell, marker, art, dressing, package, generated, walked, exported, staging, snapshots>>
    BY <1>8 DEF BeginArt, files
  <2>a. worker' = [worker EXCEPT ![w] = r]
    BY <2>1, <1>w
  <2>b. imported \in Docs \cup {None} /\ marker \in Maybe
    BY DEF FilesType
  <2>c. /\ read \in Operations /\ read.op = worker[w].op /\ read.id = worker[w].id /\ read.beside = worker[w].beside
        /\ read.at = worker[w].at /\ read.doc = worker[w].doc /\ read.dest = worker[w].dest
    BY <2>b, <1>w DEF Operations
  <2> HIDE DEF read
  <2>d. /\ told \in Operations /\ told.op = worker[w].op /\ told.id = worker[w].id /\ told.beside = worker[w].beside
        /\ told.at = worker[w].at /\ told.doc = worker[w].doc /\ told.dest = worker[w].dest /\ told.walk = marker
    BY <2>b, <2>c DEF Operations
  <2> HIDE DEF told
  <2>2. /\ r \in Operations /\ Place(r) /\ r.at = "dressing"
        /\ r.op = worker[w].op /\ r.id = worker[w].id /\ r.beside = worker[w].beside
    BY <2>1, <2>b, <2>d, <1>w DEF Operations, Place, Ats, Dressing, Copying
  <2> HIDE DEF r
  <2>3. WorkersInv' /\ Others(w) /\ worker'[w] = r
    BY <2>1, <2>2, <2>a, <1>w, Moves
  <2>4. FilesType'
    BY <2>1, <2>3, <1>w DEF FilesType
  <2>5. Leaves(w)
    BY <1>8, <2>1, <2>3, <1>w DEF Leaves, FilesType, Together
  <2>6. Own(w)
    BY <1>8, <2>1, <2>3, <1>w, <2>2, IdleIsPlaced DEF Own, Place, Dressing, Copying
  <2> QED
    BY <2>3, <2>4, <2>5, <2>6
<1>9. CASE EndArt(w)
  <2> DEFINE r == [worker[w] EXCEPT !.at = "preview"]
  <2>1. /\ worker[w].at = "dressing" /\ worker' = [worker EXCEPT ![w] = r]
        /\ art' = Made(w) /\ dressing' \in {dressing, Made(w)}
        /\ UNCHANGED <<design, opened, operations, request, imported, marker, package, generated, walked, exported, staging, snapshots>>
    BY <1>9 DEF EndArt, Goes
  <2>2. /\ r \in Operations /\ Place(r) /\ r.at = "preview"
        /\ r.op = worker[w].op /\ r.id = worker[w].id /\ r.beside = worker[w].beside
    BY <2>1, <1>w DEF Operations, Place, Ats, Dressing, Copying
  <2> HIDE DEF r
  <2>3. WorkersInv' /\ Others(w) /\ worker'[w] = r
    BY <2>1, <2>2, <1>w, Moves
  <2>o. worker[w].op = "walk" /\ Made(w) \in Arts
    BY <2>1, <1>w, Makes DEF Place, Dressing
  <2>4. FilesType'
    BY <2>1, <2>3, <1>w, <2>o DEF FilesType
  <2>5. Leaves(w)
    BY <1>9, <2>1, <2>3, <1>w, <2>o DEF Leaves, FilesType, Together
  <2>6. Own(w)
    BY <1>9, <2>1, <2>3, <1>w, <2>2, <2>o, IdleIsPlaced DEF Own, Place, Dressing, Copying
  <2> QED
    BY <2>3, <2>4, <2>5, <2>6
<1>24. CASE BreakArt(w)
  <2> DEFINE on == [worker[w] EXCEPT !.at = "preview"]
  <2> DEFINE r == IF worker[w].beside \cap Together = {} THEN Idle ELSE on
  <2>1. /\ worker[w].at = "dressing" /\ worker' = [worker EXCEPT ![w] = r]
        /\ art' \in {art, Made(w)}
        /\ UNCHANGED <<design, opened, operations, request, imported, marker, dressing, package, generated, walked, exported, staging, snapshots>>
    BY <1>24 DEF BreakArt, Goes, Ends
  <2>a. /\ on \in Operations /\ Place(on) /\ on.at = "preview"
        /\ on.op = worker[w].op /\ on.id = worker[w].id /\ on.beside = worker[w].beside
    BY <2>1, <1>w DEF Operations, Place, Ats, Dressing, Copying
  <2> HIDE DEF on
  <2>2. /\ r \in Operations /\ Place(r) /\ r.at \in {"idle", "preview"}
        /\ r.op # "idle" => r.op = worker[w].op /\ r.id = worker[w].id /\ r.beside = worker[w].beside
    BY <2>a, IdleIsPlaced
  <2> HIDE DEF r
  <2>3. WorkersInv' /\ Others(w) /\ worker'[w] = r
    BY <2>1, <2>2, <1>w, Moves
  <2>o. worker[w].op = "walk" /\ Made(w) \in Arts
    BY <2>1, <1>w, Makes DEF Place, Dressing
  <2>4. FilesType'
    BY <2>1, <2>3, <1>w, <2>o DEF FilesType
  <2>5. Leaves(w)
    BY <1>24, <2>1, <2>3, <1>w, <2>o DEF Leaves, FilesType, Together
  <2>6. Own(w)
    BY <1>24, <2>1, <2>3, <1>w, <2>2, <2>o, IdleIsPlaced DEF Own, Place, Dressing, Copying
  <2> QED
    BY <2>3, <2>4, <2>5, <2>6
<1>10. CASE BeginPackage(w)
  <2> DEFINE r == [worker[w] EXCEPT !.at = "packing"]
  <2>1. /\ worker[w].at = "preview" /\ worker' = [worker EXCEPT ![w] = r]
        /\ package' = [stage |-> "begun", layout |-> marker, art |-> art, dressing |-> dressing, walk |-> worker[w].id]
        /\ UNCHANGED <<design, opened, operations, request, imported, shell, marker, art, dressing, generated, walked, exported, staging, snapshots>>
    BY <1>10 DEF BeginPackage, Goes
  <2>2. /\ r \in Operations /\ Place(r) /\ r.at = "packing"
        /\ r.op = worker[w].op /\ r.id = worker[w].id /\ r.beside = worker[w].beside
    BY <2>1, <1>w DEF Operations, Place, Ats, Dressing, Copying
  <2> HIDE DEF r
  <2>p. package' \in Packages /\ worker[w].op = "walk"
    BY <2>1, <1>w DEF FilesType, Packages, Operations, Place, Dressing
  <2>3. WorkersInv' /\ Others(w) /\ worker'[w] = r
    BY <2>1, <2>2, <1>w, Moves, <2>p
  <2>4. FilesType'
    BY <2>1, <2>3, <1>w, <2>2, <2>p DEF FilesType
  <2>5. Leaves(w)
    BY <1>10, <2>1, <2>3, <1>w, <2>2, <2>p DEF Leaves, FilesType, Together
  <2>6. Own(w)
    BY <1>10, <2>1, <2>3, <1>w, <2>2, <2>p, IdleIsPlaced DEF Own, Place, Dressing, Copying
  <2> QED
    BY <2>3, <2>4, <2>5, <2>6
<1>11. CASE EnterPackage(w)
  <2> DEFINE r == [worker[w] EXCEPT !.at = "packed"]
  <2>1. /\ worker[w].at = "packing" /\ worker' = [worker EXCEPT ![w] = r]
        /\ Pack(w, "entered")
        /\ UNCHANGED <<design, opened, operations, request, imported, shell, marker, art, dressing, generated, walked, exported, staging, snapshots>>
    BY <1>11 DEF EnterPackage, Goes
  <2>2. /\ r \in Operations /\ Place(r) /\ r.at = "packed"
        /\ r.op = worker[w].op /\ r.id = worker[w].id /\ r.beside = worker[w].beside
    BY <2>1, <1>w DEF Operations, Place, Ats, Dressing, Copying
  <2> HIDE DEF r
  <2>p. package' \in Packages /\ worker[w].op = "walk"
    BY <2>1, <1>w, Packing DEF WorkersInv, Place, Dressing
  <2>3. WorkersInv' /\ Others(w) /\ worker'[w] = r
    BY <2>1, <2>2, <1>w, Moves, <2>p
  <2>4. FilesType'
    BY <2>1, <2>3, <1>w, <2>2, <2>p DEF FilesType
  <2>5. Leaves(w)
    BY <1>11, <2>1, <2>3, <1>w, <2>2, <2>p DEF Leaves, FilesType, Together
  <2>6. Own(w)
    BY <1>11, <2>1, <2>3, <1>w, <2>2, <2>p, IdleIsPlaced DEF Own, Place, Dressing, Copying
  <2> QED
    BY <2>3, <2>4, <2>5, <2>6
<1>12. CASE FinishPackage(w)
  <2> DEFINE r == [worker[w] EXCEPT !.at = "check"]
  <2>1. /\ worker[w].at = "packed" /\ worker' = [worker EXCEPT ![w] = r]
        /\ Pack(w, "whole")
        /\ UNCHANGED <<design, opened, operations, request, imported, shell, marker, art, dressing, generated, walked, exported, staging, snapshots>>
    BY <1>12 DEF FinishPackage, Goes
  <2>2. /\ r \in Operations /\ Place(r) /\ r.at = "check"
        /\ r.op = worker[w].op /\ r.id = worker[w].id /\ r.beside = worker[w].beside
    BY <2>1, <1>w DEF Operations, Place, Ats, Dressing, Copying
  <2> HIDE DEF r
  <2>p. package' \in Packages /\ worker[w].op = "walk"
    BY <2>1, <1>w, Packing DEF WorkersInv, Place, Dressing
  <2>3. WorkersInv' /\ Others(w) /\ worker'[w] = r
    BY <2>1, <2>2, <1>w, Moves, <2>p
  <2>4. FilesType'
    BY <2>1, <2>3, <1>w, <2>2, <2>p DEF FilesType
  <2>5. Leaves(w)
    BY <1>12, <2>1, <2>3, <1>w, <2>2, <2>p DEF Leaves, FilesType, Together
  <2>6. Own(w)
    BY <1>12, <2>1, <2>3, <1>w, <2>2, <2>p, IdleIsPlaced DEF Own, Place, Dressing, Copying
  <2> QED
    BY <2>3, <2>4, <2>5, <2>6
<1>13. CASE RecordWalk(w)
  <2>1. /\ worker[w].at = "check" /\ worker' = [worker EXCEPT ![w] = Idle]
        /\ walked' = [walked EXCEPT ![worker[w].doc.revision] =
              [layout |-> worker[w].chosen, walk |-> worker[w].id, beside |-> worker[w].beside]]
        /\ UNCHANGED <<design, opened, operations, request, imported, shell, marker, art, dressing, package, generated, exported, staging, snapshots>>
    BY <1>13 DEF RecordWalk, Ends, files
  <2>3. WorkersInv' /\ Others(w) /\ worker'[w] = Idle
    BY <2>1, <1>w, Moves, IdleIsPlaced
  <2>2. /\ worker[w].op = "walk"
        /\ [layout |-> worker[w].chosen, walk |-> worker[w].id, beside |-> worker[w].beside] \in Walks
    BY <2>1, <1>w DEF Operations, Walks, Place, Dressing
  <2>4. FilesType'
    BY <2>1, <2>3, <1>w, <2>2 DEF FilesType
  <2>5. Leaves(w)
    BY <1>13, <2>1, <2>3, <1>w, <2>2 DEF Leaves, FilesType, Together
  <2>6. Own(w)
    BY <1>13, <2>1, <2>3, <1>w, <2>2, IdleIsPlaced DEF Own, Place, Dressing, Copying
  <2> QED
    BY <2>3, <2>4, <2>5, <2>6
<1>14. CASE BeginCopy(w)
  <2> DEFINE r == [worker[w] EXCEPT !.at = "copying"]
  <2>1. /\ worker[w].at = "copy" /\ worker' = [worker EXCEPT ![w] = r]
        /\ staging' = [staging EXCEPT ![worker[w].dest] =
              [by |-> worker[w].id, copied |-> FALSE, package |-> package]]
        /\ package \in Packages
        /\ UNCHANGED <<design, opened, operations, request, imported, shell, marker, art, dressing, package, generated, walked, exported, snapshots>>
    BY <1>14 DEF BeginCopy, Goes, FilesType
  <2>2. /\ r \in Operations /\ Place(r) /\ r.at = "copying"
        /\ r.op = worker[w].op /\ r.id = worker[w].id /\ r.beside = worker[w].beside
    BY <2>1, <1>w DEF Operations, Place, Ats, Dressing, Copying
  <2> HIDE DEF r
  <2>3. WorkersInv' /\ Others(w) /\ worker'[w] = r
    BY <2>1, <2>2, <1>w, Moves
  <2>o. worker[w].op = "export" /\ [by |-> worker[w].id, copied |-> FALSE, package |-> package] \in Staged
    BY <2>1, <1>w DEF Place, Copying, Operations, Staged
  <2>4. FilesType'
    BY <2>1, <2>3, <1>w, <2>o DEF FilesType
  <2>5. Leaves(w)
    BY <1>14, <2>1, <2>3, <1>w, <2>o DEF Leaves, FilesType, Together
  <2>6. Own(w)
    BY <1>14, <2>1, <2>3, <1>w, <2>2, <2>o, IdleIsPlaced DEF Own, Place, Dressing, Copying
  <2> QED
    BY <2>3, <2>4, <2>5, <2>6
<1>15. CASE EndCopy(w)
  <2> DEFINE r == [worker[w] EXCEPT !.at = "rename"]
  <2>o. worker[w].op = "export" /\ worker[w].dest \in Destinations /\ worker[w].id \in Nat
    BY <1>15, <1>w DEF EndCopy, Place, Copying, Operations
  <2>c. staging' \in [Destinations -> Staged \cup {None}]
    BY <1>15, <2>o, Copied
  <2>1. /\ worker[w].at = "copying" /\ worker' = [worker EXCEPT ![w] = r]
        /\ staging' \in [Destinations -> Staged \cup {None}]
        /\ UNCHANGED <<design, opened, operations, request, imported, shell, marker, art, dressing, package, generated, walked, exported, snapshots>>
    BY <1>15, <2>c DEF EndCopy, Goes
  <2>2. /\ r \in Operations /\ Place(r) /\ r.at = "rename"
        /\ r.op = worker[w].op /\ r.id = worker[w].id /\ r.beside = worker[w].beside
    BY <2>1, <1>w DEF Operations, Place, Ats, Dressing, Copying
  <2> HIDE DEF r
  <2>3. WorkersInv' /\ Others(w) /\ worker'[w] = r
    BY <2>1, <2>2, <1>w, Moves
  <2>4. FilesType'
    BY <2>1, <2>3, <1>w, <2>o DEF FilesType
  <2>5. Leaves(w)
    BY <1>15, <2>1, <2>3, <1>w, <2>o DEF Leaves, FilesType, Together
  <2>6. Own(w)
    BY <1>15, <2>1, <2>3, <1>w, <2>2, <2>o, IdleIsPlaced DEF Own, Place, Dressing, Copying
  <2> QED
    BY <2>3, <2>4, <2>5, <2>6
<1>16. CASE Rename(w)
  <2> DEFINE r == [worker[w] EXCEPT !.at = "tell"]
  <2>1. /\ worker[w].at = "rename" /\ worker' = [worker EXCEPT ![w] = r]
        /\ staging[worker[w].dest] # None
        /\ snapshots' = [snapshots EXCEPT ![worker[w].dest] =
              [revision |-> worker[w].doc.revision, walk |-> worker[w].walk, copied |-> staging[worker[w].dest].copied,
               package |-> staging[worker[w].dest].package, beside |-> worker[w].beside]]
        /\ staging' = [staging EXCEPT ![worker[w].dest] = None]
        /\ UNCHANGED <<design, opened, operations, request, imported, shell, marker, art, dressing, package, generated, walked, exported>>
    BY <1>16 DEF Rename, CopyIsOver, Goes
  <2>2. /\ r \in Operations /\ Place(r) /\ r.at = "tell"
        /\ r.op = worker[w].op /\ r.id = worker[w].id /\ r.beside = worker[w].beside
    BY <2>1, <1>w DEF Operations, Place, Ats, Dressing, Copying
  <2> HIDE DEF r
  <2>3. WorkersInv' /\ Others(w) /\ worker'[w] = r
    BY <2>1, <2>2, <1>w, Moves
  <2>o. /\ worker[w].op = "export" /\ worker[w].doc \in Docs /\ worker[w].walk \in Walks
        /\ worker[w].dest \in Destinations /\ worker[w].beside \in SUBSET Ops
    BY <2>1, <1>w DEF Place, Copying, Operations
  <2>q. staging[worker[w].dest] \in Staged
    BY <2>1, <2>o DEF FilesType
  <2>s. [revision |-> worker[w].doc.revision, walk |-> worker[w].walk, copied |-> staging[worker[w].dest].copied,
         package |-> staging[worker[w].dest].package, beside |-> worker[w].beside] \in Snapshots
    BY <2>o, <2>q DEF Snapshots, Staged, Docs
  <2>4. FilesType'
    BY <2>1, <2>3, <1>w, <2>o, <2>s DEF FilesType
  <2>5. Leaves(w)
    BY <1>16, <2>1, <2>3, <1>w, <2>o, <2>s DEF Leaves, FilesType, Together
  <2>6. Own(w)
    BY <1>16, <2>1, <2>3, <1>w, <2>2, <2>o, <2>s, IdleIsPlaced DEF Own, Place, Dressing, Copying
  <2> QED
    BY <2>3, <2>4, <2>5, <2>6
<1>17. CASE RecordExport(w)
  <2>1. /\ worker[w].at = "tell" /\ worker' = [worker EXCEPT ![w] = Idle]
        /\ UNCHANGED <<design, opened, operations, request, imported, shell, marker, art, dressing, package, generated, walked, staging, snapshots>>
    BY <1>17 DEF RecordExport, Ends, files
  <2>3. WorkersInv' /\ Others(w) /\ worker'[w] = Idle
    BY <2>1, <1>w, Moves, IdleIsPlaced
  <2>4. FilesType'
    BY <2>1, <2>3, <1>w DEF FilesType
  <2>5. Leaves(w)
    BY <1>17, <2>1, <2>3, <1>w DEF Leaves, FilesType, Together
  <2>6. Own(w)
    BY <1>17, <2>1, <2>3, <1>w, IdleIsPlaced DEF Own, Place, Dressing, Copying
  <2> QED
    BY <2>3, <2>4, <2>5, <2>6
<1>18. CASE Abort(w)
  <2>1. /\ worker' = [worker EXCEPT ![w] = Idle]
        /\ UNCHANGED <<design, opened, operations, request, imported, shell, marker, art, dressing, package, generated, walked, exported, staging, snapshots>>
    BY <1>18 DEF Abort, Ends, files
  <2>3. WorkersInv' /\ Others(w) /\ worker'[w] = Idle
    BY <2>1, <1>w, Moves, IdleIsPlaced
  <2>4. FilesType'
    BY <2>1, <2>3, <1>w DEF FilesType
  <2>5. Leaves(w)
    BY <1>18, <2>1, <2>3, <1>w DEF Leaves, FilesType, Together
  <2>6. Own(w)
    BY <1>18, <2>1, <2>3, <1>w, IdleIsPlaced DEF Own, Place, Dressing, Copying
  <2> QED
    BY <2>3, <2>4, <2>5, <2>6
<1>19. ASSUME NEW streets \in Streets, BeginSave(w, streets) PROVE FilesType' /\ WorkersInv' /\ Others(w) /\ Leaves(w) /\ Own(w)
  <2>1. /\ operations \in Nat
        /\ UNCHANGED <<design, opened, request, imported, shell, marker, art, dressing, package, generated, walked, exported, staging, snapshots>>
    BY <1>19, <1>w DEF BeginSave, files
  <2>3. WorkersInv' /\ Others(w) /\ operations' = operations + 1 /\ worker[w].op = "idle" /\ worker'[w].op = "save"
    BY <1>19, BeginSaveBegins
  <2>4. FilesType'
    BY <2>1, <2>3, <1>w DEF FilesType
  <2>5. Leaves(w)
    BY <1>19, <2>1, <2>3, <1>w DEF Leaves, FilesType, Together
  <2>6. Own(w)
    BY <1>19, <2>1, <2>3, <1>w, IdleIsPlaced DEF Own, Place, Dressing, Copying
  <2> QED
    BY <2>3, <2>4, <2>5, <2>6
<1>20. CASE BeginGenerate(w)
  <2>1. /\ operations \in Nat
        /\ request' = design
        /\ UNCHANGED <<design, opened, imported, shell, marker, art, dressing, package, generated, walked, exported, staging, snapshots>>
    BY <1>20, <1>w DEF BeginGenerate, files
  <2>3. WorkersInv' /\ Others(w) /\ operations' = operations + 1 /\ worker[w].op = "idle" /\ worker'[w].op = "generate"
    BY <1>20, BeginGenerateBegins
  <2>4. FilesType'
    BY <2>1, <2>3, <1>w DEF FilesType
  <2>5. Leaves(w)
    BY <1>20, <2>1, <2>3, <1>w DEF Leaves, FilesType, Together
  <2>6. Own(w)
    BY <1>20, <2>1, <2>3, <1>w, IdleIsPlaced DEF Own, Place, Dressing, Copying
  <2> QED
    BY <2>3, <2>4, <2>5, <2>6
<1>21. ASSUME NEW c \in Candidates, BeginChoose(w, c) PROVE FilesType' /\ WorkersInv' /\ Others(w) /\ Leaves(w) /\ Own(w)
  <2>1. /\ operations \in Nat
        /\ UNCHANGED <<design, opened, request, imported, shell, marker, art, dressing, package, generated, walked, exported, staging, snapshots>>
    BY <1>21, <1>w DEF BeginChoose, files
  <2>3. WorkersInv' /\ Others(w) /\ operations' = operations + 1 /\ worker[w].op = "idle" /\ worker'[w].op = "choose"
    BY <1>21, BeginChooseBegins
  <2>4. FilesType'
    BY <2>1, <2>3, <1>w DEF FilesType
  <2>5. Leaves(w)
    BY <1>21, <2>1, <2>3, <1>w DEF Leaves, FilesType, Together
  <2>6. Own(w)
    BY <1>21, <2>1, <2>3, <1>w, IdleIsPlaced DEF Own, Place, Dressing, Copying
  <2> QED
    BY <2>3, <2>4, <2>5, <2>6
<1>22. CASE BeginWalk(w)
  <2>1. /\ operations \in Nat
        /\ request' = design
        /\ UNCHANGED <<design, opened, imported, shell, marker, art, dressing, package, generated, walked, exported, staging, snapshots>>
    BY <1>22, <1>w DEF BeginWalk, files
  <2>3. WorkersInv' /\ Others(w) /\ operations' = operations + 1 /\ worker[w].op = "idle" /\ worker'[w].op = "walk"
    BY <1>22, BeginWalkBegins
  <2>4. FilesType'
    BY <2>1, <2>3, <1>w DEF FilesType
  <2>5. Leaves(w)
    BY <1>22, <2>1, <2>3, <1>w DEF Leaves, FilesType, Together
  <2>6. Own(w)
    BY <1>22, <2>1, <2>3, <1>w, IdleIsPlaced DEF Own, Place, Dressing, Copying
  <2> QED
    BY <2>3, <2>4, <2>5, <2>6
<1>23. ASSUME NEW dest \in Destinations, BeginExport(w, dest) PROVE FilesType' /\ WorkersInv' /\ Others(w) /\ Leaves(w) /\ Own(w)
  <2>1. /\ operations \in Nat
        /\ UNCHANGED <<design, opened, request, imported, shell, marker, art, dressing, package, generated, walked, exported, staging, snapshots>>
    BY <1>23, <1>w DEF BeginExport, files
  <2>3. WorkersInv' /\ Others(w) /\ operations' = operations + 1 /\ worker[w].op = "idle" /\ worker'[w].op = "export"
    BY <1>23, BeginExportBegins
  <2>4. FilesType'
    BY <2>1, <2>3, <1>w DEF FilesType
  <2>5. Leaves(w)
    BY <1>23, <2>1, <2>3, <1>w DEF Leaves, FilesType, Together
  <2>6. Own(w)
    BY <1>23, <2>1, <2>3, <1>w, IdleIsPlaced DEF Own, Place, Dressing, Copying
  <2> QED
    BY <2>3, <2>4, <2>5, <2>6
<1> QED
  BY <1>1, <1>2, <1>3, <1>4, <1>5, <1>6, <1>7, <1>8, <1>9, <1>10, <1>11, <1>12, <1>13, <1>14, <1>15, <1>16, <1>17, <1>18, <1>19, <1>20, <1>21, <1>22, <1>23, <1>24 DEF Acts, Step

------------------------------------------------------------------------------
\* What a step leaves of what is so of the files, one invariant at a time.

\* Two operations in progress, of which one takes a step: its kind is known to the other.
LEMMA Known ==
    ASSUME WorkersInv, NEW w \in Workers, NEW v \in Workers, v # w, Busy(v), Busy(w), Stays(v)
    PROVE  worker[w].op \in worker'[v].beside
BY DEF WorkersInv, Stays

LEMMA WalkStays ==
    ASSUME AuthoringInv, NEW w \in Workers, Acts(w)
    PROVE  WalkInv'
<1>1. FilesType' /\ WorkersInv' /\ Others(w) /\ Leaves(w) /\ Own(w)
  BY Steps DEF AuthoringInv
<1>2. FilesType /\ WorkersInv /\ WalkInv
  BY DEF AuthoringInv
<1>3. /\ worker \in [Workers -> Operations] /\ worker[w] \in Operations /\ Place(worker[w])
      /\ operations \in Nat
  BY <1>2 DEF WorkersInv, FilesType
<1>4. ASSUME NEW v \in Workers, v # w, Alone(v)'
      PROVE  Finds(v)'
  <2>1. Stays(v) /\ Alone(v) /\ Busy(v)
    BY <1>1, <1>4 DEF Others, Stays, Alone, Busy
  <2>2. worker[w].op \notin Together
    <3>1. CASE Busy(w)
      BY <1>2, <1>4, <2>1, <3>1, Known DEF Alone
    <3>2. CASE ~Busy(w)
      BY <3>2 DEF Busy, Together
    <3> QED
      BY <3>1, <3>2
  <2>3. worker'[w].op \notin Together
    BY <1>1, <1>4, <2>1 DEF WorkersInv, Alone, Busy, Stays, Together
  <2>4. UNCHANGED <<request, imported, marker, art, dressing, generated, package>>
    BY <1>1, <2>2, <2>3 DEF Leaves, Together
  <2>5. Finds(v)
    BY <1>2, <2>1 DEF WalkInv
  <2> QED
    BY <2>1, <2>4, <2>5 DEF Finds, Stays, Generations, Latest
<1>5. ASSUME Alone(w)'
      PROVE  Finds(w)'
  <2> DEFINE its == [layout |-> worker[w].chosen, doc |-> worker[w].doc]
  <2>1. CASE BeginWalk(w)
    <3>1. /\ worker'[w].at = "import" /\ worker'[w].doc = design /\ worker'[w].chosen = marker
          /\ request' = design /\ marker' = marker /\ generated' = generated
          /\ Generations # {} => Latest.streets = design.streets
      BY <1>2, <2>1, BeginWalkBegins DEF BeginWalk, LayoutsCurrent
    <3> QED
      BY <3>1 DEF Finds, Generations, Latest
  <2>2. ASSUME Alone(w), worker'[w].doc = worker[w].doc, worker'[w].chosen = worker[w].chosen,
               worker'[w].id = worker[w].id, marker' = marker, generated' = generated
        PROVE  /\ marker' = worker'[w].chosen
               /\ Generations' # {} => Latest'.streets = worker'[w].doc.streets
    BY <1>2, <2>2 DEF WalkInv, Finds, Generations, Latest
  <2>3. CASE Import(w)
    <3>1. /\ worker[w].at = "import" /\ worker' = [worker EXCEPT ![w].at = "run"] /\ imported' = request
          /\ UNCHANGED <<marker, generated>>
      BY <2>3 DEF Import, Goes
    <3>2. worker'[w] = [worker[w] EXCEPT !.at = "run"]
      BY <1>3, <3>1
    <3>3. /\ worker'[w].at = "run" /\ worker'[w].doc = worker[w].doc /\ worker'[w].chosen = worker[w].chosen
          /\ worker'[w].id = worker[w].id /\ Alone(w)
      BY <1>3, <1>5, <3>2 DEF Alone, Operations
    <3>4. imported' = worker[w].doc
      BY <1>2, <3>1, <3>3 DEF WalkInv, Finds
    <3> QED
      BY <2>2, <3>1, <3>3, <3>4 DEF Finds
  <2>4. CASE BeginRun(w)
    <3>1. /\ worker[w].at = "run" /\ worker' = [[worker EXCEPT ![w].brief = imported] EXCEPT ![w].at = "building"]
          /\ UNCHANGED <<marker, generated, imported>>
      BY <2>4 DEF BeginRun, files
    <3>2. /\ worker'[w].at = "building" /\ worker'[w].doc = worker[w].doc /\ worker'[w].chosen = worker[w].chosen
          /\ worker'[w].id = worker[w].id /\ worker'[w].op = worker[w].op /\ worker'[w].beside = worker[w].beside
      BY <1>3, <3>1 DEF Operations
    <3>3. Alone(w)
      BY <1>5, <3>2 DEF Alone
    <3>4. imported' = worker[w].doc
      BY <1>2, <3>1, <3>3 DEF WalkInv, Finds
    <3> QED
      BY <2>2, <3>1, <3>2, <3>3, <3>4 DEF Finds
  <2>5. CASE EndRun(w)
    <3>1. /\ worker[w].at = "building"
          /\ worker' = [worker EXCEPT ![w].at = IF worker[w].op = "generate" THEN "record" ELSE "art"]
          /\ UNCHANGED <<marker, generated, imported>>
      BY <2>5 DEF EndRun, Goes
    <3>2. /\ worker'[w].op = worker[w].op /\ worker'[w].beside = worker[w].beside
          /\ worker'[w].at \in {"record", "art"} /\ worker'[w].doc = worker[w].doc
          /\ worker'[w].chosen = worker[w].chosen /\ worker'[w].id = worker[w].id
      BY <1>3, <3>1 DEF Operations
    <3>3. Alone(w)
      BY <1>5, <3>2 DEF Alone
    <3>4. imported' = worker[w].doc
      BY <1>2, <3>1, <3>3 DEF WalkInv, Finds
    <3> QED
      BY <2>2, <3>1, <3>2, <3>3, <3>4 DEF Finds
  <2>6. CASE BeginArt(w)
    <3> DEFINE read == [worker EXCEPT ![w].brief = imported]
    <3> DEFINE told == [read EXCEPT ![w].walk = marker]
    <3>1. /\ worker[w].at = "art" /\ worker' = [told EXCEPT ![w].at = "dressing"]
          /\ UNCHANGED <<marker, generated>>
      BY <2>6 DEF BeginArt, files
    <3>2. worker'[w] = [[[worker[w] EXCEPT !.brief = imported] EXCEPT !.walk = marker] EXCEPT !.at = "dressing"]
      BY <1>3, <3>1
    <3> DEFINE one == [worker[w] EXCEPT !.brief = imported]
    <3> DEFINE two == [one EXCEPT !.walk = marker]
    <3>3. worker'[w] = [two EXCEPT !.at = "dressing"]
      BY <3>2
    <3> HIDE DEF two
    <3>4. /\ two.brief = imported /\ two.walk = marker /\ two.doc = worker[w].doc /\ two.chosen = worker[w].chosen
          /\ two.id = worker[w].id /\ two.op = worker[w].op /\ two.beside = worker[w].beside
          /\ two = [layout \in DOMAIN worker[w] |-> two[layout]] /\ DOMAIN two = DOMAIN worker[w]
      <4>1. /\ one.brief = imported /\ one.doc = worker[w].doc /\ one.chosen = worker[w].chosen
            /\ one.id = worker[w].id /\ one.op = worker[w].op /\ one.beside = worker[w].beside
            /\ one = [layout \in DOMAIN worker[w] |-> one[layout]] /\ DOMAIN one = DOMAIN worker[w]
        BY <1>3 DEF Operations
      <4> HIDE DEF one
      <4> QED
        BY <1>3, <4>1 DEF two, Operations
    <3>5. /\ worker'[w].at = "dressing" /\ worker'[w].brief = imported /\ worker'[w].walk = marker
          /\ worker'[w].doc = worker[w].doc /\ worker'[w].chosen = worker[w].chosen
          /\ worker'[w].id = worker[w].id /\ worker'[w].op = worker[w].op /\ worker'[w].beside = worker[w].beside
      BY <1>3, <3>3, <3>4 DEF Operations
    <3>6. Alone(w)
      BY <1>5, <3>5 DEF Alone
    <3>7. imported = worker[w].doc /\ marker = worker[w].chosen
      BY <1>2, <3>1, <3>6 DEF WalkInv, Finds
    <3> QED
      BY <2>2, <3>1, <3>5, <3>6, <3>7 DEF Finds
  <2>7. CASE EndArt(w)
    <3>1. /\ worker[w].at = "dressing" /\ worker' = [worker EXCEPT ![w].at = "preview"]
          /\ art' = [layout |-> worker[w].walk, doc |-> worker[w].brief]
          /\ UNCHANGED <<marker, generated>>
      BY <2>7 DEF EndArt, Goes, Made
    <3>2. worker'[w] = [worker[w] EXCEPT !.at = "preview"]
      BY <1>3, <3>1
    <3>3. /\ worker'[w].at = "preview" /\ worker'[w].doc = worker[w].doc /\ worker'[w].chosen = worker[w].chosen
          /\ worker'[w].id = worker[w].id /\ Alone(w)
      BY <1>3, <1>5, <3>2 DEF Alone, Operations
    <3>4. art' = its
      BY <1>2, <3>1, <3>3 DEF WalkInv, Finds
    <3> QED
      BY <2>2, <3>1, <3>3, <3>4 DEF Finds
  <2>12. CASE BreakArt(w)
    <3>1. worker[w].beside \cap Together = {} => worker'[w] = Idle
      BY <1>3, <2>12 DEF BreakArt, Ends
    <3>2. worker[w].beside \cap Together # {} => worker'[w] = [worker[w] EXCEPT !.at = "preview"]
      BY <1>3, <2>12 DEF BreakArt, Goes
    <3>3. worker'[w].beside = worker[w].beside \/ worker'[w] = Idle
      BY <1>3, <3>1, <3>2 DEF Operations
    <3> QED
      BY <1>5, <3>1, <3>3, IdleIsPlaced DEF Alone
  <2>8. CASE BeginPackage(w)
    <3>1. /\ worker[w].at = "preview" /\ worker' = [worker EXCEPT ![w].at = "packing"]
          /\ package' = [stage |-> "begun", layout |-> marker, art |-> art, dressing |-> dressing, walk |-> worker[w].id]
          /\ UNCHANGED <<marker, generated>>
      BY <2>8 DEF BeginPackage, Goes
    <3>2. worker'[w] = [worker[w] EXCEPT !.at = "packing"]
      BY <1>3, <3>1
    <3>3. /\ worker'[w].at = "packing" /\ worker'[w].doc = worker[w].doc /\ worker'[w].chosen = worker[w].chosen
          /\ worker'[w].id = worker[w].id /\ Alone(w)
      BY <1>3, <1>5, <3>2 DEF Alone, Operations
    <3>4. art = its /\ marker = worker[w].chosen
      BY <1>2, <3>1, <3>3 DEF WalkInv, Finds
    <3> QED
      BY <2>2, <3>1, <3>3, <3>4 DEF Finds
  <2>9. CASE EnterPackage(w)
    <3>1. /\ worker[w].at = "packing" /\ worker' = [worker EXCEPT ![w].at = "packed"]
          /\ Pack(w, "entered") /\ UNCHANGED <<marker, generated>>
      BY <2>9 DEF EnterPackage, Goes
    <3>2. worker'[w] = [worker[w] EXCEPT !.at = "packed"]
      BY <1>3, <3>1
    <3>3. /\ worker'[w].at = "packed" /\ worker'[w].doc = worker[w].doc /\ worker'[w].chosen = worker[w].chosen
          /\ worker'[w].id = worker[w].id /\ Alone(w)
      BY <1>3, <1>5, <3>2 DEF Alone, Operations
    <3>4. package.layout = worker[w].chosen /\ package.art = its /\ package.walk = worker[w].id
      BY <1>2, <3>1, <3>3 DEF WalkInv, Finds
    <3>5. package'.layout = package.layout /\ package'.art = package.art /\ package'.walk = worker[w].id
      BY <1>2, <3>1, <3>4, Packing DEF WorkersInv
    <3> QED
      BY <2>2, <3>1, <3>3, <3>4, <3>5 DEF Finds
  <2>10. CASE FinishPackage(w)
    <3>1. /\ worker[w].at = "packed" /\ worker' = [worker EXCEPT ![w].at = "check"]
          /\ Pack(w, "whole") /\ UNCHANGED <<marker, generated>>
      BY <2>10 DEF FinishPackage, Goes
    <3>2. worker'[w] = [worker[w] EXCEPT !.at = "check"]
      BY <1>3, <3>1
    <3>3. /\ worker'[w].at = "check" /\ worker'[w].doc = worker[w].doc /\ worker'[w].chosen = worker[w].chosen
          /\ worker'[w].id = worker[w].id /\ Alone(w)
      BY <1>3, <1>5, <3>2 DEF Alone, Operations
    <3>4. package.layout = worker[w].chosen /\ package.art = its /\ package.walk = worker[w].id
      BY <1>2, <3>1, <3>3 DEF WalkInv, Finds
    <3>5. /\ package'.layout = package.layout /\ package'.art = package.art /\ package'.walk = worker[w].id
          /\ package'.stage = "whole"
      BY <1>2, <3>1, <3>4, Packing DEF WorkersInv
    <3> QED
      BY <2>2, <3>1, <3>3, <3>4, <3>5 DEF Finds
  <2>11. worker'[w].op = "walk"
    BY <1>5 DEF Alone
  <2> QED
    BY <1>1, <2>1, <2>3, <2>4, <2>5, <2>6, <2>7, <2>8, <2>9, <2>10, <2>11, <2>12 DEF Own
<1> QED
  BY <1>4, <1>5 DEF WalkInv

LEMMA SaveStays ==
    ASSUME AuthoringInv, NEW w \in Workers, Acts(w)
    PROVE  SaveInv'
<1>1. FilesType' /\ WorkersInv' /\ Others(w) /\ Leaves(w) /\ Own(w)
  BY Steps DEF AuthoringInv
<1>2. FilesType /\ WorkersInv /\ SaveInv
  BY DEF AuthoringInv
<1>3. /\ worker \in [Workers -> Operations] /\ worker[w] \in Operations /\ Place(worker[w])
      /\ operations \in Nat /\ opened \in [Workers -> Docs]
      /\ design.revision \in Nat /\ \A v \in Workers : opened[v].revision \in Nat
  BY <1>2 DEF WorkersInv, FilesType, Docs, Revisions
<1>4. ASSUME NEW S, S \subseteq 1..operations
      PROVE  S \subseteq 1..operations'
  <2>1. operations' \in {operations, operations + 1}
    BY <1>1 DEF Leaves
  <2>2. 1..operations \subseteq 1..operations'
    BY <1>3, <2>1
  <2> QED
    BY <1>4, <2>2
<1>5. ASSUME WriteDesign(w)
      PROVE  /\ worker[w].op = "save" /\ opened'[w] = design'
             /\ design'.edits = worker[w].doc.edits /\ design'.revision = worker[w].doc.revision
             /\ ~design'.raced => ~worker[w].doc.raced /\ "save" \notin worker[w].beside
  <2> DEFINE raced == worker[w].doc.raced \/ "save" \in worker[w].beside
  <2>1. worker[w].op = "save" /\ design' = [worker[w].doc EXCEPT !.raced = raced]
        /\ opened' = [opened EXCEPT ![w] = design']
    BY <1>5 DEF WriteDesign, Doing
  <2>2. worker[w].doc \in Docs
    BY <1>3, <2>1 DEF Place
  <2>3. raced \in BOOLEAN /\ (~raced => ~worker[w].doc.raced /\ "save" \notin worker[w].beside)
    OBVIOUS
  <2> HIDE DEF raced
  <2>4. design'.edits = worker[w].doc.edits /\ design'.revision = worker[w].doc.revision /\ design'.raced = raced
    BY <2>1, <2>2 DEF Docs
  <2>5. opened'[w] = design'
    BY <1>3, <2>1
  <2> QED
    BY <2>1, <2>3, <2>4, <2>5
<1>6. design'.edits \subseteq 1..operations'
  <2>1. CASE design' = design
    BY <1>2, <1>4, <2>1 DEF SaveInv
  <2>2. CASE WriteDesign(w)
    BY <1>2, <1>4, <1>5, <2>2 DEF SaveInv, Saves
  <2> QED
    BY <1>1, <2>1, <2>2 DEF Leaves
<1>7. ASSUME NEW v \in Workers, v # w, worker'[v].op = "save"
      PROVE  Saves(v)'
  <2>1. Stays(v) /\ worker[v].op = "save" /\ opened'[v] = opened[v]
    BY <1>1, <1>7 DEF Others, Stays, Leaves
  <2>2. Saves(v)
    BY <1>2, <2>1 DEF SaveInv
  <2>3. worker'[v].doc.edits \subseteq 1..operations'
    BY <1>4, <2>1, <2>2 DEF Saves, Stays
  <2>4. "save" \notin worker'[v].beside => design' = design
    <3>1. CASE WriteDesign(w)
      <4>1. Busy(w) /\ Busy(v) /\ worker[w].op = "save"
        BY <1>5, <2>1, <3>1 DEF Busy
      <4> QED
        BY <1>2, <1>7, <2>1, <4>1, Known
    <3> QED
      BY <1>1, <3>1 DEF Leaves
  <2> QED
    BY <2>1, <2>2, <2>3, <2>4 DEF Saves, Stays
<1>8. ASSUME worker'[w].op = "save"
      PROVE  Saves(w)'
  <2>1. PICK streets \in Streets : BeginSave(w, streets)
    BY <1>1, <1>8 DEF Own
  <2>2. /\ worker'[w].id = operations + 1 /\ worker'[w].doc = Saved(streets) /\ operations' = operations + 1
        /\ design' = design /\ opened' = opened
        /\ opened[w].revision = design.revision /\ design.revision < MaxRevision
    BY <1>2, <2>1, BeginSaveBegins DEF BeginSave, MadeTo
  <2>3. /\ Saved(streets).revision = design.revision + 1 /\ Saved(streets).raced = design.raced
        /\ Saved(streets).edits = design.edits \cup {operations + 1}
    BY <1>2, <2>2, SavedIsADesign DEF FilesType
  <2>4. design.edits \subseteq 1..operations /\ (~design.raced => opened[w].edits = design.edits)
    BY <1>2, <2>2 DEF SaveInv, Shows
  <2>5. operations + 1 \in 1..operations' /\ operations + 1 \notin 1..operations
    BY <1>3, <2>2
  <2>6. Saved(streets).edits \subseteq 1..operations'
    BY <1>4, <2>3, <2>4, <2>5
  <2>7. Saved(streets).edits \ {operations + 1} = design.edits
    BY <2>3, <2>4, <2>5
  <2> QED
    BY <2>2, <2>3, <2>4, <2>6, <2>7 DEF Saves
<1>9. ASSUME NEW v \in Workers
      PROVE  Shows(v)'
  <2>1. CASE design' = design
    <3>1. opened'[v] \in {opened[v], design}
      BY <1>1, <2>1 DEF Leaves
    <3>2. Shows(v)
      BY <1>2 DEF SaveInv
    <3> QED
      BY <1>3, <2>1, <3>1, <3>2 DEF Shows
  <2>2. CASE WriteDesign(w)
    <3>1. CASE v = w
      <4>1. opened'[v] = design' /\ design'.revision \in Nat
        BY <1>1, <1>5, <2>2, <3>1 DEF FilesType, Docs, Revisions
      <4> QED
        BY <4>1 DEF Shows
    <3>2. CASE v # w
      <4> SUFFICES ASSUME ~design'.raced PROVE opened'[v].revision < design'.revision
        BY <1>1, <1>3 DEF Shows, FilesType, Docs, Revisions
      <4>1. design'.revision = design.revision + 1 /\ ~design.raced
        BY <1>2, <1>5, <2>2 DEF SaveInv, Saves
      <4>2. opened'[v] = opened[v] /\ opened[v].revision <= design.revision
        BY <1>1, <1>2, <3>2, <4>1 DEF SaveInv, Shows, Leaves
      <4> QED
        BY <1>3, <4>1, <4>2
    <3> QED
      BY <3>1, <3>2
  <2> QED
    BY <1>1, <2>1, <2>2 DEF Leaves
<1> QED
  BY <1>6, <1>7, <1>8, <1>9 DEF SaveInv

\* A record of a walk stays true of the package, which nobody leaves as that walk's again.
LEMMA KeptStays ==
    ASSUME AuthoringInv, NEW w \in Workers, Acts(w), NEW rec, NEW r, Kept(rec, r)
    PROVE  /\ rec \in Walks /\ rec.walk \in 1..operations'
           /\ \A v \in Workers : worker'[v].op = "walk" => worker'[v].id # rec.walk
           /\ package' \in Packages /\ Truth(package', rec, r)
<1>1. FilesType' /\ WorkersInv' /\ Others(w) /\ Leaves(w) /\ Own(w)
  BY Steps DEF AuthoringInv
<1>2. FilesType /\ WorkersInv
  BY DEF AuthoringInv
<1>3. /\ worker \in [Workers -> Operations] /\ worker[w] \in Operations /\ Place(worker[w])
      /\ operations \in Nat
  BY <1>2 DEF WorkersInv, FilesType
<1>4. /\ rec \in Walks /\ rec.walk \in 1..operations /\ package \in Packages /\ Truth(package, rec, r)
      /\ \A v \in Workers : worker[v].op = "walk" => worker[v].id # rec.walk
  BY DEF Kept
<1>5. rec.walk \in 1..operations'
  <2>1. operations' \in {operations, operations + 1}
    BY <1>1 DEF Leaves
  <2> QED
    BY <1>3, <1>4, <2>1
<1>6. ASSUME NEW v \in Workers, worker'[v].op = "walk"
      PROVE  worker'[v].id # rec.walk
  <2>1. CASE v # w
    BY <1>1, <1>4, <1>6, <2>1 DEF Others, Stays
  <2>2. CASE v = w /\ BeginWalk(w)
    <3>1. worker'[v].id = operations + 1
      BY <1>2, <2>2, BeginWalkBegins
    <3> QED
      BY <1>3, <1>4, <3>1
  <2>3. CASE v = w /\ ~BeginWalk(w)
    <3>1. worker[w].op = "walk" /\ worker'[w].id = worker[w].id
      <4>1. CASE Import(w) \/ EndRun(w) \/ EndArt(w) \/ BeginPackage(w) \/ EnterPackage(w) \/ FinishPackage(w)
        <5>1. \E to : worker' = [worker EXCEPT ![w].at = to]
          BY <4>1 DEF Import, EndRun, EndArt, BeginPackage, EnterPackage, FinishPackage, Goes
        <5>2. worker'[w].op = worker[w].op /\ worker'[w].id = worker[w].id
          BY <1>3, <5>1 DEF Operations
        <5> QED
          BY <1>6, <2>3, <5>2
      <4>2. CASE BeginRun(w)
        <5>1. worker' = [[worker EXCEPT ![w].brief = imported] EXCEPT ![w].at = "building"]
          BY <4>2 DEF BeginRun
        <5>2. worker'[w].op = worker[w].op /\ worker'[w].id = worker[w].id
          BY <1>3, <5>1 DEF Operations
        <5> QED
          BY <1>6, <2>3, <5>2
      <4>3. CASE BeginArt(w)
        <5>1. worker[w].at = "art" /\ worker'[w].id = worker[w].id
          <6> DEFINE read == [worker EXCEPT ![w].brief = imported]
          <6> DEFINE told == [read EXCEPT ![w].walk = marker]
          <6>1. worker[w].at = "art" /\ worker' = [told EXCEPT ![w].at = "dressing"]
            BY <4>3 DEF BeginArt
          <6>2. worker'[w] = [[[worker[w] EXCEPT !.brief = imported] EXCEPT !.walk = marker] EXCEPT !.at = "dressing"]
            BY <1>3, <6>1
          <6> HIDE DEF told
          <6>3. worker'[w].id = [[worker[w] EXCEPT !.brief = imported] EXCEPT !.walk = marker].id
            BY <6>2
          <6> QED
            BY <1>3, <6>1, <6>3 DEF Operations
        <5> QED
          BY <1>3, <5>1 DEF Place, Dressing
      <4>4. CASE BreakArt(w)
        <5>1. worker' = [worker EXCEPT ![w] = Idle] \/ worker' = [worker EXCEPT ![w].at = "preview"]
          BY <4>4 DEF BreakArt, Ends, Goes
        <5>2. worker'[w] = Idle \/ worker'[w] = [worker[w] EXCEPT !.at = "preview"]
          BY <1>3, <5>1
        <5>3. worker'[w].op = worker[w].op /\ worker'[w].id = worker[w].id
          BY <1>3, <1>6, <2>3, <5>2, IdleIsPlaced DEF Operations
        <5> QED
          BY <1>6, <2>3, <5>3
      <4> QED
        BY <1>1, <1>6, <2>3, <4>1, <4>2, <4>3, <4>4 DEF Own
    <3> QED
      BY <1>4, <2>3, <3>1
  <2> QED
    BY <2>1, <2>2, <2>3
<1>7. Truth(package', rec, r)
  <2>1. CASE package' = package
    BY <1>4, <2>1 DEF Truth
  <2>2. ASSUME worker[w].op = "walk", package'.walk \in {worker[w].id, 0}
        PROVE  Truth(package', rec, r)
    <3>1. package'.walk # rec.walk
      BY <1>3, <1>4, <2>2
    <3> QED
      BY <3>1 DEF Truth
  <2>3. CASE BeginPackage(w)
    <3>1. package'.walk = worker[w].id /\ worker[w].op = "walk"
      BY <1>3, <2>3 DEF BeginPackage, Place, Dressing
    <3> QED
      BY <2>2, <3>1
  <2>4. CASE EnterPackage(w)
    <3>1. package'.walk = (IF package.walk = worker[w].id THEN package.walk ELSE 0) /\ worker[w].op = "walk"
      BY <1>3, <1>4, <2>4, Packing DEF EnterPackage, Place, Dressing
    <3> QED
      BY <2>2, <3>1
  <2>5. CASE FinishPackage(w)
    <3>1. package'.walk = (IF package.walk = worker[w].id THEN package.walk ELSE 0) /\ worker[w].op = "walk"
      BY <1>3, <1>4, <2>5, Packing DEF FinishPackage, Place, Dressing
    <3> QED
      BY <2>2, <3>1
  <2> QED
    BY <1>1, <2>1, <2>3, <2>4, <2>5 DEF Leaves
<1>8. package' \in Packages
  BY <1>1, <1>4 DEF Leaves
<1> QED
  BY <1>4, <1>5, <1>6, <1>7, <1>8

LEMMA RecordsStay ==
    ASSUME AuthoringInv, NEW w \in Workers, Acts(w)
    PROVE  RecordsInv'
<1>1. FilesType' /\ WorkersInv' /\ Others(w) /\ Leaves(w) /\ Own(w)
  BY Steps DEF AuthoringInv
<1>2. FilesType /\ WorkersInv /\ RecordsInv /\ WalkInv
  BY DEF AuthoringInv
<1>3. /\ worker \in [Workers -> Operations] /\ worker[w] \in Operations /\ Place(worker[w])
      /\ operations \in Nat /\ walked \in [Revisions -> Walks \cup {None}]
  BY <1>2 DEF WorkersInv, FilesType
<1>4. \A rec, r : Kept(rec, r) =>
        /\ rec \in Walks /\ rec.walk \in 1..operations'
        /\ \A v \in Workers : worker'[v].op = "walk" => worker'[v].id # rec.walk
        /\ package' \in Packages /\ Truth(package', rec, r)
  BY KeptStays
<1>5. ASSUME NEW r \in Revisions, walked'[r] # None
      PROVE  Kept(walked[r], r)'
  <2>1. CASE walked' = walked \/ (RecordWalk(w) /\ r # worker[w].doc.revision)
    <3>1. walked'[r] = walked[r]
      BY <1>3, <2>1 DEF RecordWalk
    <3>2. Kept(walked[r], r)
      BY <1>2, <1>5, <3>1 DEF RecordsInv
    <3> QED
      BY <1>4, <3>1, <3>2 DEF Kept
  <2>2. CASE RecordWalk(w) /\ r = worker[w].doc.revision
    <3> DEFINE rec == [layout |-> worker[w].chosen, walk |-> worker[w].id, beside |-> worker[w].beside]
    <3>1. /\ worker[w].at = "check" /\ walked' = [walked EXCEPT ![r] = rec]
          /\ worker' = [worker EXCEPT ![w] = Idle] /\ package' = package /\ operations' = operations
      BY <2>2 DEF RecordWalk, Ends
    <3>2. worker[w].op = "walk" /\ worker[w].id \in 1..operations /\ package \in Packages
      BY <1>2, <1>3, <3>1 DEF Place, Dressing, WorkersInv, Busy
    <3>3. rec \in Walks /\ rec.walk = worker[w].id /\ rec.layout = worker[w].chosen /\ rec.beside = worker[w].beside
      BY <1>3 DEF Walks, Operations
    <3>4. walked'[r] = rec
      BY <1>3, <3>1
    <3> HIDE DEF rec
    <3>5. \A v \in Workers : worker'[v].op = "walk" => worker'[v].id # rec.walk
      <4> SUFFICES ASSUME NEW v \in Workers, worker'[v].op = "walk"
                   PROVE  worker'[v].id # rec.walk
        OBVIOUS
      <4>1. v # w
        BY <1>3, <3>1, IdleIsPlaced
      <4>2. worker'[v] = worker[v]
        BY <1>3, <3>1, <4>1
      <4>3. Busy(v) /\ Busy(w)
        BY <3>2, <4>2 DEF Busy
      <4> QED
        BY <1>2, <3>3, <4>1, <4>2, <4>3 DEF WorkersInv
    <3>6. Truth(package', rec, r)
      <4> SUFFICES ASSUME worker[w].beside \cap Together = {}
                   PROVE  /\ package.layout = rec.layout /\ package.art.layout = rec.layout
                          /\ package.art.doc.revision = r /\ package.stage = "whole"
        BY <3>1, <3>3 DEF Truth
      <4>1. Finds(w)
        BY <1>2, <3>2 DEF WalkInv, Alone
      <4>2. /\ package.layout = worker[w].chosen /\ package.stage = "whole"
            /\ package.art = [layout |-> worker[w].chosen, doc |-> worker[w].doc]
        BY <3>1, <4>1 DEF Finds
      <4> QED
        BY <2>2, <3>3, <4>2
    <3> QED
      BY <3>1, <3>2, <3>3, <3>4, <3>5, <3>6 DEF Kept
  <2> QED
    BY <1>1, <2>1, <2>2 DEF Leaves
<1>6. ASSUME NEW v \in Workers, worker'[v].op = "export"
      PROVE  Kept(worker[v].walk, worker[v].doc.revision)'
  <2>1. CASE worker[v].op = "export" /\ worker'[v].walk = worker[v].walk /\ worker'[v].doc = worker[v].doc
    <3>1. Kept(worker[v].walk, worker[v].doc.revision)
      BY <1>2, <2>1 DEF RecordsInv
    <3> QED
      BY <1>4, <2>1, <3>1 DEF Kept
  <2>2. CASE v # w
    BY <1>1, <1>6, <2>1, <2>2 DEF Others, Stays
  <2>3. ASSUME v = w, NEW dest \in Destinations, BeginExport(w, dest)
        PROVE  Kept(worker[v].walk, worker[v].doc.revision)'
    <3>1. worker'[w].walk = walked[design.revision] /\ worker'[w].doc = design
      BY <1>2, <2>3, BeginExportBegins DEF WalkOf
    <3>2. Kept(walked[design.revision], design.revision)
      BY <1>2, <2>3 DEF BeginExport, WalkOf, RecordsInv, FilesType, Docs
    <3> QED
      BY <1>4, <2>3, <3>1, <3>2 DEF Kept
  <2>4. CASE v = w /\ (BeginCopy(w) \/ EndCopy(w) \/ Rename(w))
    <3>1. /\ worker[w].at \in Copying
          /\ \E to : worker' = [worker EXCEPT ![w].at = to]
      BY <2>4 DEF BeginCopy, EndCopy, Rename, CopyIsOver, Goes, Copying
    <3>2. worker[w].op = "export" /\ worker'[w].walk = worker[w].walk /\ worker'[w].doc = worker[w].doc
      BY <1>3, <3>1 DEF Place, Operations
    <3> QED
      BY <2>1, <2>4, <3>2
  <2> QED
    BY <1>1, <1>6, <2>2, <2>3, <2>4 DEF Own
<1> QED
  BY <1>5, <1>6 DEF RecordsInv

LEMMA CopyStays ==
    ASSUME AuthoringInv, NEW w \in Workers, Acts(w)
    PROVE  CopyInv'
<1>1. FilesType' /\ WorkersInv' /\ Others(w) /\ Leaves(w) /\ Own(w)
  BY Steps DEF AuthoringInv
<1>2. FilesType /\ WorkersInv /\ CopyInv
  BY DEF AuthoringInv
<1>3. /\ worker \in [Workers -> Operations] /\ worker[w] \in Operations /\ Place(worker[w])
      /\ staging \in [Destinations -> Staged \cup {None}]
  BY <1>2 DEF WorkersInv, FilesType
<1>4. ASSUME NEW v \in Workers, v # w, worker'[v].op = "export", "export" \notin worker'[v].beside
      PROVE  OwnCopy(v)'
  <2>1. Stays(v) /\ worker[v].op = "export" /\ "export" \notin worker[v].beside /\ Busy(v)
    BY <1>1, <1>4 DEF Others, Stays, Busy
  <2>2. worker[w].op # "export"
    BY <1>2, <1>4, <2>1, Known DEF Busy
  <2>3. staging' = staging /\ OwnCopy(v)
    BY <1>1, <1>2, <2>1, <2>2 DEF Leaves, CopyInv
  <2> QED
    BY <2>1, <2>3 DEF OwnCopy, Stays
<1>5. ASSUME worker'[w].op = "export", "export" \notin worker'[w].beside
      PROVE  OwnCopy(w)'
  <2>1. ASSUME NEW dest \in Destinations, BeginExport(w, dest)
        PROVE  OwnCopy(w)'
    <3>1. worker'[w].at = "copy"
      BY <1>2, <2>1, BeginExportBegins
    <3> QED
      BY <3>1 DEF OwnCopy
  <2>2. CASE BeginCopy(w)
    <3> DEFINE copy == [by |-> worker[w].id, copied |-> FALSE, package |-> package]
    <3>1. /\ worker[w].at = "copy" /\ worker' = [worker EXCEPT ![w].at = "copying"] /\ package \in Packages
          /\ staging' = [staging EXCEPT ![worker[w].dest] = copy]
      BY <1>2, <2>2 DEF BeginCopy, Goes, FilesType
    <3>2. worker[w].dest \in Destinations /\ copy \in Staged /\ copy.by = worker[w].id
      BY <1>3, <3>1 DEF Place, Copying, Operations, Staged
    <3>3. worker'[w].at = "copying" /\ worker'[w].dest = worker[w].dest /\ worker'[w].id = worker[w].id
      BY <1>3, <3>1 DEF Operations
    <3>4. staging'[worker[w].dest] = copy
      BY <1>3, <3>1, <3>2
    <3> QED
      BY <3>2, <3>3, <3>4 DEF OwnCopy
  <2>3. CASE EndCopy(w)
    <3>1. worker[w].at = "copying" /\ worker' = [worker EXCEPT ![w].at = "rename"]
      BY <2>3 DEF EndCopy, Goes
    <3>2. /\ worker'[w].at = "rename" /\ worker'[w].dest = worker[w].dest /\ worker'[w].id = worker[w].id
          /\ worker'[w].op = worker[w].op /\ worker'[w].beside = worker[w].beside
      BY <1>3, <3>1 DEF Operations
    <3>3. worker[w].dest \in Destinations /\ worker[w].id \in Nat
      BY <1>3, <3>1 DEF Place, Copying, Operations
    <3>4. staging[worker[w].dest].by = worker[w].id
      BY <1>2, <1>5, <3>1, <3>2 DEF CopyInv, OwnCopy
    <3>5. staging'[worker[w].dest] \in Staged /\ staging'[worker[w].dest].copied
      BY <1>2, <2>3, <3>3, <3>4, Copied
    <3> QED
      BY <3>2, <3>5 DEF OwnCopy
  <2>4. CASE Rename(w)
    <3>1. worker' = [worker EXCEPT ![w].at = "tell"]
      BY <2>4 DEF Rename, Goes
    <3>2. worker'[w].at = "tell"
      BY <1>3, <3>1 DEF Operations
    <3> QED
      BY <3>2 DEF OwnCopy
  <2> QED
    BY <1>1, <1>5, <2>1, <2>2, <2>3, <2>4 DEF Own
<1> QED
  BY <1>4, <1>5 DEF CopyInv

LEMMA StagedStays ==
    ASSUME AuthoringInv, NEW w \in Workers, Acts(w)
    PROVE  StagedInv'
<1>1. FilesType' /\ WorkersInv' /\ Others(w) /\ Leaves(w) /\ Own(w)
  BY Steps DEF AuthoringInv
<1>2. FilesType /\ WorkersInv /\ StagedInv /\ RecordsInv
  BY DEF AuthoringInv
<1>3. /\ worker \in [Workers -> Operations] /\ worker[w] \in Operations /\ Place(worker[w])
      /\ staging \in [Destinations -> Staged \cup {None}]
  BY <1>2 DEF WorkersInv, FilesType
<1> DEFINE Copies(v) == worker[v].op = "export" /\ worker[v].dest \in Destinations
                        /\ Kept(worker[v].walk, worker[v].doc.revision)
<1> DEFINE Says(v, p) == Truth(p, worker[v].walk, worker[v].doc.revision)
\* Whatever the step does to a folder staged, what an export says of it is as true as it was.
<1>4. ASSUME NEW d \in Destinations, staging'[d] # None
      PROVE  \A v \in Workers :
                Copies(v) /\ (staging[d] # None => Says(v, staging[d].package)) => Says(v, staging'[d].package)
  <2> SUFFICES ASSUME NEW v \in Workers, Copies(v), staging[d] # None => Says(v, staging[d].package)
               PROVE  Says(v, staging'[d].package)
    OBVIOUS
  <2>1. CASE staging'[d] = staging[d]
    BY <1>4, <2>1
  <2>2. CASE BeginCopy(w) /\ d = worker[w].dest
    <3>1. staging'[d].package = package
      BY <1>3, <2>2 DEF BeginCopy
    <3> QED
      BY <3>1 DEF Kept
  <2>3. CASE EndCopy(w) /\ d = worker[w].dest
    <3>1. worker[w].id \in Nat
      BY <1>3 DEF Operations
    <3>2. /\ staging[d] # None
          /\ staging'[d].package.stage = staging[d].package.stage
          /\ staging'[d].package.layout = staging[d].package.layout
          /\ staging'[d].package.art = staging[d].package.art
          /\ staging'[d].package.walk \in {staging[d].package.walk, 0}
      BY <1>2, <2>3, <3>1, Copied DEF EndCopy
    <3>3. worker[v].walk.walk # 0
      BY DEF Kept
    <3> QED
      BY <3>2, <3>3 DEF Truth
  <2>4. CASE Rename(w) /\ d = worker[w].dest
    BY <1>3, <1>4, <2>4 DEF Rename
  <2>5. CASE (BeginCopy(w) \/ EndCopy(w) \/ Rename(w)) /\ d # worker[w].dest
    <3>1. staging'[d] = staging[d]
      <4>1. CASE BeginCopy(w)
        BY <1>3, <2>5, <4>1 DEF BeginCopy
      <4>2. CASE EndCopy(w)
        <5>1. worker[w].id \in Nat /\ worker[w].dest \in Destinations
          BY <1>3, <4>2 DEF EndCopy, Place, Copying, Operations
        <5> QED
          BY <1>2, <2>5, <4>2, <5>1, Copied
      <4>3. CASE Rename(w)
        BY <1>3, <2>5, <4>3 DEF Rename
      <4> QED
        BY <2>5, <4>1, <4>2, <4>3
    <3> QED
      BY <2>1, <3>1
  <2> QED
    BY <1>1, <2>1, <2>2, <2>3, <2>4, <2>5 DEF Leaves
<1>5. ASSUME NEW v \in Workers, worker'[v].at \in {"copying", "rename"}, staging'[worker'[v].dest] # None
      PROVE  Truth(staging'[worker'[v].dest].package, worker'[v].walk, worker'[v].doc.revision)
  <2>1. CASE Copies(v) /\ worker'[v].walk = worker[v].walk /\ worker'[v].doc = worker[v].doc
             /\ worker'[v].dest = worker[v].dest
             /\ (staging[worker[v].dest] # None => Says(v, staging[worker[v].dest].package))
    BY <1>4, <1>5, <2>1
  <2>2. CASE v # w
    <3>1. Stays(v) /\ worker[v].at \in {"copying", "rename"}
      BY <1>1, <1>5, <2>2 DEF Others, Stays
    <3>2. Copies(v)
      BY <1>2, <3>1 DEF WorkersInv, Place, Copying, RecordsInv
    <3>3. staging[worker[v].dest] # None => Says(v, staging[worker[v].dest].package)
      BY <1>2, <3>1 DEF StagedInv
    <3> QED
      BY <2>1, <3>1, <3>2, <3>3 DEF Stays
  <2>3. CASE v = w /\ BeginCopy(w)
    <3>1. worker[w].at = "copy" /\ worker' = [worker EXCEPT ![w].at = "copying"]
      BY <2>3 DEF BeginCopy, Goes
    <3>2. worker'[w].walk = worker[w].walk /\ worker'[w].doc = worker[w].doc /\ worker'[w].dest = worker[w].dest
      BY <1>3, <3>1 DEF Operations
    <3>3. Copies(w)
      BY <1>2, <1>3, <3>1 DEF Place, Copying, RecordsInv
    <3>4. staging'[worker[w].dest].package = package
      BY <1>3, <2>3, <3>3 DEF BeginCopy
    <3> QED
      BY <2>3, <3>2, <3>3, <3>4 DEF Kept
  <2>4. CASE v = w /\ EndCopy(w)
    <3>1. worker[w].at = "copying" /\ worker' = [worker EXCEPT ![w].at = "rename"]
      BY <2>4 DEF EndCopy, Goes
    <3>2. worker'[w].walk = worker[w].walk /\ worker'[w].doc = worker[w].doc /\ worker'[w].dest = worker[w].dest
      BY <1>3, <3>1 DEF Operations
    <3>3. Copies(w) /\ (staging[worker[w].dest] # None => Says(w, staging[worker[w].dest].package))
      BY <1>2, <1>3, <3>1 DEF Place, Copying, RecordsInv, StagedInv
    <3> QED
      BY <2>1, <2>4, <3>2, <3>3
  <2>5. CASE v = w /\ ~BeginCopy(w) /\ ~EndCopy(w)
    <3>1. worker'[w].op = "export"
      BY <1>1, <1>5, <2>5 DEF WorkersInv, Place, Copying
    <3>2. ASSUME NEW dest \in Destinations, BeginExport(w, dest) PROVE worker'[w].at = "copy"
      BY <1>2, <3>2, BeginExportBegins
    <3>3. ASSUME Rename(w) PROVE worker'[w].at = "tell"
      <4>1. worker' = [worker EXCEPT ![w].at = "tell"]
        BY <3>3 DEF Rename, Goes
      <4> QED
        BY <1>3, <4>1 DEF Operations
    <3> QED
      BY <1>1, <1>5, <2>5, <3>1, <3>2, <3>3 DEF Own
  <2> QED
    BY <2>2, <2>3, <2>4, <2>5
<1> QED
  BY <1>5 DEF StagedInv

LEMMA SnapshotsStay ==
    ASSUME AuthoringInv, NEW w \in Workers, Acts(w)
    PROVE  SnapshotsInv'
<1>1. Leaves(w)
  BY Steps DEF AuthoringInv
<1>2. FilesType /\ WorkersInv /\ CopyInv /\ StagedInv /\ SnapshotsInv
  BY DEF AuthoringInv
<1>3. /\ worker[w] \in Operations /\ Place(worker[w])
      /\ snapshots \in [Destinations -> Snapshots \cup {None}]
  BY <1>2 DEF WorkersInv, FilesType
<1>4. CASE snapshots' = snapshots
  BY <1>2, <1>4 DEF SnapshotsInv
<1>5. CASE Rename(w)
  <2> DEFINE staged == staging[worker[w].dest]
  <2>1. /\ worker[w].at = "rename" /\ staged # None
        /\ snapshots' = [snapshots EXCEPT ![worker[w].dest] =
              [revision |-> worker[w].doc.revision, walk |-> worker[w].walk, copied |-> staged.copied,
               package |-> staged.package, beside |-> worker[w].beside]]
    BY <1>5 DEF Rename, CopyIsOver
  <2>2. worker[w].op = "export"
    BY <1>3, <2>1 DEF Place, Copying
  <2>3. staged.copied \/ "export" \in worker[w].beside
    BY <1>2, <2>1, <2>2 DEF CopyInv, OwnCopy
  <2>4. Truth(staged.package, worker[w].walk, worker[w].doc.revision)
    BY <1>2, <2>1 DEF StagedInv
  <2> HIDE DEF staged
  <2>5. \A d \in Destinations :
          IF d = worker[w].dest
          THEN /\ snapshots'[d].copied = staged.copied /\ snapshots'[d].beside = worker[w].beside
               /\ snapshots'[d].package = staged.package /\ snapshots'[d].walk = worker[w].walk
               /\ snapshots'[d].revision = worker[w].doc.revision
          ELSE snapshots'[d] = snapshots[d]
    BY <1>3, <2>1
  <2> QED
    BY <1>2, <2>3, <2>4, <2>5 DEF SnapshotsInv
<1> QED
  BY <1>1, <1>4, <1>5 DEF Leaves

------------------------------------------------------------------------------
(* The invariant, and what it says.                                        *)

LEMMA AuthoringStarts == Init => AuthoringInv
<1> SUFFICES ASSUME Init PROVE AuthoringInv
  OBVIOUS
<1>1. NewDesign \in Docs /\ NewDesign.edits = {} /\ NewDesign.revision = 1
  BY AuthoringAssumption DEF NewDesign, Docs, Revisions
<1>2. FilesType
  BY <1>1 DEF Init, FilesType, Maybe
<1>3. \A w \in Workers : worker[w] = Idle
  BY DEF Init
<1>4. WorkersInv
  <2>1. worker \in [Workers -> Operations]
    BY IdleIsPlaced DEF Init
  <2> QED
    BY <1>3, <2>1, IdleIsPlaced DEF WorkersInv, Busy
<1>5. SaveInv
  BY <1>1, <1>3, IdleIsPlaced DEF Init, SaveInv, Shows
<1>6. WalkInv /\ CopyInv /\ StagedInv
  BY <1>3, IdleIsPlaced DEF WalkInv, Alone, CopyInv, StagedInv
<1>7. RecordsInv
  BY <1>3, IdleIsPlaced DEF Init, RecordsInv
<1>8. SnapshotsInv
  BY DEF Init, SnapshotsInv
<1> QED
  BY <1>2, <1>4, <1>5, <1>6, <1>7, <1>8 DEF AuthoringInv

LEMMA AuthoringGoesOn == AuthoringInv /\ [Next]_vars => AuthoringInv'
<1> SUFFICES ASSUME AuthoringInv, [Next]_vars PROVE AuthoringInv'
  OBVIOUS
<1>1. ASSUME NEW w \in Workers, Acts(w) PROVE AuthoringInv'
  BY <1>1, Steps, SaveStays, WalkStays, RecordsStay, CopyStays, StagedStays, SnapshotsStay DEF AuthoringInv
<1>2. CASE UNCHANGED vars
  <2>1. /\ UNCHANGED <<design, opened, worker, operations>>
        /\ UNCHANGED <<request, imported, marker, art, dressing, package, generated, walked, staging, snapshots>>
    BY <1>2 DEF vars, files
  <2>2. FilesType' /\ WorkersInv'
    BY <2>1 DEF AuthoringInv, FilesType, WorkersInv, Busy
  <2>3. SaveInv' /\ WalkInv'
    BY <2>1 DEF AuthoringInv, SaveInv, Saves, Shows, WalkInv, Alone, Finds, Generations, Latest
  <2>4. RecordsInv'
    BY <2>1 DEF AuthoringInv, RecordsInv, Kept
  <2>5. CopyInv' /\ StagedInv' /\ SnapshotsInv'
    BY <2>1 DEF AuthoringInv, CopyInv, OwnCopy, StagedInv, SnapshotsInv
  <2> QED
    BY <2>2, <2>3, <2>4, <2>5 DEF AuthoringInv
<1>3. CASE Next
  <2>1. PICK w \in Workers : Acts(w)
    BY <1>3 DEF Next, Acts
  <2> QED
    BY <1>1, <2>1
<1> QED
  BY <1>2, <1>3

LEMMA AuthoringAlways == Spec => []AuthoringInv
BY AuthoringStarts, AuthoringGoesOn, PTL DEF Spec

\* What any number of workers read and write is of the types it is meant to be, no two in
\* progress have the same number, and each knows of the others.
THEOREM AuthoringType == Spec => [](FilesType /\ WorkersInv)
<1>1. AuthoringInv => FilesType /\ WorkersInv
  BY DEF AuthoringInv
<1> QED
  BY <1>1, AuthoringAlways, PTL

\* However many panels save at once, a change that overlapped no other is laid over the
\* design its designer saw (operations.py update_design).
THEOREM SavesAreOnWhatWasOpened == Spec => []SavesOnWhatWasOpened
<1>1. AuthoringInv => SavesOnWhatWasOpened
  BY DEF AuthoringInv, SaveInv, Saves, SavesOnWhatWasOpened, Doing
<1> QED
  BY <1>1, AuthoringAlways, PTL

\* A folder that exists is a whole snapshot, wherever an export was killed, unless two
\* exports ran at once (exporting.py's staging and rename).
THEOREM EverySnapshotIsWhole == Spec => []SnapshotsAreWhole
<1>1. AuthoringInv => SnapshotsAreWhole
  BY DEF AuthoringInv, SnapshotsInv, SnapshotsAreWhole
<1> QED
  BY <1>1, AuthoringAlways, PTL

\* What a walk's record says of the package it left, and a snapshot's record of what was
\* copied from it, is so (walking.py walk, exporting.py export).
THEOREM RecordsAreTrue == Spec => []RecordsTellTheTruth
<1>1. AuthoringInv => RecordsTellTheTruth
  <2> SUFFICES ASSUME AuthoringInv PROVE RecordsTellTheTruth
    OBVIOUS
  <2>1. \A r \in Revisions : walked[r] # None => Truth(package, walked[r], r)
    BY DEF AuthoringInv, RecordsInv, Kept
  <2>2. \A d \in Destinations :
          snapshots[d] # None => Truth(snapshots[d].package, snapshots[d].walk, snapshots[d].revision)
    BY DEF AuthoringInv, SnapshotsInv
  <2> QED
    BY <2>1, <2>2 DEF RecordsTellTheTruth, Truth
<1> QED
  BY <1>1, AuthoringAlways, PTL

\* A walk nothing ran beside is of the streets of the layouts last generated (walking.py
\* walk's check of the last layout record).
THEOREM WalksAreOfWhatWasGenerated == Spec => []WalksWhatWasGenerated
<1>1. AuthoringInv => WalksWhatWasGenerated
  <2> SUFFICES ASSUME AuthoringInv, NEW w \in Workers,
                      worker[w].op = "walk", worker[w].at = "check", worker[w].beside = {}, Generations # {}
               PROVE  Latest.streets = package.art.doc.streets
    BY DEF WalksWhatWasGenerated, Doing
  <2>1. Finds(w)
    BY DEF AuthoringInv, WalkInv, Alone
  <2>2. /\ Latest.streets = worker[w].doc.streets
        /\ package.art = [layout |-> worker[w].chosen, doc |-> worker[w].doc]
    BY <2>1 DEF Finds
  <2> QED
    BY <2>2
<1> QED
  BY <1>1, AuthoringAlways, PTL

==============================================================================
