------------------------------ MODULE Authoring -------------------------------
(***************************************************************************)
(* A level made through the service: its design saved as revisions, its    *)
(* layouts generated, one of them chosen and walked, and the package that  *)
(* was walked exported as a snapshot (packages/service: operations.py,     *)
(* design.py, layouts.py, walking.py, exporting.py).                       *)
(*                                                                         *)
(* Every operation is a worker process.  A panel starts one at a time, but *)
(* a second panel on the same level, or a worker that outlives its panel,  *)
(* makes two; they share the level's folder and take no lock.  An          *)
(* operation made of legs may be stopped, killed or refused after any.     *)
(*                                                                         *)
(* Of a design only the control that rebuilds layouts (streets) is told    *)
(* apart from the others.  What the gates, the lock and the jobs do inside *)
(* a leg is in Gates and Scheduler.                                        *)
(***************************************************************************)
EXTENDS Naturals, FiniteSets, FiniteSetsExt

CONSTANTS
    Workers,       \* worker processes there may be at once
    Candidates,    \* layouts of the level, by their seeds
    Streets,       \* values of the controls that rebuild layouts
    Destinations,  \* folders a designer may export to
    None,
    MaxOperations, \* operations started, a bound
    MaxRevision    \* revisions of the design, a bound

ASSUME AuthoringAssumption ==
    /\ None \notin Candidates \cup Streets \cup Destinations
    /\ Streets # {}
    /\ MaxOperations \in Nat /\ MaxRevision \in Nat \ {0}

VARIABLES
    design,     \* design.json
    opened,     \* worker -> the design the panel that starts it shows
    worker,     \* worker -> the operation it runs
    request,    \* request/: the design the batch and the brief were derived from
    imported,   \* the workspace's brief: the design it came from
    shell,      \* layout -> the streets its shell was built with
    marker,     \* the layout chosen
    art,        \* the themed level: its layout, and the design its chain was built from
    dressing,   \* what the surfaces' chain made beside it: likewise
    package,    \* exports/<mission>
    generated,  \* revision -> the design its builds/revision_<n>.json names
    walked,     \* revision -> builds/revision_<n>.walk.json
    exported,   \* revision -> builds/revision_<n>.export.json: where to
    staging,    \* destination -> its hidden .partial sibling
    snapshots,  \* destination -> the folder
    operations  \* operations started

files == <<request, imported, shell, marker, art, dressing, package, generated, walked, exported, staging, snapshots>>
vars == <<design, opened, worker, files, operations>>

Revisions == 1..MaxRevision

\* edits and raced are history: the saves a design carries, and whether one of them
\* overlapped another save.
NewDesign == [revision |-> 1, streets |-> CHOOSE s \in Streets : TRUE, edits |-> {}, raced |-> FALSE]

\* beside is history: the operations that ran at some time while this one did.
Idle == [op |-> "idle", at |-> "idle", id |-> 0, doc |-> None, brief |-> None, chosen |-> None,
         walk |-> None, dest |-> None, beside |-> {}]
Active == {w \in Workers : worker[w] # Idle}
Doing(w, op, at) == worker[w].op = op /\ worker[w].at = at

------------------------------------------------------------------------------
(* An operation begins by reading the design.                              *)

\* The others learn that this one ran beside them, and it that they do.
Began(w, as) ==
    /\ worker[w] = Idle /\ operations < MaxOperations
    /\ operations' = operations + 1
    /\ worker' = [v \in Workers |->
            IF v = w THEN [as EXCEPT !.id = operations + 1, !.beside = {worker[u].op : u \in Active}]
            ELSE IF v \in Active THEN [worker[v] EXCEPT !.beside = @ \cup {as.op}]
            ELSE worker[v]]

\* The operations that write what a walk reads.
Together == {"generate", "choose", "walk"}

Goes(w, to) == worker' = [worker EXCEPT ![w].at = to]
Ends(w) == worker' = [worker EXCEPT ![w] = Idle]

\* open_design, with nothing else going on in it.
Open(w) ==
    /\ worker[w] = Idle /\ opened[w] # design
    /\ opened' = [opened EXCEPT ![w] = design]
    /\ UNCHANGED <<design, worker, files, operations>>

------------------------------------------------------------------------------
(* update_design: the revision is checked on the file as read, and the     *)
(* next one written over whatever is there by then.                        *)

\* Mutant of MadeTo: the revision the change was made to is not looked at.
MadeToAny(seen, doc) == TRUE

MadeTo(seen, doc) == seen.revision = doc.revision

\* A change of streets, or (streets unchanged) of any other control.
BeginSave(w, streets) ==
    /\ MadeTo(opened[w], design)
    /\ design.revision < MaxRevision
    /\ Began(w, [Idle EXCEPT !.op = "save", !.at = "write",
                    !.doc = [design EXCEPT !.revision = @ + 1, !.streets = streets,
                                           !.edits = @ \cup {operations + 1}]])
    /\ UNCHANGED <<design, opened, files>>

WriteDesign(w) ==
    /\ Doing(w, "save", "write")
    /\ design' = [worker[w].doc EXCEPT !.raced = @ \/ "save" \in worker[w].beside]
    /\ opened' = [opened EXCEPT ![w] = design']
    /\ Ends(w)
    /\ UNCHANGED <<files, operations>>

------------------------------------------------------------------------------
(* The legs generate_layouts and walk_level share.                         *)

\* The request is written over the level's last one, whoever is about to import that.
BeginGenerate(w) ==
    /\ Began(w, [Idle EXCEPT !.op = "generate", !.at = "import", !.doc = design])
    /\ request' = design
    /\ UNCHANGED <<design, opened, imported, shell, marker, art, dressing, package, generated, walked,
                   exported, staging, snapshots>>

\* Mutant of Import: a brief imported before is kept.
ImportOnce(w) ==
    /\ worker[w].at = "import"
    /\ imported' = IF imported = None THEN request ELSE imported
    /\ Goes(w, "run")
    /\ UNCHANGED <<design, opened, request, shell, marker, art, dressing, package, generated, walked,
                   exported, staging, snapshots, operations>>

\* batch create
Import(w) ==
    /\ worker[w].at = "import"
    /\ imported' = request
    /\ Goes(w, "run")
    /\ UNCHANGED <<design, opened, request, shell, marker, art, dressing, package, generated, walked,
                   exported, staging, snapshots, operations>>

\* run: planned from the workspace's brief as it stands.
BeginRun(w) ==
    /\ worker[w].at = "run"
    /\ worker' = [worker EXCEPT ![w].brief = imported, ![w].at = "building"]
    /\ UNCHANGED <<design, opened, files, operations>>

\* Candidates fail or are eliminated one by one: a run that ends well, or stops, built any of them.
EndRun(w) ==
    /\ worker[w].at = "building"
    /\ \E built \in SUBSET Candidates :
          shell' = [c \in Candidates |-> IF c \in built THEN worker[w].brief.streets ELSE shell[c]]
    /\ Goes(w, IF worker[w].op = "generate" THEN "record" ELSE "art")
    /\ UNCHANGED <<design, opened, request, imported, marker, art, dressing, package, generated, walked,
                   exported, staging, snapshots, operations>>

Built == {c \in Candidates : shell[c] # None}

\* The record names the brief of the design as it was read.
RecordLayouts(w) ==
    /\ Doing(w, "generate", "record")
    /\ Built # {}
    /\ generated' = [generated EXCEPT ![worker[w].doc.revision] = worker[w].doc]
    /\ Ends(w)
    /\ UNCHANGED <<design, opened, request, imported, shell, marker, art, dressing, package, walked,
                   exported, staging, snapshots, operations>>

------------------------------------------------------------------------------
(* choose_layout                                                           *)

BeginChoose(w, c) ==
    /\ c \in Built
    /\ Began(w, [Idle EXCEPT !.op = "choose", !.at = "approve", !.chosen = c])
    /\ UNCHANGED <<design, opened, files>>

ApproveChoice(w) ==
    /\ Doing(w, "choose", "approve")
    /\ marker' = worker[w].chosen
    /\ Ends(w)
    /\ UNCHANGED <<design, opened, request, imported, shell, art, dressing, package, generated, walked,
                   exported, staging, snapshots, operations>>

------------------------------------------------------------------------------
(* walk_level                                                              *)

\* latest_layout_record: of the highest revision recorded.
Generations == {r \in Revisions : generated[r] # None}
Latest == generated[Max(Generations)]

\* Mutant of LayoutsCurrent: the layouts are taken whatever they were generated from.
LayoutsCurrentAny(doc) == TRUE

LayoutsCurrent(doc) == Generations # {} => Latest.streets = doc.streets

BeginWalk(w) ==
    /\ imported # None
    /\ marker # None
    /\ LayoutsCurrent(design)
    /\ Began(w, [Idle EXCEPT !.op = "walk", !.at = "import", !.doc = design, !.chosen = marker])
    /\ request' = design
    /\ UNCHANGED <<design, opened, imported, shell, marker, art, dressing, package, generated, walked,
                   exported, staging, snapshots>>

\* run --art: the layout is the marker's by now, the brief the workspace's by now.
BeginArt(w) ==
    /\ worker[w].at = "art"
    /\ worker' = [worker EXCEPT ![w].brief = imported, ![w].walk = marker, ![w].at = "dressing"]
    /\ UNCHANGED <<design, opened, files, operations>>

Made(w) == [layout |-> worker[w].walk, doc |-> worker[w].brief]

\* The leg is over with no blocker an export reads: the level is built anew.  It may
\* have found some in the surfaces' chain, which leaves what that published before.
EndArt(w) ==
    /\ worker[w].at = "dressing"
    /\ art' = Made(w)
    /\ dressing' \in {dressing, Made(w)}
    /\ shell' = [shell EXCEPT ![worker[w].walk] = worker[w].brief.streets]
    /\ Goes(w, "preview")
    /\ UNCHANGED <<design, opened, request, imported, marker, package, generated, walked,
                   exported, staging, snapshots, operations>>

\* A job before the end of the chain fails, or the leg is stopped: what was published
\* by then stays.  Its findings, exit code 1, end no walk; the export the preview begins
\* with refuses them, if they are still the last ones and name the layout chosen.
BreakArt(w) ==
    /\ worker[w].at = "dressing"
    /\ art' \in {art, Made(w)}
    /\ shell' \in {shell, [shell EXCEPT ![worker[w].walk] = worker[w].brief.streets]}
    /\ IF worker[w].beside \cap Together = {} THEN Ends(w) ELSE Goes(w, "preview")
    /\ UNCHANGED <<design, opened, request, imported, marker, dressing, package, generated,
                   walked, exported, staging, snapshots, operations>>

\* walk: the last package is removed and another laid of the choice and the art as they are.
BeginPackage(w) ==
    /\ worker[w].at = "preview"
    /\ package' = [stage |-> "begun", layout |-> marker, art |-> art, dressing |-> dressing,
                 walk |-> worker[w].id]
    /\ Goes(w, "packing")
    /\ UNCHANGED <<design, opened, request, imported, shell, marker, art, dressing, generated, walked,
                   exported, staging, snapshots, operations>>

\* The entry scene is in, then the rest; two walks at it at once leave nobody's package.
Pack(w, stage) ==
    package' = [package EXCEPT !.stage = stage, !.walk = IF @ = worker[w].id THEN @ ELSE 0]

EnterPackage(w) ==
    /\ worker[w].at = "packing"
    /\ Pack(w, "entered")
    /\ Goes(w, "packed")
    /\ UNCHANGED <<design, opened, request, imported, shell, marker, art, dressing, generated, walked,
                   exported, staging, snapshots, operations>>

FinishPackage(w) ==
    /\ worker[w].at = "packed"
    /\ Pack(w, "whole")
    /\ Goes(w, "check")
    /\ UNCHANGED <<design, opened, request, imported, shell, marker, art, dressing, generated, walked,
                   exported, staging, snapshots, operations>>

\* The preview is imported and checked, and the walk recorded beside the design read.
RecordWalk(w) ==
    /\ worker[w].at = "check"
    /\ walked' = [walked EXCEPT ![worker[w].doc.revision] =
            [layout |-> worker[w].chosen, walk |-> worker[w].id, beside |-> worker[w].beside]]
    /\ Ends(w)
    /\ UNCHANGED <<design, opened, request, imported, shell, marker, art, dressing, package, generated,
                   exported, staging, snapshots, operations>>

------------------------------------------------------------------------------
(* export_level                                                            *)

WalkOf(doc) == walked[doc.revision]

BeginExport(w, dest) ==
    /\ WalkOf(design) # None
    /\ package # None /\ package.stage \in {"entered", "whole"}
    /\ snapshots[dest] = None
    /\ Began(w, [Idle EXCEPT !.op = "export", !.at = "copy", !.doc = design,
                             !.walk = WalkOf(design), !.dest = dest])
    /\ UNCHANGED <<design, opened, files>>

\* After the portability test: what an export before left staged is removed.
BeginCopy(w) ==
    /\ worker[w].at = "copy"
    /\ package # None
    /\ staging' = [staging EXCEPT ![worker[w].dest] =
            [by |-> worker[w].id, copied |-> FALSE, package |-> package]]
    /\ Goes(w, "copying")
    /\ UNCHANGED <<design, opened, request, imported, shell, marker, art, dressing, package, generated,
                   walked, exported, snapshots, operations>>

\* A package rewritten under the copy leaves a copy of neither.
EndCopy(w) ==
    LET staged == staging[worker[w].dest] IN
    /\ worker[w].at = "copying"
    /\ staged # None
    /\ staging' = [staging EXCEPT ![worker[w].dest].copied = staged.by = worker[w].id,
                                  ![worker[w].dest].package.walk =
                                        IF staged.package = package THEN @ ELSE 0]
    /\ Goes(w, "rename")
    /\ UNCHANGED <<design, opened, request, imported, shell, marker, art, dressing, package, generated,
                   walked, exported, snapshots, operations>>

\* Mutant of CopyIsOver: the folder is renamed into place while it is filled.
CopyIsOverSoon(w) == worker[w].at \in {"copying", "rename"}

CopyIsOver(w) == worker[w].at = "rename"

\* The staged folder becomes the snapshot, unless somebody filled the destination meanwhile.
Rename(w) ==
    LET dest == worker[w].dest IN
    /\ CopyIsOver(w)
    /\ staging[dest] # None /\ snapshots[dest] = None
    /\ snapshots' = [snapshots EXCEPT ![dest] =
            [revision |-> worker[w].doc.revision, walk |-> worker[w].walk, copied |-> staging[dest].copied,
             package |-> staging[dest].package, beside |-> worker[w].beside]]
    /\ staging' = [staging EXCEPT ![dest] = None]
    /\ Goes(w, "tell")
    /\ UNCHANGED <<design, opened, request, imported, shell, marker, art, dressing, package, generated,
                   walked, exported, operations>>

RecordExport(w) ==
    /\ worker[w].at = "tell"
    /\ exported' = [exported EXCEPT ![worker[w].doc.revision] = worker[w].dest]
    /\ Ends(w)
    /\ UNCHANGED <<design, opened, request, imported, shell, marker, art, dressing, package, generated,
                   walked, staging, snapshots, operations>>

------------------------------------------------------------------------------
\* Stopped, killed, refused by a leg or by a file that is gone: what was done stays.
Abort(w) ==
    /\ worker[w] # Idle
    /\ Ends(w)
    /\ UNCHANGED <<design, opened, files, operations>>

Init ==
    /\ design = NewDesign
    /\ opened = [w \in Workers |-> NewDesign]
    /\ worker = [w \in Workers |-> Idle]
    /\ request = None /\ imported = None /\ marker = None
    /\ art = None /\ dressing = None /\ package = None
    /\ shell = [c \in Candidates |-> None]
    /\ generated = [r \in Revisions |-> None]
    /\ walked = [r \in Revisions |-> None]
    /\ exported = [r \in Revisions |-> None]
    /\ staging = [d \in Destinations |-> None]
    /\ snapshots = [d \in Destinations |-> None]
    /\ operations = 0

Step(w) ==
    \/ Open(w) \/ WriteDesign(w)
    \/ Import(w) \/ BeginRun(w) \/ EndRun(w) \/ RecordLayouts(w)
    \/ ApproveChoice(w)
    \/ BeginArt(w) \/ EndArt(w) \/ BreakArt(w) \/ BeginPackage(w)
    \/ EnterPackage(w) \/ FinishPackage(w) \/ RecordWalk(w)
    \/ BeginCopy(w) \/ EndCopy(w) \/ Rename(w) \/ RecordExport(w)
    \/ Abort(w)

Next == \E w \in Workers :
    \/ Step(w)
    \/ \E streets \in Streets : BeginSave(w, streets)
    \/ BeginGenerate(w)
    \/ \E c \in Candidates : BeginChoose(w, c)
    \/ BeginWalk(w)
    \/ \E dest \in Destinations : BeginExport(w, dest)

Spec == Init /\ [][Next]_vars

------------------------------------------------------------------------------
\* A change is laid over the design its designer saw, and over nothing else: a revision
\* number stands for one content as long as no two saves overlapped (design.py
\* update_design, operations.py update_design).
SavesOnWhatWasOpened ==
    \A w \in Workers :
        Doing(w, "save", "write") /\ ~worker[w].doc.raced
            => worker[w].doc.edits \ {worker[w].id} = opened[w].edits

\* A folder that exists is a whole snapshot, whatever was killed before, unless two
\* exports to it ran at once (exporting.py's staging and rename).
SnapshotsAreWhole ==
    \A dest \in Destinations :
        LET snapshot == snapshots[dest] IN
        snapshot # None => snapshot.copied \/ "export" \in snapshot.beside

\* What a record says of a package or a snapshot holds of the level in it, as long as
\* nothing ran beside the walk: while the package is the one a walk left, its layout and
\* its themed level are of the layout and the revision that walk is recorded with,
\* nothing of an earlier generation, walk or choice, whatever legs ended with findings
\* or were stopped (walking.py walk); and a snapshot copied from it is of the layout and
\* the revision it is recorded with (exporting.py export).
RecordsTellTheTruth ==
    /\ \A r \in Revisions :
        /\ walked[r] # None
        /\ walked[r].beside \cap Together = {}
        /\ package.walk = walked[r].walk
        => /\ package.layout = walked[r].layout /\ package.art.layout = walked[r].layout
           /\ package.art.doc.revision = r
           /\ package.stage = "whole"
    /\ \A dest \in Destinations :
        LET snapshot == snapshots[dest] IN
        snapshot # None /\ snapshot.package.walk = snapshot.walk.walk
                        /\ snapshot.walk.beside \cap Together = {}
            => /\ snapshot.package.layout = snapshot.walk.layout
               /\ snapshot.package.art.doc.revision = snapshot.revision
               /\ snapshot.package.stage = "whole"

\* A walk that ran alone is of the streets of the last generation recorded: the guard of
\* its beginning still holds of what the request and the brief brought into the package.
WalksWhatWasGenerated ==
    \A w \in Workers :
        Doing(w, "walk", "check") /\ worker[w].beside = {} /\ Generations # {}
            => Latest.streets = package.art.doc.streets

\* "A blocker there is a finding about a layer the export already says is absent"
\* (EXPORT_SELF_REPORTING_STAGES): the dressing in a walked package is of the layout and
\* the revision walked, or there is none.  What an earlier walk left is not absent.
DressedAsWalked ==
    \A r \in Revisions :
        walked[r] # None /\ walked[r].beside \cap Together = {} /\ package.walk = walked[r].walk
            => \/ package.dressing = None
               \/ package.dressing.layout = walked[r].layout /\ package.dressing.doc.revision = r

==============================================================================
