-------------------------------- MODULE Gates --------------------------------
(***************************************************************************)
(* The human gates of one mission and the export that leans on them:       *)
(* packages/approvals/gates.py and lock.py, and cmd_run, cmd_approve,      *)
(* cmd_reject and cmd_export of the command line.                          *)
(*                                                                         *)
(* Every command is a process of its own and they share files only: the    *)
(* approval records, the marker naming the selected candidate, the         *)
(* functional lock, the job output directories and the validation file of  *)
(* the latest run.  No file lock is taken, so a human may approve while a  *)
(* run builds and an export reads.  One command of each kind runs at a     *)
(* time: the human's (approve or reject), the run, the export.             *)
(*                                                                         *)
(* What a site and a shell publish for gameplay is a record of sets of     *)
(* names: the markers, the anchors of a file with none, the ground only a  *)
(* site has (openings, links, surfaces) and the structure the lock fills   *)
(* in from the shell when the site's file has no such key (stairs, ladders,*)
(* platforms, escapes, interactives).  The lock's merge is kept as it is.  *)
(***************************************************************************)
EXTENDS Naturals, FiniteSets

CONSTANTS
    Candidates,       \* the candidate ids of the mission's plan
    NoCandidate,      \* no selection; also a finding that names no candidate
    SiteOutputs,      \* what a lot_assemble job may publish: markers, anchors, ground, structure
    ThemedOutputs,    \* what themed_site_assemble may publish, likewise
    ShellOutputs,     \* what a deli_generate job may publish: markers, anchors, structure
    Omitted,          \* the structure of a site's file that has no such key
    NotBuilt,         \* a job directory that does not exist
    NoLock, NoPackage,
    LayerSets,        \* what --art and --gameplay may ask for: sets of pieces
    MaxRuns,          \* runs started, a bound
    MaxCommands       \* approve and reject commands started, a bound

ASSUME CandidatesAssumption ==
    /\ Candidates # {} /\ NoCandidate \notin Candidates
    /\ LayerSets \subseteq SUBSET {"themed", "dressing", "handoff"}
    /\ MaxRuns \in Nat /\ MaxCommands \in Nat

VARIABLES
    approval,   \* gate -> the decision recorded for it, "none" without a record
    marker,     \* approvals/<mission>.selected
    lock,       \* locks/<mission>.json
    lot, deli,  \* candidate -> its site and its shell, as published
    art,        \* the themed site, as published
    pieces,     \* "themed", "dressing", "handoff" -> the candidate it was made from
    validation, \* the blocking findings of the last run that ended, and whether its file is whole
    runner, human, exporter,  \* the three commands in progress
    package,    \* what the step just taken exported, if it exported
    moved,      \* history: the pieces made, and plans made, before the selection last moved
    disturbed,  \* history: another command wrote while this export was in progress
    signed,     \* history: what the site of the locked candidate had published at the lock
    runs, commands

files == <<approval, marker, lock, lot, deli, art, pieces, validation>>
vars == <<files, runner, human, exporter, package, moved, disturbed, signed, runs, commands>>

GateNames == {"candidate_selected", "functional_shell_locked"}
Pieces == {"themed", "dressing", "handoff"}
Maybe == Candidates \cup {NoCandidate}

------------------------------------------------------------------------------
(* What the commands compute from the files.                               *)

\* The candidate that is selected: the gate's record says approved and the marker exists.
Selected == IF approval["candidate_selected"] = "approved" THEN marker ELSE NoCandidate

\* A file that is not there reads as one with nothing in it.
EmptySite == [markers |-> {}, anchors |-> {}, ground |-> {}, structure |-> Omitted]
EmptyShell == [markers |-> {}, anchors |-> {}, structure |-> {}]
Site(out) == IF out = NotBuilt THEN EmptySite ELSE out
Shell(out) == IF out = NotBuilt THEN EmptyShell ELSE out

Spaced(space, names) == {<<space, name>> : name \in names}

\* Mutant of Registry: a plain union, the two tools' records not told apart.
RegistryUnspaced(site, shell) ==
    IF site.markers \cup shell.markers # {} THEN Spaced("site", site.markers \cup shell.markers)
    ELSE Spaced("site", IF site.anchors # {} THEN site.anchors ELSE shell.anchors)

\* The site's markers, and the shell's that the site does not restate: a record the
\* site restates carries the site's namespace.  Anchors count where nobody has markers.
Registry(site, shell) ==
    LET markers == Spaced("site", site.markers)
                       \cup Spaced("shell", shell.markers \ site.markers)
    IN  IF markers # {} THEN markers
        ELSE IF site.anchors # {} THEN Spaced("site", site.anchors)
        ELSE Spaced("shell", shell.anchors)

\* The parts that are hashed, of the two files merged: structure that the site's
\* file leaves out is the shell's, the ground is the site's alone.
Signature(siteOut, shellOut) ==
    LET site == Site(siteOut)
        shell == Shell(shellOut)
    IN  [registry |-> Registry(site, shell), ground |-> site.ground,
         structure |-> IF site.structure = Omitted THEN shell.structure ELSE site.structure]

Vacuous(signature) == \A part \in {"registry", "ground", "structure"} : signature[part] = {}

PlannedFromLock(selected, layers) ==
    ({"deli", "lot"} \X Candidates)
        \cup (IF selected = NoCandidate THEN {}
              ELSE layers \X {IF lock # NoLock THEN lock.candidate ELSE selected})

\* Only a run that is given a selection plans anything beyond the candidates.
Planned(selected, layers) ==
    ({"deli", "lot"} \X Candidates)
        \cup (IF selected = NoCandidate THEN {} ELSE layers \X {selected})

\* What is told apart of what a job publishes.
Outputs(stage) ==
    CASE stage = "deli" -> ShellOutputs
      [] stage = "lot" -> SiteOutputs
      [] stage = "themed" -> ThemedOutputs
      [] OTHER -> {NotBuilt}

\* The stages whose absence a package reports itself, and the blocking finding of a job.
SelfReporting == {"dressing"}
Finding(job) == [told |-> job[1] \in SelfReporting, of |-> job[2]]

\* The jobs of the plan that a job waits for, at any remove.
Needs(job) ==
    CASE job[1] = "deli"     -> {}
      [] job[1] = "lot"      -> {<<"deli", job[2]>>}
      [] job[1] = "themed"   -> {"deli", "lot"} \X {job[2]}
      [] job[1] = "dressing" -> {"deli", "lot", "themed"} \X {job[2]}
      [] job[1] = "handoff"  -> {"deli", "lot", "themed"} \X {job[2]}

\* A job that failed or was blocked leaves out what waits for it.
LeftOut(job) == {job} \cup {j \in runner.todo : job \in Needs(j)}

NothingExported == package' = NoPackage

\* A second command's write while an export is in progress.
Disturb == disturbed' = (disturbed \/ exporter.pc # "idle")

------------------------------------------------------------------------------
(* cmd_run: the plan is made once, from the selection of that moment.      *)

NoRun == [pc |-> "idle", todo |-> {}, blockers |-> {}]

StartRun(layers) ==
    /\ runner.pc = "idle"
    /\ runs < MaxRuns
    /\ runs' = runs + 1
    /\ runner' = [pc |-> "running", todo |-> Planned(Selected, layers), blockers |-> {}]
    /\ moved' = moved \ {"plan"}
    /\ NothingExported
    /\ UNCHANGED <<files, human, exporter, disturbed, signed, commands>>

\* A job publishes, with or without a blocking finding about what it made.
Publish(job, out, blocked) ==
    /\ runner.pc = "running"
    /\ job \in runner.todo
    /\ Needs(job) \cap runner.todo = {}
    /\ lot' = IF job[1] = "lot" THEN [lot EXCEPT ![job[2]] = out] ELSE lot
    /\ deli' = IF job[1] = "deli" THEN [deli EXCEPT ![job[2]] = out] ELSE deli
    /\ art' = IF job[1] = "themed" THEN out ELSE art
    /\ pieces' = IF job[1] \in Pieces THEN [pieces EXCEPT ![job[1]] = job[2]] ELSE pieces
    /\ moved' = IF job[1] \notin Pieces THEN moved
                ELSE IF "plan" \in moved THEN moved \cup {job[1]} ELSE moved \ {job[1]}
    /\ runner' = [runner EXCEPT
            !.todo = @ \ IF blocked THEN LeftOut(job) ELSE {job},
            !.blockers = IF blocked THEN @ \cup {Finding(job)} ELSE @]
    /\ Disturb
    /\ NothingExported
    /\ UNCHANGED <<approval, marker, lock, validation, human, exporter, signed, runs, commands>>

\* A job fails: what it published before stays, and what waits for it is out of this run.
Fail(job) ==
    /\ runner.pc = "running"
    /\ job \in runner.todo
    /\ Needs(job) \cap runner.todo = {}
    /\ runner' = [runner EXCEPT !.todo = @ \ LeftOut(job),
                                !.blockers = @ \cup {Finding(job)}]
    /\ NothingExported
    /\ UNCHANGED <<files, human, exporter, moved, disturbed, signed, runs, commands>>

\* Every job is accounted for: the findings replace those of the run before, with
\* the mission's own when its candidates are copies of each other.  The file is
\* rewritten in place, and is no JSON until its last byte is there.
WriteReport(mission) ==
    /\ runner.pc = "running"
    /\ runner.todo = {}
    /\ validation' = [findings |-> runner.blockers \cup mission, whole |-> FALSE]
    /\ runner' = [NoRun EXCEPT !.pc = "report"]
    /\ Disturb
    /\ NothingExported
    /\ UNCHANGED <<approval, marker, lock, lot, deli, art, pieces, human, exporter, moved, signed,
                   runs, commands>>

FinishRun ==
    /\ runner.pc = "report"
    /\ validation' = [validation EXCEPT !.whole = TRUE]
    /\ runner' = NoRun
    /\ Disturb
    /\ NothingExported
    /\ UNCHANGED <<approval, marker, lock, lot, deli, art, pieces, human, exporter, moved, signed,
                   runs, commands>>

\* The run is killed: what its jobs published stays, its findings are lost, or
\* left in a file that is cut short.
KillRun ==
    /\ runner.pc # "idle"
    /\ runner' = NoRun
    /\ NothingExported
    /\ UNCHANGED <<files, human, exporter, moved, disturbed, signed, runs, commands>>

------------------------------------------------------------------------------
(* cmd_approve and cmd_reject: the record first, then what it stands for.  *)

Idle == [pc |-> "idle", gate |-> "candidate_selected", candidate |-> NoCandidate]

\* The lock as it would be computed now, for the candidate selected now.
LockSignature == Signature(lot[Selected], deli[Selected])

\* Checked before anything is recorded: a lock that protects nothing is refused.
\* A candidate outside the plan is refused too, and never enters here.
BeginApprove(gate, candidate) ==
    /\ human.pc = "idle"
    /\ commands < MaxCommands
    /\ commands' = commands + 1
    /\ gate # "candidate_selected" => candidate = NoCandidate
    /\ ~ /\ gate = "functional_shell_locked"
         /\ Selected # NoCandidate
         /\ Vacuous(LockSignature)
    /\ human' = [pc |-> "record", gate |-> gate, candidate |-> candidate]
    /\ NothingExported
    /\ UNCHANGED <<files, runner, exporter, moved, disturbed, signed, runs>>

SelectionMoves(gate) == IF gate = "candidate_selected" THEN Pieces \cup {"plan"} ELSE {}

RecordApproval ==
    /\ human.pc = "record"
    /\ approval' = [approval EXCEPT ![human.gate] = "approved"]
    /\ human' = IF human.gate = "functional_shell_locked" THEN [human EXCEPT !.pc = "lock"]
                ELSE IF human.candidate # NoCandidate THEN [human EXCEPT !.pc = "mark"]
                ELSE Idle
    /\ moved' = moved \cup SelectionMoves(human.gate)
    /\ Disturb
    /\ NothingExported
    /\ UNCHANGED <<marker, lock, lot, deli, art, pieces, validation, runner, exporter, signed, runs, commands>>

WriteMarker ==
    /\ human.pc = "mark"
    /\ marker' = human.candidate
    /\ human' = Idle
    /\ moved' = moved \cup SelectionMoves(human.gate)
    /\ Disturb
    /\ NothingExported
    /\ UNCHANGED <<approval, lock, lot, deli, art, pieces, validation, runner, exporter, signed, runs, commands>>

\* The lock is computed again and written; with no candidate selected nothing is
\* written, and one that protects nothing by now raises, the record standing.
WriteLock ==
    /\ human.pc = "lock"
    /\ human' = Idle
    /\ IF Selected = NoCandidate \/ Vacuous(LockSignature)
       THEN UNCHANGED <<lock, signed>>
       ELSE /\ lock' = [candidate |-> Selected, current |-> TRUE, signature |-> LockSignature]
            /\ signed' = Site(lot[Selected])
    /\ Disturb
    /\ NothingExported
    /\ UNCHANGED <<approval, marker, lot, deli, art, pieces, validation, runner, exporter, moved, runs, commands>>

\* The marker and the lock stay where they are.
Reject(gate) ==
    /\ human.pc = "idle"
    /\ commands < MaxCommands
    /\ commands' = commands + 1
    /\ approval' = [approval EXCEPT ![gate] = "rejected"]
    /\ moved' = moved \cup SelectionMoves(gate)
    /\ Disturb
    /\ NothingExported
    /\ UNCHANGED <<marker, lock, lot, deli, art, pieces, validation, runner, human, exporter,
                   signed, runs>>

\* An approve command killed between two of its writes.
KillHuman ==
    /\ human.pc # "idle"
    /\ human' = Idle
    /\ NothingExported
    /\ UNCHANGED <<files, runner, exporter, moved, disturbed, signed, runs, commands>>

\* A release of the program with other signature definitions: the lock on disk
\* was not written under them.
Upgrade ==
    /\ lock # NoLock /\ lock.current
    /\ lock' = [lock EXCEPT !.current = FALSE]
    /\ Disturb
    /\ NothingExported
    /\ UNCHANGED <<approval, marker, lot, deli, art, pieces, validation, runner, human, exporter,
                   moved, signed, runs, commands>>

------------------------------------------------------------------------------
(* cmd_export: each question reads the files again.                        *)

NoExport == [pc |-> "idle", graybox |-> NoCandidate, checked |-> FALSE]

BeginExport ==
    /\ exporter.pc = "idle"
    /\ pieces["handoff"] # NoCandidate
        \/ (Selected # NoCandidate /\ lot[Selected] # NotBuilt)
    /\ exporter' = [pc |-> "blockers", graybox |-> Selected, checked |-> FALSE]
    /\ disturbed' = FALSE
    /\ NothingExported
    /\ UNCHANGED <<files, runner, human, moved, signed, runs, commands>>

\* A file that cannot be read or parsed holds no findings.
Findings == IF validation.whole THEN validation.findings ELSE {}

\* Mutant of OpenBlockers: only those that name the selection count.
OpenBlockersNamed == {f \in Findings : ~f.told /\ f.of = Selected}

\* A blocker is passed over when the package reports the lack of its stage itself,
\* or when it and the selection both name a candidate and not the same one.
OpenBlockers ==
    {f \in Findings : ~f.told /\ (NoCandidate \in {Selected, f.of} \/ f.of = Selected)}

CheckBlockers ==
    /\ exporter.pc = "blockers"
    /\ exporter' = IF OpenBlockers = {} THEN [exporter EXCEPT !.pc = "drift"]
                   ELSE NoExport
    /\ disturbed' = IF OpenBlockers = {} THEN disturbed ELSE FALSE
    /\ NothingExported
    /\ UNCHANGED <<files, runner, human, moved, signed, runs, commands>>

\* The selected candidate's site and the locked candidate's shell against the
\* lock; no selection, no lock or a lock of another release compares nothing.
Drifted == Signature(lot[Selected], deli[lock.candidate]) # lock.signature
BlocksExport == lock.current /\ Drifted

CheckDrift ==
    /\ exporter.pc = "drift"
    /\ exporter' =
        IF lock = NoLock \/ Selected = NoCandidate
        THEN [exporter EXCEPT !.pc = "ship"]
        ELSE IF BlocksExport
        THEN NoExport
        ELSE [exporter EXCEPT !.pc = "ship", !.checked = lock.current]
    /\ disturbed' = IF exporter'.pc = "ship" THEN disturbed ELSE FALSE
    /\ NothingExported
    /\ UNCHANGED <<files, runner, human, moved, signed, runs, commands>>

\* The base is the handoff where there is one; a pure shell has the graybox under
\* it, every other mode lays the themed site over it.
Shipped(mode) ==
    [handoff |-> pieces["handoff"],
     graybox |-> IF pieces["handoff"] = NoCandidate \/ mode = "pure_shell"
                 THEN exporter.graybox ELSE NoCandidate,
     themed   |-> IF mode = "pure_shell" THEN NoCandidate ELSE pieces["themed"],
     dressing |-> IF mode = "pure_shell" THEN NoCandidate ELSE pieces["dressing"]]

\* The site a reader of the package finds in it.
ShippedSite(parts) ==
    CASE parts.themed # NoCandidate -> art
      [] parts.themed = NoCandidate /\ parts.graybox # NoCandidate -> lot[parts.graybox]
      [] OTHER -> NotBuilt

\* The manifest names the lock's candidate, or else the one selected now.
ExportCandidate == IF lock # NoLock THEN lock.candidate ELSE Selected

Ship(mode) ==
    /\ exporter.pc = "ship"
    /\ package' = [parts |-> Shipped(mode), named |-> ExportCandidate, selected |-> Selected,
                   site |-> Site(ShippedSite(Shipped(mode))),
                   checked |-> exporter.checked, disturbed |-> disturbed,
                   moved |-> moved, signed |-> signed, report |-> validation,
                   alone |-> ~disturbed /\ runner.pc = "idle" /\ human.pc = "idle"]
    /\ exporter' = NoExport
    /\ disturbed' = FALSE
    /\ UNCHANGED <<files, runner, human, moved, signed, runs, commands>>

------------------------------------------------------------------------------
\* The workspace as a first run of the candidates left it when it was killed, a
\* run that was never started included: nothing selected, no findings recorded.
Init ==
    /\ approval = [g \in GateNames |-> "none"]
    /\ marker = NoCandidate /\ lock = NoLock
    /\ lot \in [Candidates -> SiteOutputs \cup {NotBuilt}]
    /\ deli \in [Candidates -> ShellOutputs \cup {NotBuilt}]
    /\ \A c \in Candidates : lot[c] # NotBuilt => deli[c] # NotBuilt
    /\ art = NotBuilt
    /\ pieces = [p \in Pieces |-> NoCandidate]
    /\ validation = [findings |-> {}, whole |-> TRUE]
    /\ runner = NoRun
    /\ human = Idle
    /\ exporter = NoExport
    /\ package = NoPackage
    /\ moved = {} /\ disturbed = FALSE /\ signed = EmptySite
    /\ runs = 0 /\ commands = 0

Run ==
    \/ \E layers \in LayerSets : StartRun(layers)
    \/ \E job \in runner.todo :
        \E out \in Outputs(job[1]), blocked \in BOOLEAN : Publish(job, out, blocked)
    \/ \E job \in runner.todo : Fail(job)
    \/ \E mission \in SUBSET {[told |-> FALSE, of |-> NoCandidate]} : WriteReport(mission)
    \/ FinishRun
    \/ KillRun

Human ==
    \/ \E gate \in GateNames, candidate \in Maybe : BeginApprove(gate, candidate)
    \/ RecordApproval \/ WriteMarker \/ WriteLock \/ KillHuman
    \/ \E gate \in GateNames : Reject(gate)

Export ==
    \/ BeginExport \/ CheckBlockers \/ CheckDrift
    \/ \E mode \in {"pure_shell", "art"} : Ship(mode)

Next == Run \/ Human \/ Export \/ Upgrade

Spec == Init /\ [][Next]_vars
------------------------------------------------------------------------------
(* Properties.                                                             *)

Stages == {"deli", "lot"} \cup Pieces
Jobs == Stages \X Candidates
Contents(outs) == outs \cup {NotBuilt}
AllFindings == [told : BOOLEAN, of : Maybe]

TypeOK ==
    /\ approval \in [GateNames -> {"none", "approved", "rejected"}]
    /\ marker \in Maybe
    /\ lock = NoLock \/ (lock.candidate \in Candidates /\ lock.current \in BOOLEAN)
    /\ lot \in [Candidates -> Contents(SiteOutputs)]
    /\ deli \in [Candidates -> Contents(ShellOutputs)]
    /\ pieces \in [Pieces -> Maybe]
    /\ art \in Contents(ThemedOutputs)
    /\ validation \in [findings : SUBSET AllFindings, whole : BOOLEAN]
    /\ runner.pc \in {"idle", "running", "report"} /\ runner.todo \in SUBSET Jobs
    /\ human.pc \in {"idle", "record", "mark", "lock"} /\ human.gate \in GateNames
    /\ exporter.pc \in {"idle", "blockers", "drift", "ship"}
    /\ moved \in SUBSET (Pieces \cup {"plan"}) /\ disturbed \in BOOLEAN

\* One site holds what the other one is locked with: no marker of either is unknown
\* to the other, the ground is the same, and so is the structure both declare.  What
\* a site leaves to the shell the lock does not hold against it.
Spots(site) == site.markers \cup site.anchors
Kept(was, now) ==
    /\ was.markers \subseteq Spots(now) /\ now.markers \subseteq Spots(was)
    /\ was.ground = now.ground
    /\ Omitted \in {was.structure, now.structure} \/ was.structure = now.structure

Compared(p) == p.checked /\ ~p.disturbed

\* A package of the graybox whose regression check compared anything, with nothing
\* written while it was exported, ships the site the human locked, though the shell's
\* records were merged into what was compared: rebuilding it, selecting another
\* candidate or locking again between the lock and the export shows.
ShipsWhatWasLocked ==
    package # NoPackage =>
        (Compared(package) /\ package.parts.themed = NoCandidate
             /\ package.parts.graybox # NoCandidate
         => Kept(package.signed, package.site))

\* "After Lux apply, we recompute the same signature from the post-art scene and diff
\* it" (lock.py): nor does a package ship a themed site that departs from the lock.
\* The export compares the graybox with the lock, whatever it ships.
ArtKeepsTheLock ==
    package # NoPackage =>
        (Compared(package) /\ package.parts.themed # NoCandidate
         => Kept(package.signed, package.site))

Parts(p) == {p.parts[part] : part \in DOMAIN p.parts} \ {NoCandidate}

\* While the selection has not moved since the run that made them was planned,
\* the art and the handoff in a package are the selected candidate's, whatever
\* runs were killed and whatever failed.
PiecesFollowTheSelection ==
    package # NoPackage =>
        \A p \in Pieces \ package.moved : package.parts[p] \in {NoCandidate, package.selected}

\* What cannot be shipped over: a blocker that names a candidate of the package, or
\* no candidate, about something the package would present as present.
Untold(p) == {f.of : f \in {g \in p.report.findings : ~g.told}}
Blocked(p) == Untold(p) \cap (Parts(p) \cup {NoCandidate})

\* Nor, when the report of the last run is whole, does such a package hold a piece of
\* a candidate with a blocker open, or leave over a blocker that names no candidate.
NothingBlockedShips ==
    package # NoPackage =>
        (~package.disturbed /\ package.moved \cap Pieces = {} /\ package.report.whole
         => Blocked(package) = {})

==============================================================================
