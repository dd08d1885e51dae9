----------------------------- MODULE GatesProofs -----------------------------
(***************************************************************************)
(* What the functional lock guarantees, for any candidates, any number of  *)
(* runs, commands and exports, and whatever sites and shells publish.      *)
(*                                                                         *)
(* The lock is written with the site that stands behind it; the export     *)
(* reads the selection, the lock and the site again at each check.  The    *)
(* invariant says what an export knows as long as nothing was written      *)
(* beside it, and that a signature still tells what the site published for *)
(* itself after the shell's records are merged in.                         *)
(***************************************************************************)
EXTENDS Gates, TLAPS

------------------------------------------------------------------------------
(* The signature.                                                          *)

\* A record of the registry in the site's namespace is a marker or an anchor of the
\* site's file, and every marker of the file is there: the shell's hide none.
LEMMA RegistryTellsSite ==
    ASSUME NEW site, NEW shell, NEW name
    PROVE  /\ name \in site.markers => <<"site", name>> \in Registry(site, shell)
           /\ <<"site", name>> \in Registry(site, shell) => name \in Spots(site)
BY DEF Registry, Spaced, Spots

\* Two merged files with one signature hold sites that keep each other, whatever
\* shells they were merged with.
LEMMA SignatureTellsSite ==
    ASSUME NEW was, NEW wasShell, NEW now, NEW nowShell,
           Signature(was, wasShell) = Signature(now, nowShell)
    PROVE  Kept(Site(was), Site(now))
<1> DEFINE before == Registry(Site(was), Shell(wasShell))
           after == Registry(Site(now), Shell(nowShell))
<1>1. /\ before = after
      /\ Site(was).ground = Site(now).ground
      /\ (IF Site(was).structure = Omitted THEN Shell(wasShell).structure ELSE Site(was).structure)
           = (IF Site(now).structure = Omitted THEN Shell(nowShell).structure ELSE Site(now).structure)
    BY DEF Signature
<1> HIDE DEF before, after
<1>2. \A name : /\ name \in Site(was).markers => <<"site", name>> \in before
                /\ <<"site", name>> \in before => name \in Spots(Site(was))
    BY RegistryTellsSite DEF before
<1>3. \A name : /\ name \in Site(now).markers => <<"site", name>> \in after
                /\ <<"site", name>> \in after => name \in Spots(Site(now))
    BY RegistryTellsSite DEF after
<1>4. /\ Site(was).markers \subseteq Spots(Site(now))
      /\ Site(now).markers \subseteq Spots(Site(was))
    BY <1>1, <1>2, <1>3
<1> QED
    BY <1>1, <1>4 DEF Kept

------------------------------------------------------------------------------
(* The invariant.                                                          *)

ExporterType ==
    /\ exporter = [pc |-> exporter.pc, graybox |-> exporter.graybox, checked |-> exporter.checked]
    /\ exporter.pc \in {"idle", "blockers", "drift", "ship"} /\ exporter.checked \in BOOLEAN

LockRecord ==
    lock = [candidate |-> lock.candidate, current |-> lock.current, signature |-> lock.signature]

\* The lock's signature is that of the site recorded as signed with some shell's
\* records merged in, of whatever release it is.
LockInv ==
    lock # NoLock =>
        /\ LockRecord /\ lock.current \in BOOLEAN
        /\ \E out, shell : signed = Site(out) /\ lock.signature = Signature(out, shell)

\* An undisturbed export ships the graybox of the selection as it stands.
GrayboxInv == exporter.pc # "idle" /\ ~disturbed => exporter.graybox = Selected

\* A check passed before shipping is still true of the files.
CheckedInv ==
    exporter.checked =>
        /\ exporter.pc = "ship"
        /\ ~disturbed => /\ lock # NoLock
                         /\ Selected # NoCandidate
                         /\ ~Drifted

Guarded == ExporterType /\ LockInv /\ GrayboxInv /\ CheckedInv /\ ShipsWhatWasLocked

\* Before the first command no lock, export or package exists.
LEMMA GuardedInitially == Init => Guarded
BY DEF Init, NoExport, Guarded, ExporterType, LockInv, GrayboxInv, CheckedInv,
       ShipsWhatWasLocked

\* A step that writes neither the lock nor the history of what it signed.
LEMMA LockUntouched ==
    ASSUME LockInv, UNCHANGED <<lock, signed>>
    PROVE  LockInv'
BY DEF LockInv, LockRecord

\* A step that changes none of what an export has read keeps what it knows.
LEMMA QuietKeeps ==
    ASSUME Guarded, NothingExported,
           UNCHANGED <<approval, marker, lock, lot, deli, signed, exporter, disturbed>>
    PROVE  Guarded'
<1>1. LockInv'
    BY LockUntouched DEF Guarded
<1>2. ExporterType'
    BY DEF Guarded, ExporterType
<1>3. Selected' = Selected
    BY DEF Selected
<1>4. Drifted' = Drifted
    BY <1>3 DEF Drifted, Signature, Site, Shell
<1>5. GrayboxInv' /\ CheckedInv'
    BY <1>3, <1>4 DEF Guarded, GrayboxInv, CheckedInv
<1> QED
    BY <1>1, <1>2, <1>5 DEF Guarded, ShipsWhatWasLocked, NothingExported

\* A step that writes marks the export in progress disturbed, and with that there
\* is nothing left to keep but the lock's own invariant.
LEMMA WriteKeeps ==
    ASSUME Guarded, NothingExported, Disturb, UNCHANGED exporter, LockInv'
    PROVE  Guarded'
<1>1. exporter.pc # "idle" => disturbed'
    BY DEF Disturb
<1>2. exporter.checked => exporter.pc # "idle"
    BY DEF Guarded, CheckedInv
<1> QED
    BY <1>1, <1>2 DEF Guarded, ExporterType, GrayboxInv, CheckedInv, ShipsWhatWasLocked,
                      NothingExported

\* The steps of cmd_run: those that write publish a site, a shell, a piece or findings.
LEMMA RunKeeps == Guarded /\ Run => Guarded'
<1> SUFFICES ASSUME Guarded, Run PROVE Guarded'
    OBVIOUS
<1>1. ASSUME NEW layers \in LayerSets, StartRun(layers) PROVE Guarded'
    BY <1>1, QuietKeeps DEF StartRun, files
<1>2. ASSUME NEW job, NEW out, NEW blocked \in BOOLEAN, Publish(job, out, blocked) PROVE Guarded'
    <2>1. LockInv'
        BY <1>2, LockUntouched DEF Publish, Guarded
    <2> QED
        BY <1>2, <2>1, WriteKeeps DEF Publish
<1>3. ASSUME NEW job, Fail(job) PROVE Guarded'
    BY <1>3, QuietKeeps DEF Fail, files
<1>4. ASSUME NEW mission, WriteReport(mission) PROVE Guarded'
    <2>1. LockInv'
        BY <1>4, LockUntouched DEF WriteReport, Guarded
    <2> QED
        BY <1>4, <2>1, WriteKeeps DEF WriteReport
<1>5. CASE FinishRun
    <2>1. LockInv'
        BY <1>5, LockUntouched DEF FinishRun, Guarded
    <2> QED
        BY <1>5, <2>1, WriteKeeps DEF FinishRun
<1>6. CASE KillRun
    BY <1>6, QuietKeeps DEF KillRun, files
<1> QED
    BY <1>1, <1>2, <1>3, <1>4, <1>5, <1>6 DEF Run

\* What an approval of the gate writes is a lock with that invariant.
LEMMA LockWritten == LockInv /\ WriteLock => LockInv'
<1> SUFFICES ASSUME LockInv, WriteLock PROVE LockInv'
    OBVIOUS
<1>1. CASE Selected = NoCandidate \/ Vacuous(LockSignature)
    BY <1>1 DEF WriteLock, LockInv, LockRecord
<1>2. CASE ~(Selected = NoCandidate \/ Vacuous(LockSignature))
    <2>1. lock' = [candidate |-> Selected, current |-> TRUE, signature |-> LockSignature]
          /\ signed' = Site(lot[Selected])
        BY <1>2 DEF WriteLock
    <2>2. LockRecord' /\ lock'.signature = LockSignature /\ lock'.current \in BOOLEAN
        BY <2>1 DEF LockRecord
    <2>3. \E out, shell : signed' = Site(out) /\ lock'.signature = Signature(out, shell)
        BY <2>1, <2>2 DEF LockSignature
    <2> QED
        BY <2>2, <2>3 DEF LockInv
<1> QED
    BY <1>1, <1>2

\* The steps of cmd_approve and cmd_reject, and a new release of the program.
LEMMA HumanKeeps == Guarded /\ (Human \/ Upgrade) => Guarded'
<1> SUFFICES ASSUME Guarded, Human \/ Upgrade PROVE Guarded'
    OBVIOUS
<1>1. ASSUME NEW gate, NEW candidate, BeginApprove(gate, candidate) PROVE Guarded'
    BY <1>1, QuietKeeps DEF BeginApprove, files
<1>2. CASE RecordApproval
    <2>1. LockInv'
        BY <1>2, LockUntouched DEF RecordApproval, Guarded
    <2> QED
        BY <1>2, <2>1, WriteKeeps DEF RecordApproval
<1>3. CASE WriteMarker
    <2>1. LockInv'
        BY <1>3, LockUntouched DEF WriteMarker, Guarded
    <2> QED
        BY <1>3, <2>1, WriteKeeps DEF WriteMarker
<1>4. CASE WriteLock
    <2>1. LockInv'
        BY <1>4, LockWritten DEF Guarded
    <2> QED
        BY <1>4, <2>1, WriteKeeps DEF WriteLock
<1>5. ASSUME NEW gate, Reject(gate) PROVE Guarded'
    <2>1. LockInv'
        BY <1>5, LockUntouched DEF Reject, Guarded
    <2> QED
        BY <1>5, <2>1, WriteKeeps DEF Reject
<1>6. CASE KillHuman
    BY <1>6, QuietKeeps DEF KillHuman, files
<1>7. CASE Upgrade
    <2>1. LockInv'
        BY <1>7 DEF Upgrade, Guarded, LockInv, LockRecord
    <2> QED
        BY <1>7, <2>1, WriteKeeps DEF Upgrade
<1> QED
    BY <1>1, <1>2, <1>3, <1>4, <1>5, <1>6, <1>7 DEF Human

\* The steps of an export that only read: what is on disk stays, and so does the lock's invariant.
LEMMA CheckKeeps ==
    ASSUME Guarded, UNCHANGED <<files, signed>>, NothingExported,
           ExporterType', GrayboxInv', CheckedInv'
    PROVE  Guarded'
<1>1. LockInv'
    BY LockUntouched DEF Guarded, files
<1> QED
    BY <1>1 DEF Guarded, ShipsWhatWasLocked, NothingExported

\* An export that is refused.
LEMMA ResetKeeps ==
    ASSUME Guarded, UNCHANGED <<files, signed>>, NothingExported, exporter' = NoExport
    PROVE  Guarded'
<1>1. ExporterType' /\ GrayboxInv' /\ CheckedInv'
    BY DEF NoExport, ExporterType, GrayboxInv, CheckedInv
<1> QED
    BY <1>1, CheckKeeps

\* An export that goes on to its next question without having compared anything.
LEMMA AdvanceKeeps ==
    ASSUME Guarded, UNCHANGED <<files, signed, disturbed>>, NothingExported, Selected' = Selected,
           ~exporter.checked, exporter.pc # "idle",
           NEW pc \in {"drift", "ship"}, exporter' = [exporter EXCEPT !.pc = pc]
    PROVE  Guarded'
<1>1. exporter'.graybox = exporter.graybox /\ exporter'.checked = exporter.checked
    BY DEF Guarded, ExporterType
<1>2. ExporterType'
    BY DEF Guarded, ExporterType
<1>3. GrayboxInv' /\ CheckedInv'
    BY <1>1 DEF Guarded, GrayboxInv, CheckedInv
<1> QED
    BY <1>2, <1>3, CheckKeeps

\* The steps of cmd_export, which are where what was read is used.
LEMMA ExportKeeps == Guarded /\ Export => Guarded'
<1> SUFFICES ASSUME Guarded, Export PROVE Guarded'
    OBVIOUS
<1>1. CASE BeginExport
    <2>1. Selected' = Selected
        BY <1>1 DEF BeginExport, Selected, files
    <2>2. /\ exporter'.pc = "blockers" /\ exporter'.graybox = Selected
          /\ exporter'.checked = FALSE
        BY <1>1 DEF BeginExport
    <2>4. ExporterType'
        BY <1>1 DEF BeginExport, ExporterType
    <2>3. GrayboxInv' /\ CheckedInv'
        BY <2>1, <2>2 DEF GrayboxInv, CheckedInv
    <2> QED
        BY <1>1, <2>3, <2>4, CheckKeeps DEF BeginExport
<1>2. CASE CheckBlockers
    <2>1. Selected' = Selected
        BY <1>2 DEF CheckBlockers, Selected, files
    <2>2. ~exporter.checked
        BY <1>2 DEF CheckBlockers, Guarded, CheckedInv
    <2>3. CASE exporter' = NoExport
        BY <1>2, <2>3, ResetKeeps DEF CheckBlockers
    <2>4. CASE exporter' = [exporter EXCEPT !.pc = "drift"]
        <3>1. OpenBlockers = {}
            BY <1>2, <2>4 DEF CheckBlockers, NoExport, Guarded, ExporterType
        <3>2. disturbed' = disturbed
            BY <1>2, <3>1 DEF CheckBlockers
        <3> QED
            BY <1>2, <2>1, <2>2, <2>4, <3>2, AdvanceKeeps DEF CheckBlockers
    <2> QED
        BY <1>2, <2>3, <2>4 DEF CheckBlockers
<1>3. CASE CheckDrift
    <2>1. Selected' = Selected /\ (exporter'.pc = "ship" => disturbed' = disturbed)
        BY <1>3 DEF CheckDrift, Selected, files
    <2>2. ~exporter.checked
        BY <1>3 DEF CheckDrift, Guarded, CheckedInv
    <2>3. CASE exporter' = NoExport
        BY <1>3, <2>3, ResetKeeps DEF CheckDrift
    <2>4. CASE exporter' = [exporter EXCEPT !.pc = "ship"]
        <3>1. exporter'.pc = "ship"
            BY <2>4 DEF Guarded, ExporterType
        <3> QED
            BY <1>3, <2>1, <2>2, <2>4, <3>1, AdvanceKeeps DEF CheckDrift
    <2>5. CASE /\ lock # NoLock /\ Selected # NoCandidate /\ ~BlocksExport
               /\ exporter' = [exporter EXCEPT !.pc = "ship", !.checked = lock.current]
        <3>1. /\ exporter'.pc = "ship" /\ exporter'.checked = lock.current
              /\ exporter'.graybox = exporter.graybox
            BY <2>5 DEF Guarded, ExporterType
        <3>2. lock.current \in BOOLEAN
            BY <2>5 DEF Guarded, LockInv
        <3>3. ExporterType'
            BY <2>5, <3>2 DEF Guarded, ExporterType
        <3>4. lock' = lock /\ (Drifted' <=> Drifted)
            BY <1>3, <2>1 DEF CheckDrift, files, Drifted, Signature, Site, Shell
        <3>5. GrayboxInv'
            BY <1>3, <2>1, <3>1 DEF CheckDrift, Guarded, GrayboxInv
        <3>6. CheckedInv'
            BY <2>1, <2>5, <3>1, <3>4 DEF CheckedInv, BlocksExport
        <3> QED
            BY <1>3, <3>3, <3>5, <3>6, CheckKeeps DEF CheckDrift
    <2> QED
        BY <1>3, <2>3, <2>4, <2>5 DEF CheckDrift
<1>4. ASSUME NEW mode, Ship(mode) PROVE Guarded'
    <2>1. ShipsWhatWasLocked'
        <3> DEFINE parts == Shipped(mode)
        <3> SUFFICES ASSUME exporter.checked, ~disturbed,
                            parts.themed = NoCandidate, parts.graybox # NoCandidate
                     PROVE  Kept(signed, Site(ShippedSite(parts)))
            BY <1>4 DEF Ship, ShipsWhatWasLocked, Compared
        <3>1. parts.graybox = Selected /\ lock # NoLock /\ ~Drifted
            BY <1>4 DEF Ship, Guarded, GrayboxInv, CheckedInv, Shipped
        <3>2. ShippedSite(parts) = lot[Selected]
            BY <3>1 DEF ShippedSite
        <3>3. PICK out, shell : signed = Site(out) /\ lock.signature = Signature(out, shell)
            BY <3>1 DEF Guarded, LockInv
        <3>4. Signature(out, shell) = Signature(lot[Selected], deli[lock.candidate])
            BY <3>1, <3>3 DEF Drifted
        <3> QED
            BY <3>2, <3>3, <3>4, SignatureTellsSite
    <2>2. ExporterType' /\ GrayboxInv' /\ CheckedInv'
        BY <1>4 DEF Ship, NoExport, ExporterType, GrayboxInv, CheckedInv
    <2>3. LockInv'
        BY <1>4, LockUntouched DEF Ship, Guarded, files
    <2> QED
        BY <2>1, <2>2, <2>3 DEF Guarded
<1> QED
    BY <1>1, <1>2, <1>3, <1>4 DEF Export

------------------------------------------------------------------------------
(* The theorems.                                                           *)

\* Every step, and a stutter.
LEMMA GuardedInductive == Guarded /\ [Next]_vars => Guarded'
<1>1. CASE Next
    BY <1>1, RunKeeps, HumanKeeps, ExportKeeps DEF Next
<1>2. CASE UNCHANGED vars
    BY <1>2 DEF vars, files, Guarded, ExporterType, LockInv, GrayboxInv, CheckedInv,
                ShipsWhatWasLocked, Selected, Drifted, Signature, Site, Shell, LockRecord
<1> QED
    BY <1>1, <1>2

\* The invariant holds throughout.
THEOREM GuardedAlways == Spec => []Guarded
<1> QED
    BY GuardedInitially, GuardedInductive, PTL DEF Spec

\* A package of the graybox, exported past a comparison with the lock and with nothing
\* written meanwhile, ships the site that stood when the lock was approved: its markers,
\* its ground and the structure it declares (cmd_export, compute_lock, verify_no_drift).
THEOREM LockedSiteShips == Spec => []ShipsWhatWasLocked
<1>1. Guarded => ShipsWhatWasLocked
    BY DEF Guarded
<1> QED
    BY <1>1, GuardedAlways, PTL

------------------------------------------------------------------------------
(* What the pieces of a package are of.                                    *)
(*                                                                         *)
(* A run publishes pieces of the candidate its plan was made for.  The     *)
(* history remembers which pieces, and whether the plan, were made before  *)
(* the selection last moved: the rest are the selected candidate's.        *)

\* The commands in progress are records, and know which gate they are at.
CommandsType ==
    /\ runner \in [pc : {"idle", "running", "report"}, todo : SUBSET Jobs,
                   blockers : SUBSET AllFindings]
    /\ human \in [pc : {"idle", "record", "mark", "lock"}, gate : GateNames, candidate : Maybe]
    /\ human.pc = "mark" => human.gate = "candidate_selected"

\* What was made since the selection last moved is of the candidate selected now.
PiecesInv == \A p \in Pieces \ moved : pieces[p] \in {NoCandidate, Selected}

\* What is still to be made by a plan made since then will be.
PlanInv == "plan" \notin moved => \A job \in runner.todo : job[1] \in Pieces => job[2] = Selected

\* An export past the blockers, with nothing written beside it, has none open.
BlockersInv == exporter.pc \in {"drift", "ship"} /\ ~disturbed => OpenBlockers = {}

Followed ==
    /\ TypeOK /\ CommandsType
    /\ PiecesInv /\ PlanInv /\ BlockersInv
    /\ PiecesFollowTheSelection /\ NothingBlockedShips

LEMMA FollowedInitially == Init => Followed
<1> SUFFICES ASSUME Init PROVE Followed
    OBVIOUS
<1>1. TypeOK
    BY DEF Init, TypeOK, Maybe, Contents, AllFindings, NoRun, Idle, NoExport, GateNames
<1>2. CommandsType
    BY DEF Init, CommandsType, Maybe, AllFindings, NoRun, Idle, GateNames
<1> QED
    BY <1>1, <1>2 DEF Init, Followed, PiecesInv, PlanInv, BlockersInv, PiecesFollowTheSelection,
                      NothingBlockedShips, NoRun, NoExport

\* The selection is a candidate or none, and is read from the record and the marker only.
LEMMA SelectedFacts ==
    /\ TypeOK => Selected \in Maybe
    /\ UNCHANGED <<approval, marker>> => Selected' = Selected
BY DEF TypeOK, Selected, Maybe

\* A step that exports nothing says nothing of packages.
LEMMA NothingSaid ==
    ASSUME NothingExported PROVE PiecesFollowTheSelection' /\ NothingBlockedShips'
BY DEF NothingExported, PiecesFollowTheSelection, NothingBlockedShips

\* A step that leaves the selection, the pieces, the plan and the findings as they are.
LEMMA SelectionStands ==
    ASSUME Followed, TypeOK', CommandsType', NothingExported, Selected' = Selected,
           UNCHANGED <<pieces, validation>>, moved' = moved, runner'.todo \subseteq runner.todo,
           exporter'.pc = exporter.pc, exporter.pc # "idle" => (disturbed => disturbed')
    PROVE  Followed'
<1>1. PiecesInv' /\ PlanInv'
    BY DEF Followed, PiecesInv, PlanInv
<1>2. BlockersInv'
    BY DEF Followed, BlockersInv, OpenBlockers, Findings
<1> QED
    BY <1>1, <1>2, NothingSaid DEF Followed

\* Moving the selection leaves no piece and no plan to vouch for, and disturbs an export.
LEMMA SelectionMoved ==
    ASSUME Followed, TypeOK', CommandsType', NothingExported, Disturb, UNCHANGED exporter,
           Pieces \cup {"plan"} \subseteq moved'
    PROVE  Followed'
<1>1. PiecesInv' /\ PlanInv'
    BY DEF PiecesInv, PlanInv
<1>2. BlockersInv'
    BY DEF Disturb, BlockersInv
<1> QED
    BY <1>1, <1>2, NothingSaid DEF Followed

\* A plan made now is made for the selection as it stands.
LEMMA StartFollows ==
    ASSUME Followed, NEW layers \in LayerSets, StartRun(layers)
    PROVE  Followed'
<1> DEFINE todo == Planned(Selected, layers)
<1>1. /\ runner' = [pc |-> "running", todo |-> todo, blockers |-> {}]
      /\ moved' = moved \ {"plan"} /\ NothingExported
      /\ UNCHANGED <<approval, marker, lock, lot, deli, art, pieces, validation, human, exporter, disturbed>>
    BY DEF StartRun, files
<1>2. layers \subseteq Pieces
    BY CandidatesAssumption DEF Pieces
<1>3. Selected \in Maybe /\ Selected' = Selected
    BY <1>1, SelectedFacts DEF Followed
<1>4. todo \subseteq Jobs /\ \A job \in todo : job[1] \in Pieces => job[2] = Selected
    BY <1>2, <1>3 DEF Planned, Jobs, Stages, Pieces, Maybe
<1> HIDE DEF todo
<1>5. CommandsType'
    BY <1>1, <1>4 DEF Followed, CommandsType
<1>6. TypeOK'
    BY <1>1, <1>4 DEF Followed, TypeOK
<1>7. PiecesInv'
    BY <1>1, <1>3 DEF Followed, PiecesInv, Pieces
<1>8. PlanInv'
    BY <1>1, <1>3, <1>4 DEF PlanInv
<1>9. BlockersInv'
    BY <1>1, <1>3 DEF Followed, BlockersInv, OpenBlockers, Findings
<1> QED
    BY <1>1, <1>5, <1>6, <1>7, <1>8, <1>9, NothingSaid DEF Followed

\* A piece published is of the selection, or remembered as older than it.
LEMMA PublishFollows ==
    ASSUME Followed, NEW job \in runner.todo, NEW out \in Outputs(job[1]), NEW blocked \in BOOLEAN,
           Publish(job, out, blocked)
    PROVE  Followed'
<1>1. /\ lot' = IF job[1] = "lot" THEN [lot EXCEPT ![job[2]] = out] ELSE lot
      /\ art' = IF job[1] = "themed" THEN out ELSE art
      /\ deli' = IF job[1] = "deli" THEN [deli EXCEPT ![job[2]] = out] ELSE deli
      /\ pieces' = IF job[1] \in Pieces THEN [pieces EXCEPT ![job[1]] = job[2]] ELSE pieces
      /\ moved' = IF job[1] \notin Pieces THEN moved
                  ELSE IF "plan" \in moved THEN moved \cup {job[1]} ELSE moved \ {job[1]}
      /\ runner' = [runner EXCEPT
            !.todo = @ \ IF blocked THEN LeftOut(job) ELSE {job},
            !.blockers = IF blocked THEN @ \cup {Finding(job)} ELSE @]
      /\ Disturb /\ NothingExported
      /\ UNCHANGED <<approval, marker, lock, validation, human, exporter>>
    BY DEF Publish
<1>2. job \in Jobs /\ job[1] \in Stages /\ job[2] \in Candidates
    BY DEF Followed, CommandsType, Jobs
<1>3. Selected' = Selected
    BY <1>1, SelectedFacts
<1>4. runner' \in [pc : {"idle", "running", "report"}, todo : SUBSET Jobs,
                    blockers : SUBSET AllFindings]
      /\ runner'.todo \subseteq runner.todo
    <2>1. Finding(job) \in AllFindings
        BY <1>2 DEF Finding, AllFindings, Maybe
    <2> QED
        BY <1>1, <2>1 DEF Followed, CommandsType
<1>5. CommandsType'
    BY <1>1, <1>4 DEF Followed, CommandsType
<1>6. TypeOK'
  <2>1. lot' \in [Candidates -> Contents(SiteOutputs)]
    BY <1>1, <1>2 DEF Followed, TypeOK, Contents, Outputs
  <2>2. deli' \in [Candidates -> Contents(ShellOutputs)]
    BY <1>1, <1>2 DEF Followed, TypeOK, Contents, Outputs
  <2>5. art' \in Contents(ThemedOutputs)
    BY <1>1, <1>2 DEF Followed, TypeOK, Contents, Outputs
  <2>3. pieces' \in [Pieces -> Maybe]
    BY <1>1, <1>2 DEF Followed, TypeOK, Maybe
  <2>4. moved' \in SUBSET (Pieces \cup {"plan"}) /\ disturbed' \in BOOLEAN
    BY <1>1 DEF Followed, TypeOK, Disturb
  <2> QED
    BY <1>1, <1>4, <2>1, <2>2, <2>3, <2>4, <2>5 DEF Followed, TypeOK
<1>7. PiecesInv'
  <2> SUFFICES ASSUME NEW p \in Pieces, p \notin moved'
               PROVE  pieces'[p] \in {NoCandidate, Selected}
    BY <1>3 DEF PiecesInv
  <2>1. pieces \in [Pieces -> Maybe]
    BY DEF Followed, TypeOK
  <2>2. CASE p = job[1]
    <3>1. "plan" \notin moved
        BY <1>1, <2>2
    <3>2. job[2] = Selected
        BY <2>2, <3>1 DEF Followed, PlanInv
    <3> QED
        BY <1>1, <2>1, <2>2, <3>2
  <2>3. CASE p # job[1]
    BY <1>1, <2>1, <2>3 DEF Followed, PiecesInv
  <2> QED
    BY <2>2, <2>3
<1>8. PlanInv'
    BY <1>1, <1>2, <1>3, <1>4 DEF Followed, PlanInv, Pieces
<1>9. BlockersInv'
    BY <1>1 DEF Disturb, BlockersInv
<1> QED
    BY <1>1, <1>5, <1>6, <1>7, <1>8, <1>9, NothingSaid DEF Followed

\* A run that is past its jobs touches its report and no piece.
LEMMA ReportWritten ==
    ASSUME Followed, TypeOK', CommandsType', Disturb, NothingExported, runner'.todo = {},
           UNCHANGED <<approval, marker, pieces, moved, exporter>>
    PROVE  Followed'
<1>1. Selected' = Selected
    BY SelectedFacts
<1>2. PiecesInv' /\ PlanInv'
    BY <1>1 DEF Followed, PiecesInv, PlanInv
<1>3. BlockersInv'
    BY DEF Disturb, BlockersInv
<1> QED
    BY <1>2, <1>3, NothingSaid DEF Followed

LEMMA RunFollows == Followed /\ Run => Followed'
<1> SUFFICES ASSUME Followed, Run PROVE Followed'
    OBVIOUS
<1>1. ASSUME NEW job \in runner.todo, Fail(job) PROVE Followed'
    <2>1. /\ runner' = [runner EXCEPT !.todo = @ \ LeftOut(job), !.blockers = @ \cup {Finding(job)}]
          /\ NothingExported
          /\ UNCHANGED <<approval, marker, lock, lot, deli, art, pieces, validation, human, exporter,
                         moved, disturbed>>
        BY <1>1 DEF Fail, files
    <2>2. Finding(job) \in AllFindings
        BY DEF Followed, CommandsType, Jobs, Maybe, Finding, AllFindings
    <2>3. CommandsType' /\ runner'.todo \subseteq runner.todo
        BY <2>1, <2>2 DEF Followed, CommandsType
    <2>4. TypeOK'
        BY <2>1, <2>3 DEF Followed, TypeOK, CommandsType
    <2> QED
        BY <2>1, <2>3, <2>4, SelectedFacts, SelectionStands
<1>2. ASSUME NEW mission \in SUBSET {[told |-> FALSE, of |-> NoCandidate]}, WriteReport(mission)
      PROVE  Followed'
    <2>1. /\ validation' = [findings |-> runner.blockers \cup mission, whole |-> FALSE]
          /\ runner' = [NoRun EXCEPT !.pc = "report"]
          /\ Disturb /\ NothingExported
          /\ UNCHANGED <<approval, marker, lock, lot, deli, art, pieces, human, exporter, moved>>
        BY <1>2 DEF WriteReport
    <2>2. mission \subseteq AllFindings
        <3>1. [told |-> FALSE, of |-> NoCandidate] \in AllFindings
            BY DEF AllFindings, Maybe
        <3> QED
            BY <3>1
    <2>3. CommandsType' /\ runner'.todo = {}
        BY <2>1 DEF Followed, CommandsType, NoRun
    <2>4. validation' \in [findings : SUBSET AllFindings, whole : BOOLEAN]
        BY <2>1, <2>2 DEF Followed, CommandsType
    <2>5. TypeOK'
        BY <2>1, <2>3, <2>4 DEF Followed, TypeOK, CommandsType, Disturb
    <2> QED
        BY <2>1, <2>3, <2>5, ReportWritten
<1>4. CASE FinishRun
    <2>1. /\ validation' = [validation EXCEPT !.whole = TRUE]
          /\ runner' = NoRun /\ runner'.todo = {}
          /\ Disturb /\ NothingExported
          /\ UNCHANGED <<approval, marker, lock, lot, deli, art, pieces, human, exporter, moved>>
        BY <1>4 DEF FinishRun, NoRun
    <2>2. CommandsType'
        BY <2>1 DEF Followed, CommandsType, NoRun
    <2>3. TypeOK'
        BY <2>1, <2>2 DEF Followed, TypeOK, CommandsType, Disturb
    <2> QED
        BY <2>1, <2>2, <2>3, ReportWritten
<1>3. CASE KillRun
    <2>1. /\ runner' = NoRun /\ runner'.todo = {} /\ NothingExported
          /\ UNCHANGED <<approval, marker, lock, lot, deli, art, pieces, validation, human, exporter,
                         moved, disturbed>>
        BY <1>3 DEF KillRun, files, NoRun
    <2>2. CommandsType'
        BY <2>1 DEF Followed, CommandsType, NoRun
    <2>3. TypeOK'
        BY <2>1, <2>2 DEF Followed, TypeOK, CommandsType
    <2> QED
        BY <2>1, <2>2, <2>3, SelectedFacts, SelectionStands
<1> QED
    BY <1>1, <1>2, <1>3, <1>4, StartFollows, PublishFollows DEF Run

LEMMA HumanFollows == Guarded /\ Followed /\ (Human \/ Upgrade) => Followed'
<1> SUFFICES ASSUME Guarded, Followed, Human \/ Upgrade PROVE Followed'
    OBVIOUS
<1>1. ASSUME NEW gate \in GateNames, NEW candidate \in Maybe, BeginApprove(gate, candidate)
      PROVE  Followed'
    <2>1. /\ human' = [pc |-> "record", gate |-> gate, candidate |-> candidate] /\ NothingExported
          /\ UNCHANGED <<approval, marker, lock, lot, deli, art, pieces, validation, runner, exporter,
                         moved, disturbed>>
        BY <1>1 DEF BeginApprove, files
    <2>2. CommandsType' /\ TypeOK'
        BY <2>1 DEF Followed, CommandsType, TypeOK
    <2> QED
        BY <2>1, <2>2, SelectedFacts, SelectionStands
<1>2. CASE RecordApproval
    <2>1. /\ human.pc = "record" /\ approval' = [approval EXCEPT ![human.gate] = "approved"]
          /\ human' = IF human.gate = "functional_shell_locked" THEN [human EXCEPT !.pc = "lock"]
                      ELSE IF human.candidate # NoCandidate THEN [human EXCEPT !.pc = "mark"]
                      ELSE Idle
          /\ moved' = moved \cup SelectionMoves(human.gate) /\ Disturb /\ NothingExported
          /\ UNCHANGED <<marker, lock, lot, deli, art, pieces, validation, runner, exporter>>
        BY <1>2 DEF RecordApproval
    <2>2. CommandsType'
        BY <2>1 DEF Followed, CommandsType, Idle, GateNames, Maybe
    <2>3. human.gate \in GateNames
        BY DEF Followed, CommandsType
    <2>4. TypeOK'
        BY <2>1, <2>2, <2>3 DEF Followed, TypeOK, CommandsType, SelectionMoves, Disturb
    <2>5. CASE human.gate = "candidate_selected"
        BY <2>1, <2>2, <2>4, <2>5, SelectionMoved DEF SelectionMoves
    <2>6. CASE human.gate = "functional_shell_locked"
        <3>1. approval'["candidate_selected"] = approval["candidate_selected"] /\ moved' = moved
            BY <2>1, <2>6 DEF Followed, TypeOK, GateNames, SelectionMoves
        <3>2. Selected' = Selected
            BY <2>1, <3>1 DEF Selected
        <3> QED
            BY <2>1, <2>2, <2>4, <3>1, <3>2, SelectionStands DEF Disturb
    <2> QED
        BY <2>3, <2>5, <2>6 DEF GateNames
<1>3. CASE WriteMarker
    <2>1. /\ human.pc = "mark" /\ marker' = human.candidate /\ human' = Idle
          /\ moved' = moved \cup SelectionMoves(human.gate) /\ Disturb /\ NothingExported
          /\ UNCHANGED <<approval, lock, lot, deli, art, pieces, validation, runner, exporter>>
        BY <1>3 DEF WriteMarker
    <2>2. human.gate = "candidate_selected" /\ human.candidate \in Maybe
        BY <2>1 DEF Followed, CommandsType
    <2>3. CommandsType' /\ TypeOK'
        BY <2>1, <2>2 DEF Followed, CommandsType, TypeOK, Idle, GateNames, Maybe, SelectionMoves, Disturb
    <2> QED
        BY <2>1, <2>2, <2>3, SelectionMoved DEF SelectionMoves
<1>4. CASE WriteLock
    <2>1. /\ human' = Idle /\ Disturb /\ NothingExported
          /\ UNCHANGED <<approval, marker, lot, deli, art, pieces, validation, runner, exporter, moved>>
        BY <1>4 DEF WriteLock
    <2>2. lock' = lock \/ (lock'.candidate \in Candidates /\ lock'.current \in BOOLEAN)
        <3>1. Selected \in Maybe
            BY SelectedFacts DEF Followed
        <3>2. \/ lock' = lock
              \/ /\ Selected # NoCandidate
                 /\ lock' = [candidate |-> Selected, current |-> TRUE, signature |-> LockSignature]
            BY <1>4 DEF WriteLock
        <3>3. CASE /\ Selected # NoCandidate
                   /\ lock' = [candidate |-> Selected, current |-> TRUE, signature |-> LockSignature]
            <4>1. lock'.candidate = Selected /\ lock'.current \in BOOLEAN
                BY <3>3
            <4> QED
                BY <3>1, <3>3, <4>1 DEF Maybe
        <3> QED
            BY <3>2, <3>3
    <2>3. CommandsType' /\ TypeOK'
        BY <2>1, <2>2 DEF Followed, CommandsType, TypeOK, Idle, GateNames, Maybe, Disturb
    <2> QED
        BY <2>1, <2>3, SelectedFacts, SelectionStands DEF Disturb
<1>5. ASSUME NEW gate \in GateNames, Reject(gate) PROVE Followed'
    <2>1. /\ approval' = [approval EXCEPT ![gate] = "rejected"]
          /\ moved' = moved \cup SelectionMoves(gate) /\ Disturb /\ NothingExported
          /\ UNCHANGED <<marker, lock, lot, deli, art, pieces, validation, runner, human, exporter>>
        BY <1>5 DEF Reject
    <2>2. CommandsType' /\ TypeOK'
        BY <2>1 DEF Followed, CommandsType, TypeOK, SelectionMoves, Disturb
    <2>3. CASE gate = "candidate_selected"
        BY <2>1, <2>2, <2>3, SelectionMoved DEF SelectionMoves
    <2>4. CASE gate = "functional_shell_locked"
        <3>1. approval'["candidate_selected"] = approval["candidate_selected"] /\ moved' = moved
            BY <2>1, <2>4 DEF Followed, TypeOK, GateNames, SelectionMoves
        <3>2. Selected' = Selected
            BY <2>1, <3>1 DEF Selected
        <3> QED
            BY <2>1, <2>2, <3>1, <3>2, SelectionStands DEF Disturb
    <2> QED
        BY <2>3, <2>4 DEF GateNames
<1>6. CASE KillHuman
    <2>1. /\ human' = Idle /\ NothingExported
          /\ UNCHANGED <<approval, marker, lock, lot, deli, art, pieces, validation, runner, exporter,
                         moved, disturbed>>
        BY <1>6 DEF KillHuman, files
    <2>2. CommandsType' /\ TypeOK'
        BY <2>1 DEF Followed, CommandsType, TypeOK, Idle, GateNames, Maybe
    <2> QED
        BY <2>1, <2>2, SelectedFacts, SelectionStands
<1>7. CASE Upgrade
    <2>1. /\ lock # NoLock /\ lock' = [lock EXCEPT !.current = FALSE] /\ Disturb /\ NothingExported
          /\ UNCHANGED <<approval, marker, lot, deli, art, pieces, validation, runner, human, exporter, moved>>
        BY <1>7 DEF Upgrade
    <2>2. lock'.candidate \in Candidates /\ lock'.current \in BOOLEAN
        BY <1>7, <2>1 DEF Followed, TypeOK, Guarded, LockInv, LockRecord
    <2>3. CommandsType' /\ TypeOK'
        BY <2>1, <2>2 DEF Followed, CommandsType, TypeOK, Disturb
    <2> QED
        BY <2>1, <2>3, SelectedFacts, SelectionStands DEF Disturb
<1> QED
    BY <1>1, <1>2, <1>3, <1>4, <1>5, <1>6, <1>7 DEF Human

\* A package is put together of the pieces as they are, under the selection as it is.
LEMMA ShipFollows ==
    ASSUME Guarded, Followed, NEW mode, Ship(mode)
    PROVE  Followed'
<1>1. /\ exporter.pc = "ship" /\ exporter' = NoExport /\ disturbed' = FALSE
      /\ UNCHANGED <<approval, marker, lock, lot, deli, art, pieces, validation, runner, human, moved>>
    BY DEF Ship, files
<1>2. /\ package'.parts = Shipped(mode) /\ package'.selected = Selected
      /\ package'.moved = moved /\ package'.report = validation /\ package'.disturbed = disturbed
    BY DEF Ship
<1>3. /\ Shipped(mode).handoff = pieces["handoff"]
      /\ Shipped(mode).themed \in {NoCandidate, pieces["themed"]}
      /\ Shipped(mode).dressing \in {NoCandidate, pieces["dressing"]}
      /\ Shipped(mode).graybox \in {NoCandidate, exporter.graybox}
      /\ DOMAIN Shipped(mode) = Pieces \cup {"graybox"}
    BY DEF Shipped, Pieces
<1>4. \A p \in Pieces \ moved : Shipped(mode)[p] \in {NoCandidate, Selected}
    BY <1>3 DEF Followed, PiecesInv, Pieces
<1>5. PiecesFollowTheSelection'
    BY <1>2, <1>4 DEF PiecesFollowTheSelection
<1>6. ASSUME ~disturbed, moved \cap Pieces = {}, validation.whole
      PROVE  Blocked(package') = {}
    <2>1. OpenBlockers = {}
        BY <1>1, <1>6 DEF Followed, BlockersInv
    <2>2. exporter.graybox = Selected
        BY <1>1, <1>6 DEF Guarded, GrayboxInv
    <2>3. Parts(package') \subseteq {Selected} \ {NoCandidate}
        BY <1>2, <1>3, <1>4, <1>6, <2>2 DEF Parts, Pieces
    <2>4. \A f \in validation.findings : ~f.told => f.of # NoCandidate /\ f.of # Selected
        BY <1>6, <2>1 DEF OpenBlockers, Findings
    <2> QED
        BY <1>2, <2>3, <2>4 DEF Blocked, Untold
<1>7. NothingBlockedShips'
    BY <1>2, <1>6 DEF NothingBlockedShips
<1>8. TypeOK' /\ CommandsType'
    BY <1>1 DEF Followed, TypeOK, CommandsType, NoExport
<1>9. PiecesInv' /\ PlanInv' /\ BlockersInv'
    BY <1>1, SelectedFacts DEF Followed, PiecesInv, PlanInv, BlockersInv, NoExport
<1> QED
    BY <1>5, <1>7, <1>8, <1>9 DEF Followed

LEMMA ExportFollows == Guarded /\ Followed /\ Export => Followed'
<1> SUFFICES ASSUME Guarded, Followed, Export PROVE Followed'
    OBVIOUS
<1>1. ASSUME BeginExport \/ CheckBlockers \/ CheckDrift PROVE Followed'
    <2>1. /\ NothingExported
          /\ UNCHANGED <<approval, marker, lock, lot, deli, art, pieces, validation, runner, human, moved>>
        BY <1>1 DEF BeginExport, CheckBlockers, CheckDrift, files
    <2>2. Selected' = Selected /\ OpenBlockers' = OpenBlockers
        BY <2>1, SelectedFacts DEF OpenBlockers, Findings
    <2>3. /\ exporter'.pc \in {"idle", "blockers", "drift", "ship"}
          /\ disturbed' \in BOOLEAN
          /\ BlockersInv'
        <3>1. CASE BeginExport
            BY <3>1 DEF BeginExport, BlockersInv
        <3>2. CASE CheckBlockers
            BY <2>2, <3>2 DEF CheckBlockers, Guarded, ExporterType, NoExport, BlockersInv, Followed, TypeOK
        <3>3. CASE CheckDrift
            BY <2>2, <3>3 DEF CheckDrift, Guarded, ExporterType, NoExport, BlockersInv, Followed, TypeOK
        <3> QED
            BY <1>1, <3>1, <3>2, <3>3
    <2>4. TypeOK' /\ CommandsType'
        BY <2>1, <2>3 DEF Followed, TypeOK, CommandsType
    <2>5. PiecesInv' /\ PlanInv'
        BY <2>1, <2>2 DEF Followed, PiecesInv, PlanInv
    <2> QED
        BY <2>1, <2>3, <2>4, <2>5, NothingSaid DEF Followed
<1> QED
    BY <1>1, ShipFollows DEF Export

LEMMA FollowedInductive == Guarded /\ Followed /\ [Next]_vars => Followed'
<1>1. ASSUME Guarded, Followed, Next PROVE Followed'
    BY <1>1, RunFollows, HumanFollows, ExportFollows DEF Next
<1>2. ASSUME Followed, UNCHANGED vars PROVE Followed'
    BY <1>2 DEF vars, files, Followed, TypeOK, CommandsType, PiecesInv, PlanInv, BlockersInv,
                PiecesFollowTheSelection, NothingBlockedShips, Selected, OpenBlockers, Findings,
                Blocked, Untold, Parts
<1> QED
    BY <1>1, <1>2

LEMMA FollowedAlways == Spec => []Followed
<1> QED
    BY FollowedInitially, FollowedInductive, GuardedAlways, PTL DEF Spec

\* Whatever was killed, failed, rejected or selected again: a piece in a package that was made
\* since the selection last moved is the selected candidate's (cmd_run plans --art and the
\* handoff for the marker's candidate, and for no other).
THEOREM PackagesFollowTheSelection == Spec => []PiecesFollowTheSelection
<1>1. Followed => PiecesFollowTheSelection
    BY DEF Followed
<1> QED
    BY <1>1, FollowedAlways, PTL

\* A package exported with nothing written beside it, past a report that can be read, holds no
\* piece of a candidate with a blocker open on anything but the dressing the package speaks for
\* itself, and none is shipped over a blocker that names no candidate (cmd_export's first check).
THEOREM BlockedNeverShips == Spec => []NothingBlockedShips
<1>1. Followed => NothingBlockedShips
    BY DEF Followed
<1> QED
    BY <1>1, FollowedAlways, PTL

\* The approvals, the selection, the pieces and the commands keep their types, whichever command
\* is killed between two of its writes.
THEOREM GatesType == Spec => []TypeOK
<1>1. Followed => TypeOK
    BY DEF Followed
<1> QED
    BY <1>1, FollowedAlways, PTL
==============================================================================
