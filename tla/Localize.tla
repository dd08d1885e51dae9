------------------------------ MODULE Localize ------------------------------
(***************************************************************************)
(* From the package export_mission has copied together to the one it       *)
(* ships: packages/exporting/localize.py mends the references, steps 4 to  *)
(* 4.9 of export.py add to the folder and take from it, closure.py judges  *)
(* it, and two guards read the folder back.                                *)
(*                                                                         *)
(* A package is a function from paths to files and a path a sequence of    *)
(* names.  A file is what its bytes are (is), its type and its references  *)
(* in the order of the text; what is not a resource (a "model") has none.  *)
(* "opaque" is a text whose references only the closure scan and the merge *)
(* read: one that cannot be decoded or parsed, which the fixer leaves      *)
(* without a word.  A reference is                                         *)
(*   "res"    res:// and a path from the root: an absolute path is mangled *)
(*            into one or is not, an addon's script is one under addons/   *)
(*   "rel"    a path from the file's own directory                         *)
(*   "class"  the global name of a script, which needs the script there    *)
(*   "text"   a string that is none of these                               *)
(* and remembers in "was" the path it was written with.                    *)
(*                                                                         *)
(* The passes visit the files of the folder in every order; the code takes *)
(* one of them.  What an engine step does to the folder is reduced to what *)
(* it adds, renames and removes; the light bake, import sidecars, project  *)
(* settings, handoff records, buildings index and scout window are left    *)
(* out, and a census that refuses is any refusal.                          *)
(***************************************************************************)
EXTENDS Naturals, FiniteSets, Sequences, SequencesExt

CONSTANTS
    Name,       \* names of files and directories, and what files hold
    Inputs,     \* what may be given: [package, disk, addons, unreadable, strip, godot]
    ClassOf,    \* the global class names of the tools' scripts -> their path under addons/
    Drives,     \* the ways the text of an absolute path begins
    Listed,     \* those of them the fixer's patterns see
    Quoted,     \* those of them the closure scan counts as such
    WalkScenes, \* the names *_walk.tscn takes
    Layers,     \* the names *_dressing.tscn and *_backdrop.tscn take
    SkinReads,  \* the names of the modules the runtime skin reads by family
    Hashed(_, _), \* a name with the first digits of what a file is put into it
    MaxPasses   \* max_passes of localize_export

ASSUME PassesAssumption == MaxPasses \in Nat \ {0}

\* The names the export gives itself.
OfTheTop == {"addons", "assets", "runtime", "lot", "presentation", "site.tscn", "lux.applied.tscn", "mission.tscn",
             "occluders.tscn", "warmup.gd", "export_closure_scan.json", "LICENSES.json", "export_profile.json",
             "output_layers.json", "portable_resource_manifest.json", "LF_MANIFEST.json"}

ASSUME NamesAssumption ==
    OfTheTop \cup {"art", "zoo", "merged", "side.res", "mesh", "entry", "occluders", "warmup", "rewrite failed"}
        \subseteq Name

VARIABLES
    given,      \* what the export was given, which nothing changes
    package,    \* path -> file
    folders,    \* the directories of the package
    phase,
    todo,       \* the files the pass in progress has still to visit
    changed,    \* a file of this pass changed
    passes,     \* passes begun
    unresolved, \* the fixer's record of what it could not repair
    judged,     \* the package the verdict is about
    listed,     \* the paths the resource manifest lists
    closed      \* history: every reference resolved when the entry had been written

vars == <<given, package, folders, phase, todo, changed, passes, unresolved, judged, listed, closed>>

------------------------------------------------------------------------------
(* Files and references.                                                   *)

Path == Seq(Name) \ {<<>>}
Ref == [kind : {"res", "rel", "class", "text"}, path : Path, was : Path]
File == {file \in [is : Name, type : {"scene", "script", "data", "opaque", "model", "record"}, refs : Seq(Ref)] :
            file.type \in {"model", "record"} => file.refs = <<>>}

IsPackage(pkg) ==
    /\ pkg = [p \in DOMAIN pkg |-> pkg[p]]
    /\ DOMAIN pkg \subseteq Path /\ IsFiniteSet(DOMAIN pkg)
    /\ \A p \in DOMAIN pkg : pkg[p] \in File

Text(file) == file.type \in {"scene", "script"}
Scanned(file) == Text(file) \/ file.type \in {"data", "opaque"}
TextFiles(pkg) == {p \in DOMAIN pkg : Text(pkg[p])}

\* The directories a file is under, below the root.
Above(path) == {SubSeq(path, 1, n) : n \in 1 .. (Len(path) - 1)}

Folders(pkg) == UNION {Above(p) : p \in DOMAIN pkg}

\* The file or directory a path from the root names.  Files are unlinked one by one,
\* so a directory stays when the last of its own goes.  One made for a copy that then
\* failed is left out.
Exists(pkg, path) == path \in DOMAIN pkg \cup folders

Absolute(path) == Head(path) \in Drives
SeenByFixer(path) == Head(path) \in Listed
OfAddon(path) == Head(path) = "addons" /\ Len(path) > 2

\* What joining a path to a root of the package leads to: an absolute one discards the
\* root and is asked of the machine.  A directory there is a file nobody can read.
There(pkg, root, path) ==
    IF Absolute(path) THEN path \in DOMAIN given.disk ELSE Exists(pkg, root \o path)

\* One over the other: what both have is the first's.
Over(first, second) ==
    [p \in DOMAIN first \cup DOMAIN second |-> IF p \in DOMAIN first THEN first[p] ELSE second[p]]

Put(pkg, path, file) == Over([p \in {path} |-> file], pkg)
Without(pkg, gone) == [p \in DOMAIN pkg \ gone |-> pkg[p]]

\* The same files with f applied to every reference of the resources.
WithRefs(pkg, Of(_, _)) ==
    [p \in DOMAIN pkg |->
        IF Text(pkg[p])
        THEN [pkg[p] EXCEPT !.refs = [i \in DOMAIN @ |-> Of(p, @[i])]]
        ELSE pkg[p]]

RefsOf(file) == Range(file.refs)
Files(pkg) == {pkg[p] : p \in DOMAIN pkg}
Resources(file) == {r.path : r \in {q \in RefsOf(file) : q.kind = "res"}}

\* The base name of a path anywhere in a text: deliberately wide.
Mentions(file, name) == \E r \in RefsOf(file) : r.kind # "class" /\ Last(r.path) = name

StillReferenced(pkg, path) ==
    \E p \in TextFiles(pkg) \ {path} : Mentions(pkg[p], Last(path))

------------------------------------------------------------------------------
(* What an export may be given.                                            *)

Below(path) == {path[i] : i \in 2..Len(path)}

\* Names that are of the top of a package, or of no package at all.
Reserved == Drives \cup {"addons", "assets", "runtime", "lot"}

\* What the name of a copy with its hash is.
HashedOf(g, src) == Hashed(Last(src), g.disk[src].is)

\* Packages, and references as their tools wrote them.  Outside files are under a drive.
Given(g) ==
    /\ IsPackage(g.package) /\ IsPackage(g.disk) /\ IsPackage(g.addons)
    /\ \A file \in Files(g.package) \cup Files(g.disk) \cup Files(g.addons) :
          \A r \in RefsOf(file) : r.was = r.path
    /\ \A src \in DOMAIN g.disk : Absolute(src) /\ Len(src) > 1 /\ HashedOf(g, src) \in Name
    /\ g.strip \in BOOLEAN /\ g.godot \in BOOLEAN

\* The export leaves addons/ behind (skip_dirs), so nothing is under it or under a drive,
\* and no folder of a level, of a building or of a tool has a name of the top's.
Placed(g) ==
    /\ \A p \in DOMAIN g.package : p[1] \notin Drives \cup {"addons"} /\ Below(p) \cap Reserved = {}
    /\ \A q \in DOMAIN g.addons : Range(q) \cap Reserved = {}
    /\ \A src \in DOMAIN g.disk : {Last(src), HashedOf(g, src)} \cap Reserved = {}

\* The hash tells contents apart, and no other file has a name with one in it; what is
\* under runtime/ already is the tools'.  A file's suffix is its type.
Same(file, other) == file.is = other.is /\ file.type = other.type

Distinct(g) ==
    /\ \A src, other \in DOMAIN g.disk :
          HashedOf(g, src) \in {Last(other), HashedOf(g, other)} => Same(g.disk[src], g.disk[other])
    /\ \A src \in DOMAIN g.disk : LET path == <<"assets", HashedOf(g, src)>> IN
          path \in DOMAIN g.package => Same(g.package[path], g.disk[src])
    /\ \A q \in DOMAIN g.addons : LET path == <<"runtime">> \o q IN
          path \in DOMAIN g.package => Same(g.package[path], g.addons[q])

ASSUME DrivesAssumption ==
    /\ Drives \cap (OfTheTop \cup {"merged", "side.res"}) = {}
    /\ Listed \subseteq Drives /\ Quoted \subseteq Drives

ASSUME WalkAssumption == "side.res" \notin WalkScenes

ASSUME InputsAssumption == \A g \in Inputs : Given(g) /\ Placed(g) /\ Distinct(g)

------------------------------------------------------------------------------
(* What goes: walk scenes, QA harnesses, and the scripts of the walk.      *)

QaHarness == {"site_navqa.tscn", "lot_navqa_setup.gd", "mp_smoke.gd", "mp_smoke_node.gd"}

Named(pkg, names) == {p \in DOMAIN pkg : Last(p) \in names}

\* Mutant of Then: the repair by name before the one with evidence.
BareFirst == [walk |-> "qa", qa |-> "player", player |-> "setup", setup |-> "scrub",
              scrub |-> "rewrite", rewrite |-> "bare", bare |-> "reroot", reroot |-> "entry",
              entry |-> "occluders", occluders |-> "merge", merge |-> "warmup",
              warmup |-> "judge", judge |-> "describe", describe |-> "guard"]

\* The steps, in the order the code takes them.
Then == [walk |-> "qa", qa |-> "player", player |-> "setup", setup |-> "scrub",
         scrub |-> "rewrite", rewrite |-> "reroot", reroot |-> "bare", bare |-> "entry",
         entry |-> "occluders", occluders |-> "merge", merge |-> "warmup",
         warmup |-> "judge", judge |-> "describe", describe |-> "guard"]

Fixed == UNCHANGED <<given, todo, changed, passes, unresolved, judged, listed, closed>>

StripWalk ==
    /\ phase = "walk"
    /\ package' = IF given.strip THEN Without(package, Named(package, WalkScenes)) ELSE package
    /\ phase' = Then[phase]
    /\ Fixed

StripQaHarness ==
    /\ phase = "qa"
    /\ package' = Without(package, Named(package, QaHarness))
    /\ phase' = Then[phase]
    /\ Fixed

\* One name after the other: the second's file still speaks for the first.
StripChrome(step, name) ==
    /\ phase = step
    /\ package' = IF given.strip
                  THEN Without(package, {p \in Named(package, {name}) : ~StillReferenced(package, p)})
                  ELSE package
    /\ phase' = Then[phase]
    /\ Fixed

\* An absolute path a data file holds becomes the name at its end, in a form the fixer knows.
Scrubbed(r) == IF r.kind = "text" /\ SeenByFixer(r.path) THEN [r EXCEPT !.path = <<Last(@)>>] ELSE r

ScrubData ==
    /\ phase = "scrub"
    /\ package' = [p \in DOMAIN package |->
                    IF package[p].type = "data"
                    THEN [package[p] EXCEPT !.refs = [i \in DOMAIN @ |-> Scrubbed(@[i])]]
                    ELSE package[p]]
    /\ phase' = Then[phase]
    /\ todo' = TextFiles(package) /\ changed' = FALSE /\ passes' = 1
    /\ UNCHANGED <<given, unresolved, judged, listed, closed>>

------------------------------------------------------------------------------
(* One pass over one file: absolute paths, addon paths, class names.  The  *)
(* work so far: the package, the references of the file, whether its text  *)
(* or anything it needs changed, what is unresolved, whether it failed.    *)

\* Mutant of Bundled: whatever has the name is taken for the file.
BundledByName(pkg, src) == <<"assets", Last(src)>>

\* Where the copy of an outside file belongs: under its name, or with its hash
\* when the name is taken by another content.
Bundled(pkg, src) ==
    LET plain == <<"assets", Last(src)>>
    IN  IF plain \in DOMAIN pkg /\ pkg[plain] # given.disk[src]
        THEN <<"assets", Hashed(Last(src), given.disk[src].is)>>
        ELSE plain

PutNew(pkg, path, file) == IF path \in DOMAIN pkg THEN pkg ELSE Put(pkg, path, file)

Unrepaired(work, name, r) ==
    [work EXCEPT !.unresolved = @ \cup {<<name, r.path>>}, !.refs = Append(@, r)]

Repaired(work, pkg, r, path) ==
    [work EXCEPT !.package = pkg, !.refs = Append(@, [r EXCEPT !.path = path]), !.changed = TRUE]

\* A file that is there and cannot be read ends the work on this text; a form the
\* pattern does not match is left without a record.
BundleRef(name, work, r) ==
    IF work.failed \/ r.kind # "res" \/ ~SeenByFixer(r.path)
    THEN [work EXCEPT !.refs = Append(@, r)]
    ELSE IF r.path \notin DOMAIN given.disk THEN Unrepaired(work, name, r)
    ELSE IF r.path \in given.unreadable THEN [work EXCEPT !.failed = TRUE]
    ELSE LET target == Bundled(work.package, r.path)
         IN  Repaired(work, PutNew(work.package, target, given.disk[r.path]), r, target)

\* The scripts a reference under addons/ brings: the file, or all of a directory.
Brings(script) == {q \in DOMAIN given.addons : IsPrefix(script, q)}

Runtime(script) == <<"runtime">> \o script

\* A file is copied once, a directory over what is there; what cannot be read
\* leaves the rest copied and the reference as it was.
Copied(pkg, script) ==
    LET those == Brings(script) \ given.unreadable
        fresh == IF script \in those THEN {q \in those : Runtime(q) \notin DOMAIN pkg} ELSE those
    IN  Over([p \in {Runtime(q) : q \in fresh} |-> given.addons[Tail(p)]], pkg)

LocalizeRef(name, work, r) ==
    IF r.kind # "res" \/ ~OfAddon(r.path)
    THEN [work EXCEPT !.refs = Append(@, r)]
    ELSE LET script == Tail(r.path)
             pkg == Copied(work.package, script)
             there == script \in DOMAIN given.addons /\ Runtime(script) \in DOMAIN work.package
         IN  IF Brings(script) # {} /\ (there \/ Brings(script) \cap given.unreadable = {})
             THEN Repaired(work, pkg, r, Runtime(script))
             ELSE [Unrepaired(work, name, r) EXCEPT !.package = pkg]

\* The scripts that declare a name, of the tools that are configured.
Declared(class) ==
    /\ class \in DOMAIN ClassOf /\ ClassOf[class] \in DOMAIN given.addons \ given.unreadable
    /\ Text(given.addons[ClassOf[class]])

\* Mutant of ClassRef: a script brought by its name is no change.
ClassRefQuiet(work, r) ==
    IF r.kind = "class" /\ Declared(r.path[1])
    THEN [work EXCEPT !.package = PutNew(@, Runtime(ClassOf[r.path[1]]), given.addons[ClassOf[r.path[1]]])]
    ELSE work

\* A name brings its script, and a script brought is a change though no text is.
ClassRef(work, r) ==
    IF r.kind = "class" /\ Declared(r.path[1]) /\ Runtime(ClassOf[r.path[1]]) \notin DOMAIN work.package
    THEN [work EXCEPT !.package = Put(@, Runtime(ClassOf[r.path[1]]), given.addons[ClassOf[r.path[1]]]),
                      !.changed = TRUE]
    ELSE work

\* The same for all the references of a text, one after the other.
Mended(what, name, work, r) ==
    CASE what = "absolute" -> BundleRef(name, work, r)
      [] what = "addons"   -> LocalizeRef(name, work, r)
      [] what = "classes"  -> ClassRef(work, r)

Swept(what, name, work, refs) ==
    FoldLeft(LAMBDA sofar, r : Mended(what, name, sofar, r), work, refs)

Rewritten(p) ==
    LET start   == [package |-> package, refs |-> <<>>, changed |-> FALSE,
                    unresolved |-> unresolved, failed |-> FALSE]
        bundled == Swept("absolute", Last(p), start, package[p].refs)
        addons  == Swept("addons", Last(p), [bundled EXCEPT !.refs = <<>>], bundled.refs)
    IN  IF bundled.failed THEN bundled
        ELSE IF package[p].type = "script" THEN Swept("classes", Last(p), addons, addons.refs)
        ELSE addons

\* _rewrite_text over one file of the pass.
RewriteFile(p) ==
    /\ phase = "rewrite"
    /\ p \in todo
    /\ todo' = todo \ {p}
    /\ LET work == Rewritten(p)
       IN  /\ package' = IF work.changed /\ ~work.failed
                         THEN [work.package EXCEPT ![p] = [package[p] EXCEPT !.refs = work.refs]]
                         ELSE work.package
           /\ changed' = (changed \/ (work.changed /\ ~work.failed))
           /\ unresolved' = IF work.failed THEN work.unresolved \cup {<<Last(p), <<"rewrite failed">>>>}
                            ELSE work.unresolved
    /\ UNCHANGED <<given, phase, passes, judged, listed, closed>>

\* The files a pass visits are those of its start: one that it copies waits for
\* the next, which there is when something changed and the passes have not run out.
EndPass ==
    /\ phase = "rewrite"
    /\ todo = {}
    /\ IF changed /\ passes < MaxPasses
       THEN /\ todo' = TextFiles(package) /\ changed' = FALSE /\ passes' = passes + 1
            /\ UNCHANGED phase
       ELSE /\ phase' = Then[phase]
            /\ UNCHANGED <<todo, changed, passes>>
    /\ UNCHANGED <<given, package, unresolved, judged, listed, closed>>

------------------------------------------------------------------------------
(* After the passes.                                                       *)

\* How many of a file's references are there, read from a directory.
Resolving(pkg, root, file) == Cardinality({q \in Resources(file) : There(pkg, root, q)})

\* The directories from which more of them are than from the root of the package.
Better(pkg, p) ==
    IF Resolving(pkg, <<>>, pkg[p]) = Cardinality(Resources(pkg[p])) THEN {}
    ELSE {root \in Above(p) : Resolving(pkg, root, pkg[p]) > Resolving(pkg, <<>>, pkg[p])}

Deepest(roots) == CHOOSE root \in roots : \A other \in roots : Len(other) <= Len(root)

\* A building staged as a root of its own: what is there from the deepest better
\* directory is named from there, an absolute path of the machine with it; the rest stays.
Rerooted(pkg, p, r) ==
    IF r.kind # "res" \/ Better(pkg, p) = {} THEN r
    ELSE LET root == Deepest(Better(pkg, p))
         IN  IF ~IsStrictPrefix(root, r.path) /\ There(pkg, root, r.path)
             THEN [r EXCEPT !.path = root \o @]
             ELSE r

Reroot ==
    /\ phase = "reroot"
    /\ package' = WithRefs(package, LAMBDA p, r : Rerooted(package, p, r))
    /\ phase' = Then[phase]
    /\ Fixed

\* A name at the root that a bundled file has becomes that file, whether or not
\* there is a file of the name at the root.
RepairBare ==
    /\ phase = "bare"
    /\ package' = WithRefs(package, LAMBDA p, r :
                    IF r.kind = "res" /\ Len(r.path) = 1 /\ <<"assets", r.path[1]>> \in DOMAIN package
                    THEN [r EXCEPT !.path = <<"assets">> \o @]
                    ELSE r)
    /\ phase' = Then[phase]
    /\ Fixed

Res(path) == [kind |-> "res", path |-> path, was |-> path]
Entry == <<"mission.tscn">>
Lit == <<"presentation", "lux.applied.tscn">>

\* The lit scene where there is one, else the site; and the layers beside it.
Level == IF Lit \in DOMAIN package THEN {Lit} ELSE {<<"site.tscn">>} \cap DOMAIN package
Instanced == Level \cup {p \in DOMAIN package : Len(p) = 1 /\ p[1] \in Layers}

Scene(is, paths) == [is |-> is, type |-> "scene", refs |-> [i \in DOMAIN paths |-> Res(paths[i])]]

\* Whether a reference of a file is good for the closure scan, which takes an absolute
\* path in a form it does not count for a file of the package, if the machine has it.
Resolves(pkg, p, r) ==
    CASE r.kind = "res"   -> Head(r.path) \notin Quoted /\ There(pkg, <<>>, r.path)
      [] r.kind = "rel"   -> Exists(pkg, Front(p) \o r.path)
      [] r.kind = "text"  -> Head(r.path) \notin Quoted
      [] r.kind = "class" -> TRUE

\* The files that do not resolve.
Open(pkg) == {p \in DOMAIN pkg : \E r \in RefsOf(pkg[p]) : ~Resolves(pkg, p, r)}

\* An entry that would instance nothing ends the export.
WriteEntry ==
    /\ phase = "entry"
    /\ IF Instanced = {}
       THEN /\ phase' = "refused"
            /\ UNCHANGED <<package, closed>>
       ELSE /\ phase' = Then[phase]
            /\ package' = Put(package, Entry, Scene("entry", SetToSeq(Instanced)))
            /\ closed' = (Open(package') = {})
    /\ UNCHANGED <<given, todo, changed, passes, unresolved, judged, listed>>

\* A file is written and the entry scene instances it.
Wired(pkg, path, file) ==
    [Put(pkg, path, file) EXCEPT ![Entry].refs = Append(@, Res(path))]

Refuse == phase' = "refused" /\ UNCHANGED package

\* With an engine the occluders are measured, which may fail the export; without
\* one, or with nothing solid, there are none.
Occluders ==
    /\ phase = "occluders"
    /\ \/ given.godot /\ Refuse
       \/ /\ given.godot
          /\ package' = Wired(package, <<"occluders.tscn">>, Scene("occluders", <<>>))
          /\ phase' = Then[phase]
       \/ UNCHANGED package /\ phase' = Then[phase]
    /\ Fixed

\* The modules of a building: what a merge folds and what it may leave unnamed.
Kit(pkg, root) == {p \in DOMAIN pkg : Front(p) = root \o <<"art", "zoo">> /\ pkg[p].type = "model"}

\* Mutant of Unnamed: only the scenes are asked.
UnnamedByScenes(pkg, root) ==
    {p \in Kit(pkg, root) : /\ Last(p) \notin SkinReads
                            /\ ~\E q \in DOMAIN pkg : pkg[q].type = "scene" /\ Mentions(pkg[q], Last(p))}

\* Named by no resource, script or data file, anywhere, by its base name, and not
\* one the skin finds in the folder.
Unnamed(pkg, root) ==
    {p \in Kit(pkg, root) : /\ Last(p) \notin SkinReads
                            /\ ~\E q \in DOMAIN pkg : Scanned(pkg[q]) /\ Mentions(pkg[q], Last(p))}

Buildings == {p \in DOMAIN package : Len(p) = 3 /\ p[1] = "lot" /\ p[3] = "site.tscn"}

Mesh(scene) == Front(scene) \o <<"merged", "side.res">>

\* The scenes whose slots are folded name a merged mesh for the modules in them.
Merged(pkg, scenes, modules) ==
    LET folded == [p \in DOMAIN pkg |->
            IF p \in scenes
            THEN [pkg[p] EXCEPT !.refs =
                    [i \in DOMAIN @ |-> IF @[i].kind = "res" /\ @[i].path \in modules
                                        THEN Res(Mesh(p)) ELSE @[i]]]
            ELSE pkg[p]]
        meshes == [p \in {Mesh(scene) : scene \in scenes} |-> [is |-> "mesh", type |-> "model", refs |-> <<>>]]
    IN  Over(folded, meshes)

\* Some slots of some buildings are folded, and the modules of those buildings
\* that nothing names any more are removed.  The two merges are one step here.
MergeModules ==
    /\ phase = "merge"
    /\ \/ given.godot /\ Refuse
       \/ /\ given.godot
          /\ \E modules \in SUBSET UNION {Kit(package, Front(scene)) : scene \in Buildings} :
                LET scenes == {p \in Buildings : Resources(package[p]) \cap modules # {}}
                    pkg    == Merged(package, scenes, modules)
                IN  package' = Without(pkg, UNION {Unnamed(pkg, Front(scene)) : scene \in scenes})
          /\ phase' = Then[phase]
       \/ ~given.godot /\ UNCHANGED package /\ phase' = Then[phase]
    /\ Fixed

\* The warm-up; it, or one of the gates over the models after it, may end the export.
WarmUp ==
    /\ phase = "warmup"
    /\ \/ Refuse
       \/ /\ package' = Wired(package, <<"warmup.gd">>, [is |-> "warmup", type |-> "script", refs |-> <<>>])
          /\ phase' = Then[phase]
    /\ Fixed

------------------------------------------------------------------------------
(* The verdict, what is written after it, and the guards.                  *)

\* Records about the package, beside what is there.
Recorded(pkg, names) ==
    Over(pkg, [p \in {<<name>> : name \in names} |-> [is |-> p[1], type |-> "record", refs |-> <<>>]])

\* _WRITTEN_AFTER_VERDICT, and of it what the resource manifest cannot list.
Unlisted == {<<"portable_resource_manifest.json">>, <<"LF_MANIFEST.json">>}
WrittenAfter == {<<"export_closure_scan.json">>, <<"LICENSES.json">>, <<"export_profile.json">>,
                 <<"output_layers.json">>} \cup Unlisted

\* The verdict is about the package as it stands; a broken one is not shipped.
Judge ==
    /\ phase = "judge"
    /\ judged' = package
    /\ package' = Recorded(package, {"export_closure_scan.json"})
    /\ phase' = IF Open(package) = {} THEN Then[phase] ELSE "refused"
    /\ UNCHANGED <<given, todo, changed, passes, unresolved, listed, closed>>

\* Licences, profile and layers; then the manifest of all there is; then its two.
Describe ==
    /\ phase = "describe"
    /\ LET described == Recorded(package, {"LICENSES.json", "export_profile.json", "output_layers.json"})
       IN  /\ listed' = DOMAIN described
           /\ package' = Recorded(described, {"portable_resource_manifest.json", "LF_MANIFEST.json"})
    /\ phase' = Then[phase]
    /\ UNCHANGED <<given, todo, changed, passes, unresolved, judged, closed>>

\* Written, removed or rewritten since the verdict, but for what may be.
Drift ==
    {p \in DOMAIN package \cup DOMAIN judged : p \notin WrittenAfter /\
        ~(p \in DOMAIN package /\ p \in DOMAIN judged
            /\ (Scanned(package[p]) => package[p] = judged[p]))}

Accounted == listed \cap Unlisted = {} /\ DOMAIN package = listed \cup Unlisted

Guard ==
    /\ phase = "guard"
    /\ phase' = IF Drift = {} /\ Accounted THEN "shipped" ELSE "refused"
    /\ UNCHANGED package
    /\ Fixed

------------------------------------------------------------------------------
Init ==
    /\ given \in Inputs
    /\ package = given.package /\ folders = Folders(package)
    /\ phase = "walk"
    /\ todo = {} /\ changed = FALSE /\ passes = 0 /\ unresolved = {}
    /\ judged = <<>> /\ listed = {} /\ closed = FALSE

Strip ==
    \/ StripWalk \/ StripQaHarness
    \/ StripChrome("player", "lot_player.gd")
    \/ StripChrome("setup", "lot_site_walk.gd")

Repair ==
    \/ ScrubData
    \/ \E p \in todo : RewriteFile(p)
    \/ EndPass \/ Reroot \/ RepairBare

Build == WriteEntry \/ Occluders \/ MergeModules \/ WarmUp

Next ==
    /\ Strip \/ Repair \/ Build \/ Judge \/ Describe \/ Guard
    /\ folders' = folders \cup Folders(package')

Spec == Init /\ [][Next]_vars
------------------------------------------------------------------------------
(* Properties.                                                             *)

TypeOK ==
    /\ given \in Inputs
    /\ IsPackage(package) /\ IsPackage(judged)
    /\ folders \subseteq Path /\ Folders(package) \subseteq folders
    /\ phase \in DOMAIN Then \cup {"guard", "shipped", "refused"}
    /\ todo \subseteq DOMAIN package /\ listed \subseteq Path
    /\ changed \in BOOLEAN /\ closed \in BOOLEAN
    /\ passes \in 0..MaxPasses
    /\ unresolved \subseteq Name \X Path

Repairing == {"walk", "qa", "player", "setup", "scrub", "rewrite"}

\* When the passes did not run out and the fixer's record is empty, no text the fixer can
\* read names an absolute path in a form it knows, or an addon: not the texts it was
\* given, not the scripts and scenes it copied in while it went through them.
CleanReportIsClean ==
    phase \notin Repairing /\ unresolved = {} /\ (passes < MaxPasses \/ ~changed) =>
        \A p \in TextFiles(package) : \A path \in Resources(package[p]) :
            ~SeenByFixer(path) /\ ~OfAddon(path)

\* What a foreign path was before it was repaired.
Meant(path) == IF Absolute(path) THEN given.disk[path] ELSE given.addons[Tail(path)]
IsFile(path) == path \in DOMAIN given.disk \/ (OfAddon(path) /\ Tail(path) \in DOMAIN given.addons)

\* A reference put under a folder its file is in is its path as it was, never repaired.
Moved(p, r) == \E root \in Above(p) : r.path = root \o r.was

\* A repaired reference shows the file its tool named, whatever else has the name
\* and whatever the later steps move, merge and remove.
KeepsItsFile ==
    phase \notin Repairing =>
        \A p \in TextFiles(package) : \A r \in RefsOf(package[p]) :
            r.kind = "res" /\ r.path # r.was /\ IsFile(r.was) /\ ~Moved(p, r) =>
                r.path \in DOMAIN package /\ package[r.path].is = Meant(r.was).is

\* A building of which anything in a folder is only under its own ships with its
\* own things, not with the site's that have the same names, so long as no path it
\* names leads to anything from lot/.
Own(p) == SubSeq(p, 1, 2)
KeepsItsOwn ==
    phase = "shipped" =>
        \A p \in Buildings \cap DOMAIN given.package :
            /\ \E path \in Resources(given.package[p]) :
                  Len(path) > 1 /\ Own(p) \o path \in DOMAIN given.package /\ ~Exists(package, path)
            /\ \A path \in Resources(given.package[p]) :
                  <<"lot">> \o path \notin DOMAIN given.package \cup Folders(given.package)
            => \A now \in {r \in RefsOf(package[p]) : r.kind = "res"} : LET its == Own(p) \o now.was IN
                  its \in DOMAIN given.package \cap DOMAIN package =>
                    now.path \in DOMAIN package /\ package[now.path].is = given.package[its].is

\* What was whole, as the closure scan sees it, when the entry was written is whole when
\* it is judged, merged and thinned out as it may be; and what ships is still what the
\* scan found whole, with its entry, whatever was written after it.
StaysClosed ==
    /\ phase = "judge" /\ closed => Open(package) = {}
    /\ phase = "shipped" => Open(package) = {} /\ Entry \in DOMAIN package

\* "A portable export must reference only files inside its own mission folder or built-in
\* Godot resources -- no absolute paths" (closure.py): what ships names none.
ShipsSelfContained ==
    phase = "shipped" =>
        \A p \in DOMAIN package : \A r \in RefsOf(package[p]) : r.kind = "res" => ~Absolute(r.path)
==============================================================================
