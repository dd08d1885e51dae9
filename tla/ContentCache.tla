---------------------------- MODULE ContentCache ----------------------------
(***************************************************************************)
(* ContentCache (packages/artifacts/cache.py) under several users: the     *)
(* jobs of a run, each looking its fingerprint up and either materializing *)
(* the entry or building and publishing one, and the `cache` command that  *)
(* forgets and prunes from a process of its own.                           *)
(*                                                                         *)
(* A blob is copied to a temporary name of its writer's own and renamed    *)
(* into place, so it is there whole or not at all, and it is named for its *)
(* content.  A manifest is written in place: opened, which empties it, and *)
(* then filled; a second writer may be at it at the same time.             *)
(***************************************************************************)
EXTENDS Naturals, FiniteSets

CONSTANTS
    Fingerprint,
    Content,            \* what an output file can hold
    Outputs,            \* Outputs[f]: the contents a build of f produces
    Worker,             \* jobs running at once
    MaxLookups,         \* bound: lookups begun
    MaxUpkeep,          \* bound: forgets and prunes
    None

ASSUME OutputsAssumption ==
    /\ Outputs \in [Fingerprint -> SUBSET Content]
    /\ None \notin Fingerprint
    /\ MaxLookups \in Nat /\ MaxUpkeep \in Nat

VARIABLES
    pruneAlone, \* `cache prune` is run only while no job does, which nothing enforces
    blobs,      \* blobs on disk, by content
    manifest,   \* each fingerprint's manifest: absent, empty, torn or whole
    pc,         \* what each worker is doing
    fp,         \* the fingerprint it is at
    left,       \* the outputs it has still to link or publish
    got,        \* the outputs it has materialized
    handle,     \* the manifest file it opened is the one that has the name
    prune,      \* what the pruning process is doing
    keep,       \* the contents the manifests referenced when it read them
    doomed,     \* the blobs it has still to remove
    lookups, upkeep

worker == <<pc, fp, left, got, handle>>
pruner == <<prune, keep, doomed>>
vars == <<pruneAlone, blobs, manifest, worker, pruner, lookups, upkeep>>

TypeOK ==
    /\ pruneAlone \in BOOLEAN
    /\ blobs \subseteq Content
    /\ manifest \in [Fingerprint -> {"absent", "empty", "torn", "whole"}]
    /\ pc \in [Worker -> {"idle", "lookup", "read", "materialize", "build", "put", "write", "raised"}]
    /\ fp \in [Worker -> Fingerprint \cup {None}]
    /\ \A w \in Worker : fp[w] # None => left[w] \cup got[w] \subseteq Outputs[fp[w]]
    /\ handle \in [Worker -> BOOLEAN]
    /\ prune \in {"idle", "read", "remove", "raised"}
    /\ keep \subseteq Content /\ doomed \subseteq Content
    /\ lookups \in 0..MaxLookups /\ upkeep \in 0..MaxUpkeep

Idle(w) == pc[w] \in {"idle", "raised"}
Quiet == \A w \in Worker : Idle(w)
-----------------------------------------------------------------------------
Init ==
    /\ pruneAlone \in BOOLEAN
    /\ blobs = {} /\ manifest = [f \in Fingerprint |-> "absent"]
    /\ pc = [w \in Worker |-> "idle"] /\ fp = [w \in Worker |-> None]
    /\ left = [w \in Worker |-> {}] /\ got = [w \in Worker |-> {}]
    /\ handle = [w \in Worker |-> FALSE]
    /\ prune = "idle" /\ keep = {} /\ doomed = {}
    /\ lookups = 0 /\ upkeep = 0

Go(w, where) == pc' = [pc EXCEPT ![w] = where]

\* A job comes to its cache lookup; two jobs of a batch may have one fingerprint.
Begin(w) ==
    /\ Idle(w) /\ lookups < MaxLookups
    /\ ~pruneAlone \/ prune \notin {"read", "remove"}
    /\ lookups' = lookups + 1
    /\ \E f \in Fingerprint : fp' = [fp EXCEPT ![w] = f]
    /\ left' = [left EXCEPT ![w] = {}] /\ got' = [got EXCEPT ![w] = {}]
    /\ Go(w, "lookup")
    /\ UNCHANGED <<blobs, manifest, handle, pruner, upkeep>>

\* lookup, first half: is there a manifest?
Lookup(w) ==
    /\ pc[w] = "lookup"
    /\ Go(w, IF manifest[fp[w]] = "absent" THEN "build" ELSE "read")
    /\ UNCHANGED <<blobs, manifest, fp, left, got, handle, pruner, lookups, upkeep>>

\* Second half: parse it, and look for every blob it names.
ReadManifestOnly(w) ==
    /\ pc[w] = "read" /\ manifest[fp[w]] = "whole"
    /\ Go(w, "materialize")
    /\ left' = [left EXCEPT ![w] = Outputs[fp[w]] \cap blobs]
    /\ UNCHANGED <<blobs, manifest, fp, got, handle, pruner, lookups, upkeep>>

ReadManifest(w) ==
    /\ pc[w] = "read" /\ manifest[fp[w]] = "whole"
    /\ IF Outputs[fp[w]] \subseteq blobs
       THEN Go(w, "materialize") /\ left' = [left EXCEPT ![w] = Outputs[fp[w]]]
       ELSE Go(w, "build") /\ UNCHANGED left
    /\ UNCHANGED <<blobs, manifest, fp, got, handle, pruner, lookups, upkeep>>

\* Gone since, or not JSON: an exception out of the attempt and of the run.
ReadRaises(w) ==
    /\ pc[w] = "read" /\ manifest[fp[w]] # "whole"
    /\ Go(w, "raised")
    /\ UNCHANGED <<blobs, manifest, fp, left, got, handle, pruner, lookups, upkeep>>

\* materialize: link one blob after the other; a missing one raises.
Materialize(w) ==
    /\ pc[w] = "materialize" /\ left[w] # {}
    /\ \E c \in left[w] :
          IF c \in blobs
          THEN /\ got' = [got EXCEPT ![w] = @ \cup {c}]
               /\ left' = [left EXCEPT ![w] = @ \ {c}]
               /\ UNCHANGED pc
          ELSE Go(w, "raised") /\ UNCHANGED <<left, got>>
    /\ UNCHANGED <<blobs, manifest, fp, handle, pruner, lookups, upkeep>>

Hit(w) ==
    /\ pc[w] = "materialize" /\ left[w] = {}
    /\ Go(w, "idle")
    /\ UNCHANGED <<blobs, manifest, fp, left, got, handle, pruner, lookups, upkeep>>

\* The tool runs; a build that fails publishes nothing.
Build(w) ==
    /\ pc[w] = "build"
    /\ \/ Go(w, "put") /\ left' = [left EXCEPT ![w] = Outputs[fp[w]]]
       \/ Go(w, "raised") /\ UNCHANGED left
    /\ UNCHANGED <<blobs, manifest, fp, got, handle, pruner, lookups, upkeep>>

\* publish, a file: there already, renamed into place, or, after five refused
\* renames, not there, which its stat() then says.
PutUnchecked(w) ==
    /\ pc[w] = "put" /\ left[w] # {}
    /\ \E c \in left[w] :
          /\ blobs' \in {blobs, blobs \cup {c}}
          /\ left' = [left EXCEPT ![w] = @ \ {c}]
    /\ UNCHANGED <<manifest, pc, fp, got, handle, pruner, lookups, upkeep>>

Put(w) ==
    /\ pc[w] = "put" /\ left[w] # {}
    /\ \E c \in left[w] :
          \/ /\ blobs' = blobs \cup {c}
             /\ left' = [left EXCEPT ![w] = @ \ {c}]
             /\ UNCHANGED pc
          \/ /\ c \notin blobs
             /\ Go(w, "raised")
             /\ UNCHANGED <<blobs, left>>
    /\ UNCHANGED <<manifest, fp, got, handle, pruner, lookups, upkeep>>

OpenManifest(w) ==
    /\ pc[w] = "put" /\ left[w] = {}
    /\ manifest' = [manifest EXCEPT ![fp[w]] = "empty"]
    /\ handle' = [handle EXCEPT ![w] = TRUE]
    /\ Go(w, "write")
    /\ UNCHANGED <<blobs, fp, left, got, pruner, lookups, upkeep>>

\* Filled, as far as a reader can tell, at once.  Over what another writer has put there
\* since, the longer text may stick out.
WriteManifest(w) ==
    /\ pc[w] = "write"
    /\ IF ~handle[w] THEN UNCHANGED manifest
       ELSE \E how \in {"whole", "torn"} :
               /\ how = "torn" => manifest[fp[w]] # "empty"
               /\ manifest' = [manifest EXCEPT ![fp[w]] = how]
    /\ Go(w, "idle")
    /\ UNCHANGED <<blobs, fp, left, got, handle, pruner, lookups, upkeep>>

\* The run is killed: its jobs are gone, the disk is as they left it.
Crash ==
    /\ ~Quiet
    /\ pc' = [w \in Worker |-> "idle"]
    /\ fp' = [w \in Worker |-> None]
    /\ UNCHANGED <<blobs, manifest, left, got, handle, pruner, lookups, upkeep>>

Forget(f) ==
    /\ upkeep < MaxUpkeep /\ upkeep' = upkeep + 1
    /\ manifest[f] # "absent"
    /\ manifest' = [manifest EXCEPT ![f] = "absent"]
    /\ handle' = [w \in Worker |-> handle[w] /\ fp[w] # f]
    /\ UNCHANGED <<blobs, pc, fp, left, got, pruner, lookups>>

\* prune reads every manifest; one that does not parse ends it before it removes anything.
Referenced == UNION {Outputs[f] : f \in {f \in Fingerprint : manifest[f] = "whole"}}

PruneReadNoNames ==
    /\ prune \in {"idle", "raised"} /\ upkeep < MaxUpkeep
    /\ ~pruneAlone \/ Quiet
    /\ upkeep' = upkeep + 1
    /\ prune' = "read" /\ keep' = {}
    /\ UNCHANGED <<blobs, manifest, worker, doomed, lookups>>

PruneRead ==
    /\ prune \in {"idle", "raised"} /\ upkeep < MaxUpkeep
    /\ ~pruneAlone \/ Quiet
    /\ upkeep' = upkeep + 1
    /\ IF \E f \in Fingerprint : manifest[f] \in {"empty", "torn"}
       THEN prune' = "raised" /\ UNCHANGED keep
       ELSE prune' = "read" /\ keep' = Referenced
    /\ UNCHANGED <<blobs, manifest, worker, doomed, lookups>>

PruneList ==
    /\ prune = "read"
    /\ doomed' = blobs \ keep
    /\ prune' = "remove"
    /\ UNCHANGED <<blobs, manifest, worker, keep, lookups, upkeep>>

PruneRemove ==
    /\ prune = "remove"
    /\ IF doomed = {}
       THEN prune' = "idle" /\ UNCHANGED <<blobs, doomed>>
       ELSE \E c \in doomed : /\ blobs' = blobs \ {c}
                              /\ doomed' = doomed \ {c}
                              /\ UNCHANGED prune
    /\ UNCHANGED <<manifest, worker, keep, lookups, upkeep>>

JobStep(w) ==
    \/ Begin(w) \/ Lookup(w) \/ ReadManifest(w) \/ ReadRaises(w) \/ Materialize(w) \/ Hit(w)
    \/ Build(w) \/ Put(w) \/ OpenManifest(w) \/ WriteManifest(w)

Next ==
    /\ \/ \E w \in Worker : JobStep(w)
       \/ Crash
       \/ \E f \in Fingerprint : Forget(f)
       \/ PruneRead \/ PruneList \/ PruneRemove
    /\ UNCHANGED pruneAlone

Spec == Init /\ [][Next]_vars
-----------------------------------------------------------------------------
\* A hit hands over all the outputs of its fingerprint, whoever else writes, forgets,
\* prunes or is killed meanwhile: it may raise, it never comes up short.
HitIsWhole ==
    [][\A w \in Worker : (pc[w] = "materialize" /\ pc'[w] = "idle" /\ fp'[w] # None)
            => got[w] = Outputs[fp[w]]]_vars

\* Every blob a manifest names is there: a manifest comes last, prune takes only what no
\* manifest names, a refused rename never goes unnoticed.
ManifestHasBlobs ==
    pruneAlone => \A f \in Fingerprint : manifest[f] = "whole" => Outputs[f] \subseteq blobs

\* Prune removes only blobs that no manifest references.
PruneTakesUnreferenced ==
    [][pruneAlone => (blobs \ blobs') \cap Referenced = {}]_vars

=============================================================================
