------------------------- MODULE ContentCacheProofs -------------------------
(***************************************************************************)
(* Theorems about ContentCache, for every set of fingerprints, contents    *)
(* and workers.                                                            *)
(*                                                                         *)
(* Two invariants, each inductive.  HitInv holds whatever runs beside      *)
(* whatever: what a worker has linked and what it has still to link make   *)
(* up the entry it read.  AloneInv is for a prune that has the cache to    *)
(* itself: it says which blobs a writer has already put there for the      *)
(* manifest it is about to write, and which ones a prune under way must    *)
(* leave alone.                                                            *)
(***************************************************************************)
EXTENDS ContentCache, TLAPS

PlaceInv ==
    /\ pc \in [Worker -> {"idle", "lookup", "read", "materialize", "build", "put", "write", "raised"}]
    /\ fp \in [Worker -> Fingerprint \cup {None}]
    /\ \A w \in Worker : ~Idle(w) => fp[w] \in Fingerprint
    /\ left \in [Worker -> SUBSET Content]
    /\ got \in [Worker -> SUBSET Content]

HitInv ==
    /\ PlaceInv
    /\ \A w \in Worker : pc[w] \in {"lookup", "read", "build"} => got[w] = {}
    /\ \A w \in Worker : pc[w] = "materialize" => left[w] \cup got[w] = Outputs[fp[w]]

LEMMA HitInductive == HitInv /\ [Next]_vars => HitInv'
<1> SUFFICES ASSUME HitInv, [Next]_vars PROVE HitInv'
    OBVIOUS
<1> USE OutputsAssumption DEF HitInv, PlaceInv, Idle
<1>1. ASSUME NEW w \in Worker, Begin(w) PROVE HitInv'
    BY <1>1 DEF Begin, Go
<1>2. ASSUME NEW w \in Worker, Lookup(w) PROVE HitInv'
    BY <1>2 DEF Lookup, Go
<1>3. ASSUME NEW w \in Worker, ReadManifest(w) PROVE HitInv'
    BY <1>3 DEF ReadManifest, Go
<1>4. ASSUME NEW w \in Worker, ReadRaises(w) PROVE HitInv'
    BY <1>4 DEF ReadRaises, Go
<1>5. ASSUME NEW w \in Worker, Materialize(w) PROVE HitInv'
    BY <1>5 DEF Materialize, Go
<1>6. ASSUME NEW w \in Worker, Hit(w) PROVE HitInv'
    BY <1>6 DEF Hit, Go
<1>7. ASSUME NEW w \in Worker, Build(w) PROVE HitInv'
    BY <1>7 DEF Build, Go
<1>8. ASSUME NEW w \in Worker, Put(w) PROVE HitInv'
    BY <1>8 DEF Put, Go
<1>9. ASSUME NEW w \in Worker, OpenManifest(w) PROVE HitInv'
    BY <1>9 DEF OpenManifest, Go
<1>10. ASSUME NEW w \in Worker, WriteManifest(w) PROVE HitInv'
    BY <1>10 DEF WriteManifest, Go
<1>11. CASE Crash
    BY <1>11 DEF Crash
<1>12. ASSUME NEW f \in Fingerprint, Forget(f) PROVE HitInv'
    BY <1>12 DEF Forget
<1>13. CASE PruneRead \/ PruneList \/ PruneRemove \/ UNCHANGED vars
    BY <1>13 DEF PruneRead, PruneList, PruneRemove, worker, vars
<1>14. QED
    BY <1>1, <1>2, <1>3, <1>4, <1>5, <1>6, <1>7, <1>8, <1>9, <1>10, <1>11, <1>12, <1>13
    DEF Next, JobStep

LEMMA HitInitially == Init => HitInv
    BY DEF Init, HitInv, PlaceInv, Idle

\* The step by which a worker ends its hit is Hit, with nothing left to link.
LEMMA HitStep ==
    ASSUME HitInv, [Next]_vars, NEW w \in Worker,
           pc[w] = "materialize", pc'[w] = "idle", fp'[w] # None
    PROVE  got[w] = Outputs[fp[w]]
<1> USE DEF HitInv, PlaceInv, Idle, Go
<1>1. CASE Crash
    BY <1>1 DEF Crash
<1>2. ASSUME NEW v \in Worker, JobStep(v) PROVE got[w] = Outputs[fp[w]]
    BY <1>2 DEF JobStep, Begin, Lookup, ReadManifest, ReadRaises, Materialize, Hit, Build, Put,
        OpenManifest, WriteManifest
<1>3. CASE (\E f \in Fingerprint : Forget(f)) \/ PruneRead \/ PruneList \/ PruneRemove \/ UNCHANGED vars
    BY <1>3 DEF Forget, PruneRead, PruneList, PruneRemove, worker, vars
<1>4. QED
    BY <1>1, <1>2, <1>3 DEF Next

\* A hit hands over every output of its fingerprint, with any number of jobs, forgets,
\* kills and prunes beside it (materialize, cache.py).
THEOREM HitsAreWhole == Spec => HitIsWhole
<1>1. HitInv /\ [Next]_vars =>
          [\A w \in Worker : (pc[w] = "materialize" /\ pc'[w] = "idle" /\ fp'[w] # None)
               => got[w] = Outputs[fp[w]]]_vars
    BY HitStep
<1>2. QED
    BY <1>1, HitInitially, HitInductive, PTL DEF Spec, HitIsWhole
-----------------------------------------------------------------------------
DiskType ==
    /\ manifest \in [Fingerprint -> {"absent", "empty", "torn", "whole"}]
    /\ blobs \subseteq Content

WriterInv ==
    \A w \in Worker : /\ pc[w] = "put" => Outputs[fp[w]] \ left[w] \subseteq blobs
                      /\ pc[w] = "write" => Outputs[fp[w]] \subseteq blobs

PruneInv ==
    /\ prune \in {"read", "remove"} => Quiet
    /\ prune = "read" => Referenced \subseteq keep
    /\ prune = "remove" => doomed \cap Referenced = {}

AloneInv == pruneAlone /\ PlaceInv /\ DiskType /\ ManifestHasBlobs /\ WriterInv /\ PruneInv

LEMMA AloneInitially == Init /\ pruneAlone => AloneInv
    BY DEF Init, AloneInv, DiskType, WriterInv, PruneInv, PlaceInv, Idle, ManifestHasBlobs

LEMMA PlaceInductive == PlaceInv /\ [Next]_vars => PlaceInv'
<1> SUFFICES ASSUME PlaceInv, [Next]_vars PROVE PlaceInv'
    OBVIOUS
<1> USE OutputsAssumption DEF PlaceInv, Idle, Go
<1>1. ASSUME NEW w \in Worker, JobStep(w) PROVE PlaceInv'
    <2>1. CASE Begin(w)
        BY <2>1 DEF Begin
    <2>2. CASE Lookup(w) \/ ReadManifest(w) \/ ReadRaises(w)
        BY <2>2 DEF Lookup, ReadManifest, ReadRaises
    <2>3. CASE Materialize(w) \/ Hit(w)
        BY <2>3 DEF Materialize, Hit
    <2>4. CASE Build(w) \/ Put(w) \/ OpenManifest(w) \/ WriteManifest(w)
        BY <2>4 DEF Build, Put, OpenManifest, WriteManifest
    <2>5. QED
        BY <1>1, <2>1, <2>2, <2>3, <2>4 DEF JobStep
<1>2. CASE Crash
    BY <1>2 DEF Crash
<1>3. CASE (\E f \in Fingerprint : Forget(f)) \/ PruneRead \/ PruneList \/ PruneRemove \/ UNCHANGED vars
    BY <1>3 DEF Forget, PruneRead, PruneList, PruneRemove, worker, vars
<1>4. QED
    BY <1>1, <1>2, <1>3 DEF Next

\* No worker moves while prune reads or removes, and none but prune moves prune.
LEMMA WorkersWait ==
    ASSUME pruneAlone, PruneInv, NEW w \in Worker, JobStep(w)
    PROVE  prune \notin {"read", "remove"} /\ prune' = prune
    BY DEF PruneInv, Quiet, Idle, JobStep, Begin, Lookup, ReadManifest, ReadRaises, Materialize, Hit,
       Build, Put, OpenManifest, WriteManifest, pruner

LEMMA JobStepDisk ==
    ASSUME AloneInv, PlaceInv', NEW w \in Worker, JobStep(w), UNCHANGED pruneAlone
    PROVE  AloneInv'
<1>1. PruneInv'
    BY WorkersWait DEF AloneInv, PruneInv
<1> USE OutputsAssumption DEF AloneInv, PlaceInv, DiskType, ManifestHasBlobs, WriterInv, Idle, Go
<1>2. CASE Begin(w)
    BY <1>1, <1>2 DEF Begin
<1>3. CASE Lookup(w) \/ ReadManifest(w) \/ ReadRaises(w)
    BY <1>1, <1>3 DEF Lookup, ReadManifest, ReadRaises
<1>4. CASE Materialize(w) \/ Hit(w)
    BY <1>1, <1>4 DEF Materialize, Hit
<1>5. CASE Build(w)
    BY <1>1, <1>5 DEF Build
<1>6. CASE Put(w)
    <2>1. DiskType' /\ ManifestHasBlobs'
        BY <1>6 DEF Put
    <2>2. blobs \subseteq blobs'
        BY <1>6 DEF Put
    <2>3. ASSUME NEW v \in Worker, pc'[v] = "write" PROVE Outputs[fp'[v]] \subseteq blobs'
        BY <1>6, <2>2, <2>3 DEF Put
    <2>4. ASSUME NEW v \in Worker, pc'[v] = "put" PROVE Outputs[fp'[v]] \ left'[v] \subseteq blobs'
        BY <1>6, <2>2, <2>4 DEF Put
    <2>5. QED
        BY <1>1, <2>1, <2>3, <2>4
<1>7. CASE OpenManifest(w)
    BY <1>1, <1>7 DEF OpenManifest
<1>8. CASE WriteManifest(w)
    BY <1>1, <1>8 DEF WriteManifest
<1>9. QED
    BY <1>2, <1>3, <1>4, <1>5, <1>6, <1>7, <1>8 DEF JobStep

\* While prune has the cache to itself, the manifests it read can only become fewer.
LEMMA AloneInductive == AloneInv /\ [Next]_vars => AloneInv'
<1> SUFFICES ASSUME AloneInv, [Next]_vars PROVE AloneInv'
    OBVIOUS
<1>0. PlaceInv'
    BY PlaceInductive DEF AloneInv
<1>a. UNCHANGED pruneAlone
    BY DEF Next, vars
<1>1. ASSUME NEW w \in Worker, JobStep(w) PROVE AloneInv'
    BY <1>0, <1>a, <1>1, JobStepDisk
<1> USE <1>a
<1> USE DEF AloneInv, DiskType, WriterInv, Quiet, Idle
<1>2. CASE Crash
    BY <1>0, <1>2 DEF Crash, ManifestHasBlobs, PruneInv, Referenced, pruner
<1>3. ASSUME NEW f \in Fingerprint, Forget(f) PROVE AloneInv'
    <2>1. DiskType' /\ ManifestHasBlobs' /\ WriterInv'
        BY <1>3 DEF Forget, ManifestHasBlobs
    <2>2. Referenced' \subseteq Referenced
        BY <1>3 DEF Forget, Referenced
    <2>3. prune' = prune /\ keep' = keep /\ doomed' = doomed /\ pc' = pc
        BY <1>3 DEF Forget, pruner
    <2>4. PruneInv'
        BY <2>2, <2>3 DEF PruneInv
    <2>5. QED
        BY <1>0, <2>1, <2>4
<1>4. CASE PruneRead
    <2>1. PruneInv'
        BY <1>4 DEF PruneRead, PruneInv, Referenced, worker
    <2>2. QED
        BY <1>0, <1>4, <2>1 DEF PruneRead, ManifestHasBlobs, worker
<1>5. CASE PruneList
    <2>1. PruneInv'
        BY <1>5 DEF PruneList, PruneInv, Referenced, worker
    <2>2. QED
        BY <1>0, <1>5, <2>1 DEF PruneList, ManifestHasBlobs, worker
<1>6. CASE PruneRemove
    <2>1. Referenced' = Referenced /\ pc' = pc /\ manifest' = manifest /\ fp' = fp /\ left' = left
        BY <1>6 DEF PruneRemove, Referenced, worker
    <2>2. PruneInv'
        BY <1>6, <2>1 DEF PruneRemove, PruneInv
    <2>3. ASSUME NEW c \in doomed, blobs' = blobs \ {c} PROVE ManifestHasBlobs'
        <3>1. c \notin Referenced
            BY <1>6 DEF PruneRemove, PruneInv
        <3>2. QED
            BY <2>1, <2>3, <3>1 DEF ManifestHasBlobs, Referenced
    <2>4. ManifestHasBlobs' /\ DiskType'
        BY <1>6, <2>1, <2>3 DEF PruneRemove, ManifestHasBlobs
    <2>5. WriterInv'
        BY <1>6, <2>1 DEF PruneRemove, PruneInv
    <2>6. QED
        BY <1>0, <2>2, <2>4, <2>5
<1>7. CASE UNCHANGED vars
    BY <1>0, <1>7 DEF vars, worker, pruner, ManifestHasBlobs, PruneInv, Referenced
<1>8. QED
    BY <1>1, <1>2, <1>3, <1>4, <1>5, <1>6, <1>7 DEF Next

DiskInv == pruneAlone => AloneInv

LEMMA DiskInductive == DiskInv /\ [Next]_vars => DiskInv'
    BY AloneInductive DEF DiskInv, Next, vars

\* If prune never runs beside a run, every blob a manifest names is on disk (publish
\* writes the manifest last, prune keeps what it names; cache.py).
THEOREM ManifestsKeepTheirBlobs == Spec => []ManifestHasBlobs
<1>1. DiskInv => ManifestHasBlobs
    BY DEF DiskInv, AloneInv, ManifestHasBlobs
<1>2. Init => DiskInv
    BY AloneInitially DEF DiskInv
<1>3. QED
    BY <1>1, <1>2, DiskInductive, PTL DEF Spec

LEMMA PruneStep ==
    ASSUME AloneInv, [Next]_vars
    PROVE  (blobs \ blobs') \cap Referenced = {}
<1>1. CASE PruneRemove
    BY <1>1 DEF PruneRemove, AloneInv, PruneInv
<1>2. CASE UNCHANGED blobs
    BY <1>2
<1>3. ASSUME NEW w \in Worker, Put(w) PROVE (blobs \ blobs') \cap Referenced = {}
    BY <1>3 DEF Put
<1>4. QED
    BY <1>1, <1>2, <1>3 DEF Next, JobStep, Begin, Lookup, ReadManifest, ReadRaises, Materialize, Hit,
       Build, OpenManifest, WriteManifest, Crash, Forget, PruneRead, PruneList, vars

\* And prune then removes nothing that a manifest references (prune, cache.py).
THEOREM PruneIsSafeAlone == Spec => PruneTakesUnreferenced
<1>1. DiskInv /\ [Next]_vars => [pruneAlone => (blobs \ blobs') \cap Referenced = {}]_vars
    BY PruneStep DEF DiskInv
<1>2. Init => DiskInv
    BY AloneInitially DEF DiskInv
<1>3. QED
    BY <1>1, <1>2, DiskInductive, PTL DEF Spec, PruneTakesUnreferenced
-----------------------------------------------------------------------------
\* Whatever runs beside whatever, a worker holds only outputs of its own fingerprint.
HoldsItsOwn == \A w \in Worker : fp[w] # None => left[w] \cup got[w] \subseteq Outputs[fp[w]]

CacheType == PlaceInv /\ TypeOK

LEMMA TypeInductive == CacheType /\ [Next]_vars => CacheType'
<1> SUFFICES ASSUME CacheType, [Next]_vars PROVE CacheType'
    OBVIOUS
<1>1. PlaceInv'
    BY PlaceInductive DEF CacheType
<1>2. /\ lookups \in 0..MaxLookups /\ upkeep \in 0..MaxUpkeep
      /\ PlaceInv /\ TypeOK /\ HoldsItsOwn
    BY DEF CacheType, TypeOK, HoldsItsOwn
<1>3. lookups' \in 0..MaxLookups /\ upkeep' \in 0..MaxUpkeep /\ pruneAlone' \in BOOLEAN
    BY <1>2, OutputsAssumption
    DEF TypeOK, Next, JobStep, Begin, Lookup, ReadManifest, ReadRaises, Materialize, Hit, Build, Put,
        OpenManifest, WriteManifest, Crash, Forget, PruneRead, PruneList, PruneRemove, vars
<1>4. HoldsItsOwn'
    <2> USE <1>2, OutputsAssumption DEF HoldsItsOwn, PlaceInv, Idle, Go
    <2>1. ASSUME NEW w \in Worker, Begin(w) \/ Lookup(w) \/ ReadManifest(w) \/ ReadRaises(w) PROVE HoldsItsOwn'
        BY <2>1 DEF Begin, Lookup, ReadManifest, ReadRaises
    <2>2. ASSUME NEW w \in Worker, Materialize(w) \/ Hit(w) PROVE HoldsItsOwn'
        BY <2>2 DEF Materialize, Hit
    <2>3. ASSUME NEW w \in Worker, Build(w) \/ Put(w) \/ OpenManifest(w) \/ WriteManifest(w) PROVE HoldsItsOwn'
        BY <2>3 DEF Build, Put, OpenManifest, WriteManifest
    <2>4. CASE Crash
        BY <2>4 DEF Crash
    <2>5. CASE (\E f \in Fingerprint : Forget(f)) \/ PruneRead \/ PruneList \/ PruneRemove \/ UNCHANGED vars
        BY <2>5 DEF Forget, PruneRead, PruneList, PruneRemove, worker, vars
    <2>6. QED
        BY <2>1, <2>2, <2>3, <2>4, <2>5 DEF Next, JobStep
<1>5. /\ blobs' \subseteq Content /\ keep' \subseteq Content /\ doomed' \subseteq Content
      /\ prune' \in {"idle", "read", "remove", "raised"}
    <2> USE <1>2, OutputsAssumption DEF TypeOK
    <2>1. ASSUME NEW w \in Worker, Put(w) PROVE blobs' \subseteq Content
        BY <2>1 DEF Put, PlaceInv
    <2>2. Referenced \subseteq Content
        BY DEF Referenced
    <2>3. ASSUME NEW w \in Worker, JobStep(w), ~Put(w) PROVE UNCHANGED blobs
        BY <2>3 DEF JobStep, Begin, Lookup, ReadManifest, ReadRaises, Materialize, Hit, Build,
            OpenManifest, WriteManifest
    <2>4. ASSUME NEW w \in Worker, JobStep(w) PROVE UNCHANGED pruner
        BY <2>4 DEF JobStep, Begin, Lookup, ReadManifest, ReadRaises, Materialize, Hit, Build, Put,
            OpenManifest, WriteManifest
    <2>5. CASE PruneRead \/ PruneList \/ PruneRemove
        BY <2>2, <2>5 DEF PruneRead, PruneList, PruneRemove
    <2>6. CASE Crash \/ (\E f \in Fingerprint : Forget(f)) \/ UNCHANGED vars
        BY <2>6 DEF Crash, Forget, vars, pruner
    <2>7. QED
        BY <2>1, <2>3, <2>4, <2>5, <2>6 DEF Next, pruner
<1>6. /\ manifest' \in [Fingerprint -> {"absent", "empty", "torn", "whole"}]
      /\ handle' \in [Worker -> BOOLEAN]
    <2> USE <1>2 DEF TypeOK, PlaceInv
    <2>1. ASSUME NEW w \in Worker, OpenManifest(w) \/ WriteManifest(w)
          PROVE  /\ manifest' \in [Fingerprint -> {"absent", "empty", "torn", "whole"}]
                 /\ handle' \in [Worker -> BOOLEAN]
        BY <2>1 DEF OpenManifest, WriteManifest, Idle
    <2>2. ASSUME NEW f \in Fingerprint, Forget(f)
          PROVE  /\ manifest' \in [Fingerprint -> {"absent", "empty", "torn", "whole"}]
                 /\ handle' \in [Worker -> BOOLEAN]
        BY <2>2 DEF Forget
    <2>3. CASE UNCHANGED <<manifest, handle>>
        BY <2>3
    <2>4. ASSUME NEW w \in Worker, JobStep(w), ~OpenManifest(w), ~WriteManifest(w)
          PROVE  UNCHANGED <<manifest, handle>>
        BY <2>4 DEF JobStep, Begin, Lookup, ReadManifest, ReadRaises, Materialize, Hit, Build, Put
    <2>5. CASE Crash \/ PruneRead \/ PruneList \/ PruneRemove \/ UNCHANGED vars
        BY <2>5 DEF Crash, PruneRead, PruneList, PruneRemove, worker, vars
    <2>6. QED
        BY <2>1, <2>2, <2>3, <2>4, <2>5 DEF Next
<1>7. QED
    BY <1>1, <1>3, <1>4, <1>5, <1>6 DEF CacheType, TypeOK, HoldsItsOwn, PlaceInv

\* The state keeps its shape, and what a worker has linked and has still to link are
\* outputs of the fingerprint it is at (materialize, publish; cache.py).
THEOREM CacheKeepsType == Spec => []TypeOK
<1>1. CacheType => TypeOK
    BY DEF CacheType
<1>2. Init => CacheType
    BY OutputsAssumption DEF Init, CacheType, PlaceInv, TypeOK, Idle
<1>3. QED
    BY <1>1, <1>2, TypeInductive, PTL DEF Spec
==============================================================================
