------------------------------ MODULE JobProofs ------------------------------
(***************************************************************************)
(* One job, any number of files, commands, runs, retries, edits and kills: *)
(* what stands in out/ and in the cache is what the fingerprint says       *)
(* (JobAttempt).  Its commands, for any plan, any width and any process    *)
(* group: what one run_command says of its command (CommandRunner), and    *)
(* what the generator that runs them side by side hands over and leaves    *)
(* behind (JobCommands).                                                   *)
(***************************************************************************)
EXTENDS JobAttempt, JobCommands, CommandRunner, TLAPS, WellFoundedInduction

-----------------------------------------------------------------------------
(* The inductive invariant.                                                *)

Building == {"preflight", "lookup", "run", "contract", "cache"}
Publishing == {"publish", "prune", "finish"}

\* The fingerprint is taken, and is that of the inputs unless they were edited since.
FingerprintInv ==
    pc \notin {"idle", "preflight"} => fp \in Fingerprint /\ (input = fp \/ fp \in tainted)

\* A directory with nothing in it but what commands on inputs f write.
PartOf(d, f) == \A x \in File : d[x] = None \/ (d[x] = f /\ x \in Writes(f))

\* The work directory: empty before the commands, only of the fingerprint while they run,
\* a build of it once the contract held or the cache had it, and then also what is cached.
WorkInv ==
    /\ pc \in {"preflight", "lookup"} => work = EmptyDir
    /\ pc \in {"run", "contract"} /\ fp \notin tainted => PartOf(work, fp)
    /\ pc \in {"cache"} \cup Publishing /\ fp \notin tainted => work \in Builds(fp)
    /\ pc \in Publishing => cache[fp] = work

\* out/ is left alone until the outputs are whole; then what has been linked is theirs.
StableInv ==
    /\ pc \in Building => stable = before
    /\ pc = "cache" => todo = Present(work)
    /\ pc = "publish" => \A x \in Present(work) \ todo : stable[x] = work[x]
    /\ pc = "prune" => \A x \in Present(work) : stable[x] = work[x]
    /\ pc = "finish" => stable = work

\* A replay is known as one until it ends, and nothing else is.
HitInv ==
    /\ pc \in Building => ~hit
    /\ pc \in Publishing /\ hit => status = "SKIPPED_CACHE_HIT"

AttemptInv ==
    /\ TypeOK
    /\ FingerprintInv /\ WorkInv /\ StableInv /\ HitInv
    /\ SuccessIsExact /\ FailureLeavesOut /\ ReplayGradesAsBuilt /\ CacheHonest

-----------------------------------------------------------------------------
(* Directories.                                                            *)

LEMMA BuildsAre ==
    ASSUME NEW f \in Fingerprint, NEW d \in Dir
    PROVE  d \in Builds(f) <=> PartOf(d, f) /\ Declares(f) \subseteq Present(d)
BY PlanAssumption DEF Builds, PartOf, Present, Dir

LEMMA EmptyDirType == EmptyDir \in Dir /\ Present(EmptyDir) = {}
BY DEF EmptyDir, Dir, Present

LEMMA InitInv == Init => AttemptInv
<1> SUFFICES ASSUME Init
             PROVE  AttemptInv
    OBVIOUS
<1>1. TypeOK
  <2>1. cache \in [Fingerprint -> Dir \cup {None}]
    BY DEF Init
  <2>2. runs \in 0..MaxRuns /\ attempt \in 0..(1 + MAX_TRANSIENT_RETRIES)
    BY PlanAssumption DEF Init, MAX_TRANSIENT_RETRIES
  <2>3. QED
    BY <2>1, <2>2, EmptyDirType DEF Init, TypeOK, Statuses
<1>2. QED
    BY <1>1
    DEF Init, AttemptInv, FingerprintInv, WorkInv, StableInv, HitInv, Building, Publishing,
       SuccessIsExact, FailureLeavesOut, ReplayGradesAsBuilt, CacheHonest, Ended

-----------------------------------------------------------------------------
(* The steps.                                                              *)

LEMMA BeginKeeps ==
    ASSUME AttemptInv, UNCHANGED job_spec, Begin
    PROVE  AttemptInv'
<1>1. TypeOK'
  <2>1. runs' \in 0..MaxRuns /\ attempt' \in 0..(1 + MAX_TRANSIENT_RETRIES)
    BY PlanAssumption DEF Begin, AttemptInv, TypeOK, MAX_TRANSIENT_RETRIES
  <2>2. QED
    BY <2>1, EmptyDirType DEF Begin, AttemptInv, TypeOK, Statuses, Failures
<1>2. QED
    BY <1>1
    DEF Begin, AttemptInv, TypeOK, FingerprintInv, WorkInv, StableInv, HitInv, Building, Publishing,
       SuccessIsExact, FailureLeavesOut, ReplayGradesAsBuilt, CacheHonest, Ended

\* An attempt that fails before it has outputs has left out/ as it found it.
LEMMA FailKeeps ==
    ASSUME AttemptInv, NEW class \in Failures \ {"validation_blocker"}, pc \in Building, Fail(class),
           UNCHANGED <<job_spec, input, runs, attempt, fp, hit, cmd, cancel, todo, work, stable,
                       cache, before, tainted>>
    PROVE  AttemptInv'
<1>1. status' \in {"CANCELLED", "FAILED"}
    BY DEF Fail, Failures
<1>2. TypeOK'
    BY <1>1 DEF Fail, AttemptInv, TypeOK, MAX_TRANSIENT_RETRIES, Statuses, Failures
<1>3. stable' = before'
    BY DEF AttemptInv, StableInv
<1>4. FailureLeavesOut'
    BY <1>3 DEF FailureLeavesOut
<1>5. SuccessIsExact' /\ ReplayGradesAsBuilt'
    BY <1>1 DEF SuccessIsExact, ReplayGradesAsBuilt, Ended
<1>6. CacheHonest'
    BY DEF AttemptInv, CacheHonest, Builds, Writes, Declares, Present
<1>7. FingerprintInv' /\ WorkInv' /\ StableInv' /\ HitInv'
    BY DEF Fail, FingerprintInv, WorkInv, StableInv, HitInv, Building, Publishing
<1>8. QED
    BY <1>2, <1>4, <1>5, <1>6, <1>7 DEF AttemptInv

LEMMA FingerprintedKeeps ==
    ASSUME AttemptInv, UNCHANGED job_spec, Fingerprinted
    PROVE  AttemptInv'
<1>1. TypeOK'
    BY DEF Fingerprinted, disk, AttemptInv, TypeOK, MAX_TRANSIENT_RETRIES, Statuses, Failures
<1>2. QED
    BY <1>1
    DEF Fingerprinted, disk, AttemptInv, TypeOK, FingerprintInv, WorkInv, StableInv, HitInv, Building, Publishing,
       SuccessIsExact, FailureLeavesOut, ReplayGradesAsBuilt, CacheHonest, Ended

LEMMA CacheHitKeeps ==
    ASSUME AttemptInv, UNCHANGED job_spec, CacheHit
    PROVE  AttemptInv'
<1>1. fp \in Fingerprint /\ cache[fp] \in Dir
    BY DEF CacheHit, AttemptInv, TypeOK, FingerprintInv
<1>2. TypeOK'
    BY <1>1 DEF CacheHit, Present, AttemptInv, TypeOK, MAX_TRANSIENT_RETRIES, Statuses, Failures
<1>3. work' = cache[fp] /\ (fp \notin tainted => work' \in Builds(fp))
    BY <1>1 DEF CacheHit, AttemptInv, CacheHonest
<1>4. todo' = Present(work)'
    BY DEF CacheHit, Present
<1>5. WorkInv'
    BY <1>3 DEF CacheHit, WorkInv, Publishing, Builds, Present, Declares, Writes
<1>6. StableInv'
    BY <1>4 DEF CacheHit, StableInv, Building
<1>7. FingerprintInv' /\ HitInv'
    BY DEF CacheHit, AttemptInv, FingerprintInv, HitInv, Building, Publishing
<1>8. CacheHonest'
    BY DEF CacheHit, AttemptInv, CacheHonest, Builds, Writes, Declares, Present
<1>9. QED
    BY <1>2, <1>5, <1>6, <1>7, <1>8
    DEF CacheHit, AttemptInv, SuccessIsExact, FailureLeavesOut, ReplayGradesAsBuilt, Ended

LEMMA CacheMissKeeps ==
    ASSUME AttemptInv, UNCHANGED job_spec, CacheMiss
    PROVE  AttemptInv'
<1>1. pc' \in {"run", "contract"}
    BY DEF CacheMiss, After
<1>2. TypeOK'
    BY <1>1 DEF CacheMiss, AttemptInv, TypeOK, MAX_TRANSIENT_RETRIES, Statuses, Failures
<1>3. \A x \in File : work'[x] = None
    BY DEF CacheMiss, AttemptInv, WorkInv, EmptyDir
<1>4. WorkInv'
    BY <1>1, <1>3 DEF WorkInv, Publishing, PartOf
<1>5. CacheHonest'
    BY DEF CacheMiss, AttemptInv, CacheHonest, Builds, Writes, Declares, Present
<1>6. FingerprintInv' /\ StableInv' /\ HitInv'
    BY <1>1 DEF CacheMiss, AttemptInv, FingerprintInv, StableInv, HitInv, Building, Publishing
<1>7. QED
    BY <1>1, <1>2, <1>4, <1>5, <1>6
    DEF AttemptInv, SuccessIsExact, FailureLeavesOut, ReplayGradesAsBuilt, Ended

\* A command adds files it writes, of the inputs the fingerprint was taken of, and no other.
LEMMA CommandOverKeeps ==
    ASSUME AttemptInv, pc = "run", cmd \in DOMAIN Plan[fp], CommandOver, attempt' = attempt,
           UNCHANGED <<job_spec, input, runs, status, fp, hit, failure, cancel, todo, stable, cache,
                       index, before, tainted>>
    PROVE  AttemptInv'
<1>1. pc' \in {"run", "contract"} /\ cmd' = cmd + 1
    BY DEF CommandOver, After
<1>2. fp \in Fingerprint /\ (input = fp \/ fp \in tainted)
    BY DEF AttemptInv, FingerprintInv
<1>3. PICK got \in SUBSET Plan[fp][cmd].writes : work' = Written(got)
    BY DEF CommandOver
<1>4. work' \in Dir
    BY <1>3 DEF Written, Dir, AttemptInv, TypeOK
<1>5. TypeOK'
    BY <1>1, <1>4 DEF AttemptInv, TypeOK, MAX_TRANSIENT_RETRIES, Statuses, Failures
<1>6. ASSUME fp \notin tainted
      PROVE  PartOf(work', fp)
  <2>1. ASSUME NEW x \in File PROVE work'[x] = None \/ (work'[x] = fp /\ x \in Writes(fp))
    <3>1. CASE x \in got
        BY <1>2, <1>3, <1>6, <3>1 DEF Written, Writes
    <3>2. CASE x \notin got
        BY <1>3, <1>6, <3>2 DEF Written, AttemptInv, WorkInv, PartOf
    <3>3. QED
        BY <3>1, <3>2
  <2>2. QED
    BY <2>1 DEF PartOf
<1>7. WorkInv'
    BY <1>1, <1>6 DEF WorkInv, Publishing, PartOf, Writes
<1>8. CacheHonest'
    BY DEF AttemptInv, CacheHonest, Builds, Writes, Declares, Present
<1>9. FingerprintInv' /\ StableInv' /\ HitInv'
    BY <1>1 DEF AttemptInv, FingerprintInv, StableInv, HitInv, Building, Publishing
<1>10. QED
    BY <1>1, <1>5, <1>7, <1>8, <1>9
    DEF AttemptInv, SuccessIsExact, FailureLeavesOut, ReplayGradesAsBuilt, Ended

LEMMA CommandFailedKeeps ==
    ASSUME AttemptInv, UNCHANGED job_spec, NEW class \in {"tool_exit_failure", "timeout"},
           CommandFailed(class)
    PROVE  AttemptInv'
<1>1. CASE attempt <= MAX_TRANSIENT_RETRIES /\ job_spec.transient_ok
  <2>1. attempt' = attempt + 1 /\ work' = EmptyDir /\ pc' = "preflight" /\ pc = "run"
        /\ UNCHANGED <<status, cmd, failure, index, input, runs, fp, hit, cancel, todo, stable,
                       cache, before, tainted>>
    BY <1>1 DEF CommandFailed
  <2>2. TypeOK'
    BY <1>1, <2>1, EmptyDirType DEF AttemptInv, TypeOK, MAX_TRANSIENT_RETRIES, Statuses, Failures
  <2>3. CacheHonest'
    BY <2>1 DEF AttemptInv, CacheHonest, Builds, Writes, Declares, Present
  <2>4. QED
    BY <2>1, <2>2, <2>3
    DEF AttemptInv, FingerprintInv, WorkInv, StableInv, HitInv, Building, Publishing,
        SuccessIsExact, FailureLeavesOut, ReplayGradesAsBuilt, Ended
<1>2. CASE ~(attempt <= MAX_TRANSIENT_RETRIES /\ job_spec.transient_ok)
  <2>1. CASE class = "timeout" \/ ~job_spec.exit_advisory
    BY <1>2, <2>1, FailKeeps DEF CommandFailed, Building, Failures
  <2>2. CASE ~(class = "timeout" \/ ~job_spec.exit_advisory)
    BY <1>2, <2>2, CommandOverKeeps DEF CommandFailed
  <2>3. QED
    BY <2>1, <2>2
<1>3. QED
    BY <1>1, <1>2

\* No declared output is missing, and there is nothing that is not written by the commands:
\* the work directory is a build.
LEMMA ContractHoldsKeeps ==
    ASSUME AttemptInv, UNCHANGED job_spec, ContractHolds
    PROVE  AttemptInv'
<1>1. pc = "contract" /\ pc' = "cache" /\ Missing = {} /\ todo' = Present(work)
      /\ UNCHANGED <<job_spec, input, runs, attempt, status, fp, hit, cmd, failure, cancel, work, stable,
                     cache, index, before, tainted>>
    BY DEF ContractHolds, disk
<1>2. fp \in Fingerprint
    BY <1>1 DEF AttemptInv, FingerprintInv
<1>3. ASSUME fp \notin tainted
      PROVE  work \in Builds(fp)
  <2>1. PartOf(work, fp) /\ Declares(fp) \subseteq Present(work)
    BY <1>1, <1>3 DEF AttemptInv, WorkInv, Missing
  <2>2. QED
    BY <1>2, <2>1, BuildsAre DEF AttemptInv, TypeOK
<1>4. TypeOK'
    BY <1>1 DEF Present, AttemptInv, TypeOK, MAX_TRANSIENT_RETRIES, Statuses, Failures
<1>5. WorkInv'
    BY <1>1, <1>3 DEF WorkInv, Publishing, Builds, PartOf, Writes, Declares, Present
<1>6. StableInv'
    BY <1>1 DEF AttemptInv, StableInv, Building, Present
<1>7. CacheHonest'
    BY <1>1 DEF AttemptInv, CacheHonest, Builds, Writes, Declares, Present
<1>8. QED
    BY <1>1, <1>4, <1>5, <1>6, <1>7
    DEF AttemptInv, FingerprintInv, HitInv, Building, Publishing,
        SuccessIsExact, FailureLeavesOut, ReplayGradesAsBuilt, Ended

LEMMA CachePublishKeeps ==
    ASSUME AttemptInv, UNCHANGED job_spec, CachePublish
    PROVE  AttemptInv'
<1>1. pc = "cache" /\ pc' = "publish" /\ cache' = [cache EXCEPT ![fp] = work]
      /\ UNCHANGED <<job_spec, input, runs, attempt, status, fp, hit, cmd, failure, cancel, todo, work,
                     stable, index, before, tainted>>
    BY DEF CachePublish, memory
<1>2. fp \in Fingerprint /\ work \in Dir /\ cache \in [Fingerprint -> Dir \cup {None}]
    BY <1>1 DEF AttemptInv, TypeOK, FingerprintInv
<1>3. TypeOK'
    BY <1>1, <1>2 DEF AttemptInv, TypeOK, MAX_TRANSIENT_RETRIES, Statuses, Failures
<1>4. fp \notin tainted => work \in Builds(fp)
    BY <1>1 DEF AttemptInv, WorkInv
<1>5. CacheHonest'
    BY <1>1, <1>2, <1>4 DEF AttemptInv, CacheHonest, Builds, Writes, Declares, Present
<1>6. WorkInv'
    BY <1>1, <1>2, <1>4 DEF WorkInv, Publishing, Builds, PartOf, Writes, Declares, Present
<1>7. StableInv'
    BY <1>1 DEF AttemptInv, StableInv, Building, Present
<1>8. QED
    BY <1>1, <1>3, <1>5, <1>6, <1>7
    DEF AttemptInv, FingerprintInv, HitInv, Building, Publishing,
        SuccessIsExact, FailureLeavesOut, ReplayGradesAsBuilt, Ended

\* out/ gets the outputs one by one, and then loses what is not one.
LEMMA PublishKeeps ==
    ASSUME AttemptInv, UNCHANGED job_spec, PublishFile \/ PublishDone \/ PruneStable
    PROVE  AttemptInv'
<1>1. /\ pc \in Publishing /\ pc' \in Publishing
      /\ UNCHANGED <<job_spec, input, runs, attempt, status, fp, hit, cmd, failure, cancel, work,
                     cache, index, before, tainted>>
    BY DEF PublishFile, PublishDone, PruneStable, memory, disk, Publishing
<1>2. stable' \in Dir /\ todo' \subseteq File
    BY DEF PublishFile, PublishDone, PruneStable, memory, disk, AttemptInv, TypeOK, Dir
<1>3. TypeOK'
    BY <1>1, <1>2 DEF Publishing, AttemptInv, TypeOK, MAX_TRANSIENT_RETRIES, Statuses, Failures
<1>4. CacheHonest'
    BY <1>1 DEF AttemptInv, CacheHonest, Builds, Writes, Declares, Present
<1>5. WorkInv'
    BY <1>1 DEF AttemptInv, WorkInv, Publishing, Builds, PartOf, Writes, Declares, Present
<1>6. StableInv'
  <2>1. CASE PublishFile
    <3>1. PICK y \in todo : stable' = [stable EXCEPT ![y] = work[y]] /\ todo' = todo \ {y}
        BY <2>1 DEF PublishFile
    <3>2. ASSUME NEW x \in Present(work) \ todo'
          PROVE  stable'[x] = work[x]
        BY <2>1, <3>1 DEF PublishFile, AttemptInv, TypeOK, Dir, StableInv, Present
    <3>3. QED
        BY <1>1, <2>1, <3>2 DEF PublishFile, StableInv, Building, Present
  <2>2. CASE PublishDone
    BY <1>1, <2>2 DEF PublishDone, disk, memory, AttemptInv, StableInv, Building, Present
  <2>3. CASE PruneStable
    <3>1. ASSUME NEW x \in File
          PROVE  stable'[x] = work[x]
        BY <2>3 DEF PruneStable, AttemptInv, StableInv, Present
    <3>2. stable' = work'
        BY <1>1, <1>2, <3>1 DEF AttemptInv, TypeOK, Dir
    <3>3. QED
        BY <2>3, <3>2 DEF PruneStable, StableInv, Building
  <2>4. QED
    BY <2>1, <2>2, <2>3
<1>7. QED
    BY <1>1, <1>3, <1>4, <1>5, <1>6
    DEF AttemptInv, FingerprintInv, HitInv, Building, Publishing,
        SuccessIsExact, FailureLeavesOut, ReplayGradesAsBuilt, Ended

\* The verdict is read off the work directory, which by now is out/, what is cached and,
\* unless the inputs were edited under the tool, a build of the fingerprint.
LEMMA FinishKeeps ==
    ASSUME AttemptInv, UNCHANGED job_spec, FinishBlocked \/ FinishOk
    PROVE  AttemptInv'
<1>1. /\ pc = "finish" /\ pc' = "idle" /\ index' = status'
      /\ failure' \in {failure, "validation_blocker"}
      /\ UNCHANGED <<job_spec, input, runs, attempt, fp, hit, cmd, cancel, todo, work, stable, cache,
                     before, tainted>>
    BY DEF FinishBlocked, FinishOk, Fail
<1>2. fp \in Fingerprint /\ stable = work
    BY <1>1 DEF AttemptInv, FingerprintInv, StableInv, Building
<1>3. cache[fp] = work /\ (fp \notin tainted => work \in Builds(fp))
    BY <1>1 DEF AttemptInv, WorkInv, Publishing
<1>4. HasBlocker <=> stable \in Blocking
    BY <1>2 DEF HasBlocker
<1>5. \/ HasBlocker /\ status' = "BLOCKED"
      \/ ~HasBlocker /\ status' \in {"SUCCEEDED", "SKIPPED_CACHE_HIT"}
    BY DEF FinishBlocked, FinishOk, Fail, AttemptInv, HitInv, Publishing
<1>6. TypeOK'
    BY <1>1, <1>5 DEF AttemptInv, TypeOK, MAX_TRANSIENT_RETRIES, Statuses, Failures
<1>7. SuccessIsExact'
    BY <1>1, <1>2, <1>3 DEF SuccessIsExact, Builds, PartOf, Writes, Declares, Present
<1>8. ReplayGradesAsBuilt'
    BY <1>1, <1>4, <1>5 DEF ReplayGradesAsBuilt, Ended
<1>9. FailureLeavesOut'
    BY <1>5 DEF FailureLeavesOut, Ended
<1>10. CacheHonest'
    BY <1>1 DEF AttemptInv, CacheHonest, Builds, Writes, Declares, Present
<1>11. FingerprintInv' /\ WorkInv' /\ StableInv' /\ HitInv'
    BY <1>1 DEF FingerprintInv, WorkInv, StableInv, HitInv, Building, Publishing
<1>12. QED
    BY <1>6, <1>7, <1>8, <1>9, <1>10, <1>11 DEF AttemptInv

\* A kill loses the memory and keeps the disk: there is no verdict to be wrong, and the
\* cache is as honest as it was.
LEMMA CrashKeeps ==
    ASSUME AttemptInv, UNCHANGED job_spec, Crash
    PROVE  AttemptInv'
<1>1. TypeOK'
    BY DEF Crash, disk, AttemptInv, TypeOK, MAX_TRANSIENT_RETRIES, Statuses, Failures
<1>2. CacheHonest'
    BY DEF Crash, disk, AttemptInv, CacheHonest, Builds, Writes, Declares, Present
<1>3. QED
    BY <1>1, <1>2
    DEF Crash, AttemptInv, FingerprintInv, WorkInv, StableInv, HitInv, Building, Publishing,
        SuccessIsExact, FailureLeavesOut, ReplayGradesAsBuilt, Ended

LEMMA CancelKeeps ==
    ASSUME AttemptInv, UNCHANGED job_spec, Cancel
    PROVE  AttemptInv'
<1>1. cancel' = TRUE /\ UNCHANGED <<job_spec, input, pc, runs, attempt, status, fp, hit, cmd, failure, todo,
                                    work, stable, cache, index, before, tainted>>
    BY DEF Cancel, disk
<1>2. TypeOK'
    BY <1>1 DEF AttemptInv, TypeOK, MAX_TRANSIENT_RETRIES, Statuses, Failures
<1>3. QED
    BY <1>1, <1>2
    DEF AttemptInv, FingerprintInv, WorkInv, StableInv, HitInv, Building, Publishing,
       SuccessIsExact, FailureLeavesOut, ReplayGradesAsBuilt, CacheHonest, Ended, Present

\* An edit under the tool is remembered as such; between runs it changes nothing that was built.
LEMMA EditKeeps ==
    ASSUME AttemptInv, UNCHANGED job_spec, Edit
    PROVE  AttemptInv'
<1>1. /\ pc \in {"idle", "run"} /\ input' \in Fingerprint
      /\ tainted' = IF pc = "run" THEN tainted \cup {fp} ELSE tainted
      /\ UNCHANGED <<job_spec, pc, runs, attempt, status, fp, hit, cmd, failure, cancel, todo,
                     work, stable, cache, index, before>>
    BY DEF Edit, memory, disk
<1>2. TypeOK'
    BY <1>1 DEF FingerprintInv, AttemptInv, TypeOK, MAX_TRANSIENT_RETRIES, Statuses, Failures
<1>3. FingerprintInv'
    BY <1>1 DEF AttemptInv, FingerprintInv
<1>4. WorkInv' /\ StableInv' /\ HitInv'
    BY <1>1 DEF AttemptInv, WorkInv, StableInv, HitInv, Building, Publishing, Builds, PartOf, Writes, Declares, Present
<1>5. CacheHonest'
    BY <1>1 DEF AttemptInv, CacheHonest, Builds, Writes, Declares, Present
<1>6. QED
    BY <1>1, <1>2, <1>3, <1>4, <1>5
    DEF AttemptInv, SuccessIsExact, FailureLeavesOut, ReplayGradesAsBuilt, Ended, Builds, PartOf, Writes, Declares, Present

LEMMA ForgetKeeps ==
    ASSUME AttemptInv, UNCHANGED job_spec, Forget
    PROVE  AttemptInv'
<1>1. PICK f \in Fingerprint : cache' = [cache EXCEPT ![f] = None]
    BY DEF Forget
<1>2. /\ pc = "idle"
      /\ UNCHANGED <<job_spec, input, pc, runs, attempt, status, fp, hit, cmd, failure, cancel, todo, work,
                     stable, index, before, tainted>>
    BY DEF Forget, memory
<1>3. TypeOK'
    BY <1>1, <1>2 DEF AttemptInv, TypeOK, MAX_TRANSIENT_RETRIES, Statuses, Failures
<1>4. CacheHonest'
    BY <1>1, <1>2 DEF AttemptInv, TypeOK, CacheHonest, Builds, Writes, Declares, Present
<1>5. SuccessIsExact'
    BY <1>1, <1>2 DEF AttemptInv, TypeOK, SuccessIsExact, Ended, Builds, Writes, Declares, Present
<1>6. QED
    BY <1>2, <1>3, <1>4, <1>5
    DEF AttemptInv, FingerprintInv, WorkInv, StableInv, HitInv, Building, Publishing,
        FailureLeavesOut, ReplayGradesAsBuilt, Ended

LEMMA UnchangedKeeps ==
    ASSUME AttemptInv, UNCHANGED vars
    PROVE  AttemptInv'
BY DEF vars, memory, disk, AttemptInv, TypeOK, FingerprintInv, WorkInv, StableInv, HitInv,
       SuccessIsExact, FailureLeavesOut, ReplayGradesAsBuilt, CacheHonest, Ended, Present, Builds, PartOf, Writes, Declares

LEMMA StepKeeps == AttemptInv /\ [Next]_vars => AttemptInv'
<1> SUFFICES ASSUME AttemptInv, [Next]_vars
             PROVE  AttemptInv'
    OBVIOUS
<1>1. CASE UNCHANGED vars
    BY <1>1, UnchangedKeeps
<1>2. CASE Next
  <2>0. UNCHANGED job_spec
    BY <1>2 DEF Next
  <2>1. CASE Begin
    BY <2>0, <2>1, BeginKeeps
  <2>2. CASE PreflightFails
    BY <2>0, <2>2, FailKeeps DEF PreflightFails, Building, Failures
  <2>3. CASE Fingerprinted
    BY <2>0, <2>3, FingerprintedKeeps
  <2>4. CASE CacheHit
    BY <2>0, <2>4, CacheHitKeeps
  <2>5. CASE CacheMiss
    BY <2>0, <2>5, CacheMissKeeps
  <2>6. CASE CommandOk
    BY <2>0, <2>6, CommandOverKeeps DEF CommandOk
  <2>7. CASE CommandCancelled
    BY <2>0, <2>7, FailKeeps DEF CommandCancelled, Building, Failures
  <2>8. CASE CommandFailed("tool_exit_failure") \/ CommandFailed("timeout")
    BY <2>0, <2>8, CommandFailedKeeps
  <2>9. CASE ContractFails
    BY <2>0, <2>9, FailKeeps DEF ContractFails, Building, Failures
  <2>10. CASE ContractHolds
    BY <2>0, <2>10, ContractHoldsKeeps
  <2>11. CASE CachePublish
    BY <2>0, <2>11, CachePublishKeeps
  <2>12. CASE PublishFile \/ PublishDone \/ PruneStable
    BY <2>0, <2>12, PublishKeeps
  <2>13. CASE FinishBlocked \/ FinishOk
    BY <2>0, <2>13, FinishKeeps
  <2>14. CASE Crash
    BY <2>0, <2>14, CrashKeeps
  <2>15. CASE Cancel
    BY <2>0, <2>15, CancelKeeps
  <2>16. CASE Edit
    BY <2>0, <2>16, EditKeeps
  <2>17. CASE Forget
    BY <2>0, <2>17, ForgetKeeps
  <2>18. QED
    BY <1>2, <2>1, <2>2, <2>3, <2>4, <2>5, <2>6, <2>7, <2>8, <2>9, <2>10, <2>11, <2>12, <2>13, <2>14,
       <2>15, <2>16, <2>17
    DEF Next, AttemptStep
<1>3. QED
    BY <1>1, <1>2

LEMMA Invariance == Spec => []AttemptInv
<1>1. QED
    BY InitInv, StepKeeps, PTL DEF Spec
-----------------------------------------------------------------------------
(* The theorems.                                                           *)

\* Every variable of the attempt keeps its type: no step hands a directory, a fingerprint or
\* a retry counter on that the next one cannot use.
THEOREM AttemptType == Spec => []TypeOK
<1>1. AttemptInv => TypeOK
    BY DEF AttemptInv
<1>2. QED
    BY <1>1, Invariance, PTL

\* A job that ended with outputs (_attempt_job's success, its replay and its blocked end) left
\* in out/ one build of its fingerprint, whole as far as its commands declare, the one that
\* is cached, and nothing else, whatever was killed, retried or half published before; only an
\* edit under the tool can make it of other inputs.
THEOREM AttemptSuccessIsExact == Spec => []SuccessIsExact
<1>1. AttemptInv => SuccessIsExact
    BY DEF AttemptInv
<1>2. QED
    BY <1>1, Invariance, PTL

\* A job that failed or was cancelled did not touch the out/ its dependents read.
THEOREM AttemptFailureLeavesOut == Spec => []FailureLeavesOut
<1>1. AttemptInv => FailureLeavesOut
    BY DEF AttemptInv
<1>2. QED
    BY <1>1, Invariance, PTL

\* The verdict of a replayed build is that of the build: the cache neither launders a blocking
\* finding nor invents one.
THEOREM AttemptReplayGradesAsBuilt == Spec => []ReplayGradesAsBuilt
<1>1. AttemptInv => ReplayGradesAsBuilt
    BY DEF AttemptInv
<1>2. QED
    BY <1>1, Invariance, PTL

\* A cache entry is of the inputs it is filed under and has every file their commands declare:
\* no failed, cancelled, retried or killed attempt ever publishes less, or another's.
THEOREM AttemptCacheHonest == Spec => []CacheHonest
<1>1. AttemptInv => CacheHonest
    BY DEF AttemptInv
<1>2. QED
    BY <1>1, Invariance, PTL


-----------------------------------------------------------------------------
(* One command.                                                            *)

\* Nobody is signalled before the runner has a reason, and it has one only of what it saw.
ReasonInv ==
    /\ cancelSet \in BOOLEAN /\ expired \in BOOLEAN /\ due \in BOOLEAN
    /\ cancelled \in BOOLEAN /\ timed_out \in BOOLEAN
    /\ stage \in {"poll", "check"} => ~cancelled /\ ~timed_out
    /\ stage \in {"poll", "check", "terminate"} => termed = {}
    /\ stage \in {"terminate", "grace", "kill"} => cancelled \/ timed_out
    /\ cancelled => cancelSet
    /\ timed_out => due
    /\ due => HasTimeout /\ expired
    /\ ~(cancelled /\ timed_out)

\* A leader that is gone without a signal ended by itself, and one that is waited for
\* without a reason is gone without a signal.
OwnInv ==
    /\ own \in BOOLEAN
    /\ leader \notin alive /\ termed = {} => own
    /\ stage \in {"wait", "done"} /\ ~cancelled /\ ~timed_out => leader \notin alive /\ termed = {}

\* The signal goes to all of the group that is left, and nobody is killed who was not asked.
SignalInv ==
    /\ killed \subseteq termed
    /\ stage \in {"grace", "kill"} => termed # {}
    /\ termed # {} => alive \subseteq termed

RunnerInv == ReasonInv /\ OwnInv /\ SignalInv

LEMMA RunnerInitially == RunnerInit => RunnerInv
BY DEF RunnerInit, Group, RunnerInv, ReasonInv, OwnInv, SignalInv

LEMMA RunnerLoop == RunnerInv /\ (Poll \/ Check) => RunnerInv'
<1>1. RunnerInv /\ Poll => RunnerInv'
    BY DEF Poll, processes, outcome, RunnerInv, ReasonInv, OwnInv, SignalInv
<1>2. RunnerInv /\ Check => RunnerInv'
    BY DEF Check, processes, RunnerInv, ReasonInv, OwnInv, SignalInv
<1>3. QED
    BY <1>1, <1>2

LEMMA RunnerStops ==
    RunnerInv /\ (Terminate \/ Grace \/ Kill \/ Wait) => RunnerInv'
<1>1. RunnerInv /\ Terminate => RunnerInv'
    BY DEF Terminate, outcome, RunnerInv, ReasonInv, OwnInv, SignalInv
<1>2. RunnerInv /\ Grace => RunnerInv'
    BY DEF Grace, processes, outcome, RunnerInv, ReasonInv, OwnInv, SignalInv
<1>3. RunnerInv /\ Kill => RunnerInv'
    BY DEF Kill, outcome, RunnerInv, ReasonInv, OwnInv, SignalInv
<1>4. RunnerInv /\ Wait => RunnerInv'
    BY DEF Wait, processes, outcome, RunnerInv, ReasonInv, OwnInv, SignalInv
<1>5. QED
    BY <1>1, <1>2, <1>3, <1>4

LEMMA RunnerWorld ==
    ASSUME RunnerInv,
           (\E p \in Group : Exit(p)) \/ CancelCommand \/ Expire \/ GraceEnds
    PROVE  RunnerInv'
<1>1. ASSUME NEW p \in Group, Exit(p) PROVE RunnerInv'
  <2>1. ReasonInv' /\ SignalInv'
    BY <1>1 DEF Exit, outcome, RunnerInv, ReasonInv, SignalInv
  <2>2. CASE p = leader
    <3>1. /\ leader \in alive /\ own' = (leader \notin termed \cup killed)
          /\ UNCHANGED <<stage, termed, cancelled, timed_out>>
        BY <1>1, <2>2 DEF Exit, outcome
    <3>2. termed = {} => leader \notin termed \cup killed
        BY DEF RunnerInv, SignalInv
    <3>3. own' \in BOOLEAN /\ (termed' = {} => own')
        BY <3>1, <3>2
    <3>4. ~(stage' \in {"wait", "done"} /\ ~cancelled' /\ ~timed_out')
        BY <3>1 DEF RunnerInv, OwnInv
    <3>5. QED
        BY <2>1, <3>3, <3>4 DEF RunnerInv, OwnInv
  <2>3. CASE p # leader
    <3>1. /\ (leader \in alive' <=> leader \in alive) /\ own' = own
          /\ UNCHANGED <<stage, termed, cancelled, timed_out>>
        BY <1>1, <2>3 DEF Exit, outcome
    <3>2. QED
        BY <2>1, <3>1 DEF RunnerInv, OwnInv
  <2>4. QED
    BY <2>2, <2>3
<1>2. ASSUME CancelCommand \/ Expire \/ GraceEnds PROVE RunnerInv'
  <2>1. UNCHANGED <<stage, alive, termed, killed, own, due, cancelled, timed_out>>
    BY <1>2 DEF CancelCommand, Expire, GraceEnds, processes, outcome
  <2>2. OwnInv' /\ SignalInv'
    BY <2>1 DEF RunnerInv, OwnInv, SignalInv
  <2>3. /\ cancelSet' \in BOOLEAN /\ expired' \in BOOLEAN
        /\ cancelSet => cancelSet'
        /\ expired => expired'
    BY <1>2 DEF CancelCommand, Expire, GraceEnds, RunnerInv, ReasonInv
  <2>4. ReasonInv'
    BY <2>1, <2>3 DEF RunnerInv, ReasonInv
  <2>5. QED
    BY <2>2, <2>4 DEF RunnerInv
<1>3. QED
    BY <1>1, <1>2

LEMMA RunnerAlways == RunnerSpec => []RunnerInv
<1>1. RunnerInv /\ [RunnerNext]_runnerVars => RunnerInv'
  <2>1. RunnerInv /\ UNCHANGED runnerVars => RunnerInv'
    BY DEF runnerVars, processes, outcome, RunnerInv, ReasonInv, OwnInv, SignalInv
  <2>2. QED
    BY <2>1, RunnerLoop, RunnerStops, RunnerWorld DEF RunnerNext, RunnerStep
<1>2. QED
    BY <1>1, RunnerInitially, PTL DEF RunnerSpec

\* What run_command returns is so: cancelled only of a cancelled run, timed out only of a
\* command that had its time, never both, and otherwise an exit code that is the command's own.
THEOREM OutcomesAreHonest == RunnerSpec => []OutcomeHonest
<1>1. RunnerInv => OutcomeHonest
    BY DEF RunnerInv, ReasonInv, OwnInv, SignalInv, OutcomeHonest
<1>2. QED
    BY <1>1, RunnerAlways, PTL

\* Where run_command is, and which processes there are.
PlaceInv ==
    /\ stage \in {"poll", "check", "terminate", "grace", "kill", "wait", "done"}
    /\ alive \subseteq Group /\ stubborn \subseteq Group /\ termed \subseteq Group
    /\ graceOver \in BOOLEAN

\* run_command is at one of its places, who is alive, signalled and killed is of the group,
\* and nobody is killed who was not asked to end, for any process group.
THEOREM RunnerType == RunnerSpec => []RunnerTypeOK
<1>1. RunnerInit => PlaceInv
    BY DEF RunnerInit, PlaceInv
<1>2. PlaceInv /\ [RunnerNext]_runnerVars => PlaceInv'
  <2> SUFFICES ASSUME PlaceInv, [RunnerNext]_runnerVars PROVE PlaceInv'
    OBVIOUS
  <2> USE DEF PlaceInv, processes
  <2>1. CASE Poll \/ Check
    BY <2>1 DEF Poll, Check
  <2>2. CASE Terminate \/ Grace \/ Kill \/ Wait
    BY <2>2 DEF Terminate, Grace, Kill, Wait
  <2>3. CASE \E p \in Group : Exit(p)
    BY <2>3 DEF Exit
  <2>4. CASE CancelCommand \/ Expire \/ GraceEnds
    BY <2>4 DEF CancelCommand, Expire, GraceEnds
  <2>5. CASE UNCHANGED runnerVars
    BY <2>5 DEF runnerVars
  <2>6. QED
    BY <2>1, <2>2, <2>3, <2>4, <2>5 DEF RunnerNext, RunnerStep
<1>3. PlaceInv /\ RunnerInv => RunnerTypeOK
    BY DEF PlaceInv, RunnerInv, ReasonInv, OwnInv, SignalInv, RunnerTypeOK
<1>4. QED
    BY <1>1, <1>2, <1>3, RunnerAlways, PTL DEF RunnerSpec

-----------------------------------------------------------------------------
(* The generator: where batches end.                                       *)

\* A set of numbers has a least one.
LEMMA LeastOf ==
    ASSUME NEW T \in SUBSET Nat, T # {}
    PROVE  \E x \in T : \A y \in T : x <= y
<1> DEFINE R == OpToRel(<, Nat)
<1>1. \E x \in T : \A y \in T : ~(<<y, x>> \in R)
    BY WFMin, NatLessThanWellFounded
<1>2. R = {ss \in Nat \X Nat : ss[1] < ss[2]}
    BY DEF OpToRel
<1> HIDE DEF R
<1>3. PICK x \in T : \A y \in T : <<y, x>> \notin R
    BY <1>1
<1>4. ASSUME NEW y \in T PROVE x <= y
  <2>1. x \in Nat /\ y \in Nat /\ <<y, x>> \in Nat \X Nat
    OBVIOUS
  <2>2. ~(y < x)
    BY <1>2, <1>3, <2>1
  <2>3. QED
    BY <2>1, <2>2
<1>5. QED
    BY <1>3, <1>4

LEMMA MinIsLeast ==
    ASSUME NEW T \in SUBSET Nat, T # {}
    PROVE  Min(T) \in T /\ \A y \in T : Min(T) <= y
BY LeastOf DEF Min

\* A batch is a command alone or parallel commands only, and never empty.
LEMMA BatchEndFacts ==
    ASSUME planned \in Seq(BOOLEAN), NEW i \in Commands
    PROVE  /\ BatchEnd(i) \in (i + 1)..(Len(planned) + 1)
           /\ BatchEnd(i) > i + 1 => \A n \in i..(BatchEnd(i) - 1) : planned[n]
<1> DEFINE T == {j \in (i + 1)..(Len(planned) + 1) : j = Len(planned) + 1 \/ ~planned[j]}
           Ends(j) == /\ j > i + 1 => \A n \in i..(j - 1) : planned[n]
                      /\ j \in Commands => ~(planned[i] /\ planned[j])
<1>0. Len(planned) \in Nat /\ Commands = 1..Len(planned) /\ i \in Nat /\ i <= Len(planned)
    BY DEF Commands
<1>1. \E j \in (i + 1)..(Len(planned) + 1) : Ends(j)
  <2>1. CASE ~planned[i]
    <3>1. Ends(i + 1) /\ i + 1 \in (i + 1)..(Len(planned) + 1)
        BY <1>0, <2>1
    <3>2. QED
        BY <3>1
  <2>2. CASE planned[i]
    <3>1. T \in SUBSET Nat /\ Len(planned) + 1 \in T
        BY <1>0
    <3>2. PICK j \in T : \A k \in T : j <= k
        BY <3>1, LeastOf
    <3>3. \A n \in i..(j - 1) : planned[n]
        BY <1>0, <2>2, <3>2
    <3>4. j \in Commands => ~planned[j]
        BY <1>0, <3>2
    <3>5. QED
        BY <3>2, <3>3, <3>4
  <2>3. QED
    BY <2>1, <2>2
<1>2. BatchEnd(i) = CHOOSE j \in (i + 1)..(Len(planned) + 1) : Ends(j)
    BY DEF BatchEnd
<1> HIDE DEF Ends
<1>3. BatchEnd(i) \in (i + 1)..(Len(planned) + 1) /\ Ends(BatchEnd(i))
    BY <1>1, <1>2
<1>4. QED
    BY <1>3 DEF Ends

-----------------------------------------------------------------------------
(* The generator: the invariant.                                           *)

Over(n) == command[n] \in Returned \cup {"raised"}

\* The batch, and the place in it, at each step of the generator.
BatchInv ==
    /\ generator = "next" => lo = hi /\ at = lo
    /\ generator \in {"alone", "wait", "gather", "yield"} => at < hi
    /\ generator = "gather" => SideBySide /\ at = lo
    /\ generator \in {"alone", "wait"} => ~SideBySide
    /\ SideBySide => \A n \in Batch : planned[n]

\* What is before the batch is over, what is after it has not begun, and within it one
\* command after the other, unless they go side by side.
BegunInv ==
    \A n \in Commands :
        /\ n < lo => Over(n)
        /\ n >= hi => command[n] = "waiting"
        /\ ~SideBySide /\ n < at => Over(n)
        /\ ~SideBySide /\ n > at => command[n] = "waiting"
        /\ generator \in {"next", "alone"} /\ n >= at => command[n] = "waiting"
        /\ command[n] = "running" => generator \in {"wait", "gather"}
        /\ command[n] = "queued" => generator = "gather"
        /\ generator = "yield" /\ (n = at \/ (SideBySide /\ n \in Batch)) => Over(n)

\* The caller has had the results in the order of the plan, and job.log has their parts.
SeenInv ==
    /\ generator = "ended" <=> ended # "no"
    /\ ended = "stopped" => at \in Commands
    /\ Len(seen) = (IF ended = "stopped" THEN at ELSE at - 1)
    /\ \A k \in 1..Len(seen) : seen[k] = k
    /\ OneCommand => command[1] \in {"waiting", "queued"} \/ log = <<1>>
    /\ ~OneCommand /\ seen # <<>> => log = seen

CommandsInv == CommandsTypeOK /\ BatchInv /\ BegunInv /\ SeenInv

LEMMA PlanFacts ==
    ASSUME CommandsTypeOK
    PROVE  /\ planned \in Seq(BOOLEAN) /\ Len(planned) \in Nat /\ Commands = 1..Len(planned)
           /\ width \in Nat \ {0}
           /\ lo \in Nat /\ hi \in Nat /\ at \in Nat
           /\ 1 <= lo /\ lo <= hi /\ hi <= Len(planned) + 1 /\ lo <= at /\ at <= Len(planned) + 1
<1>1. planned \in Seq(BOOLEAN) /\ width \in Nat \ {0}
    BY PlansAssumption DEF CommandsTypeOK
<1>2. Len(planned) \in Nat /\ Commands = 1..Len(planned)
    BY <1>1 DEF Commands
<1>3. QED
    BY <1>1, <1>2 DEF CommandsTypeOK

LEMMA CommandsInitially == CommandsInit => CommandsInv
<1> SUFFICES ASSUME CommandsInit PROVE CommandsInv
    OBVIOUS
<1>1. planned \in Seq(BOOLEAN)
    BY PlansAssumption DEF CommandsInit
<1>2. Len(planned) \in Nat /\ Commands = 1..Len(planned)
    BY <1>1 DEF Commands
<1>3. CommandsTypeOK
  <2>1. seen \in Seq(Commands) /\ log \in Seq(Commands \cup {0})
    <3>1. <<>> \in Seq(Commands) /\ <<>> \in Seq(Commands \cup {0}) /\ <<0>> \in Seq(Commands \cup {0})
        OBVIOUS
    <3>2. QED
        BY <3>1 DEF CommandsInit
  <2>2. command \in [Commands -> Returned \cup {"waiting", "queued", "running", "raised"}]
    BY DEF CommandsInit
  <2>3. lo \in 1..(Len(planned) + 1) /\ hi \in lo..(Len(planned) + 1) /\ at \in lo..(Len(planned) + 1)
    BY <1>2 DEF CommandsInit
  <2>4. QED
    BY <2>1, <2>2, <2>3 DEF CommandsInit, CommandsTypeOK
<1>4. BatchInv
    BY <1>2 DEF CommandsInit, BatchInv, SideBySide
<1>5. BegunInv
    BY <1>2 DEF CommandsInit, BegunInv, SideBySide
<1>6. SeenInv
    BY <1>2 DEF CommandsInit, SeenInv, OneCommand
<1>7. QED
    BY <1>3, <1>4, <1>5, <1>6 DEF CommandsInv

-----------------------------------------------------------------------------
(* The generator: the steps.                                               *)

LEMMA NextBatchKeeps == CommandsInv /\ NextBatch => CommandsInv'
<1> SUFFICES ASSUME CommandsInv, NextBatch PROVE CommandsInv'
    OBVIOUS
<1>1. /\ generator = "next" /\ lo \in Commands /\ hi' = BatchEnd(lo) /\ at' = lo
      /\ UNCHANGED <<planned, width, lo, seen, log, parts, ended>>
    BY DEF NextBatch
<1>2. lo = hi /\ at = lo
    BY <1>1 DEF CommandsInv, BatchInv
<1>3. /\ planned \in Seq(BOOLEAN) /\ Len(planned) \in Nat /\ Commands = 1..Len(planned)
      /\ width \in Nat \ {0} /\ lo \in Nat /\ 1 <= lo /\ lo <= Len(planned)
    BY <1>1, PlanFacts DEF CommandsInv
<1>4. /\ hi' \in (lo + 1)..(Len(planned) + 1)
      /\ hi' > lo + 1 => \A n \in lo..(hi' - 1) : planned[n]
    BY <1>1, <1>3, BatchEndFacts
<1>5. Commands' = Commands
    BY <1>1 DEF Commands
<1>6. \/ generator' = "alone" /\ ~SideBySide' /\ command' = command
      \/ /\ generator' = "gather" /\ SideBySide'
         /\ command' = [n \in Commands |-> IF n \in lo..(hi' - 1) THEN "queued" ELSE command[n]]
    BY <1>1, <1>3, <1>4 DEF NextBatch, SideBySide
<1>7. command \in [Commands -> Returned \cup {"waiting", "queued", "running", "raised"}]
    BY DEF CommandsInv, CommandsTypeOK
<1>8. \A n \in Commands : /\ n < lo => Over(n)
                          /\ n >= lo => command[n] = "waiting"
    BY <1>1, <1>2, <1>3 DEF CommandsInv, BegunInv
<1>9. CommandsTypeOK'
    BY <1>1, <1>3, <1>4, <1>5, <1>6, <1>7 DEF CommandsInv, CommandsTypeOK
<1>10. BatchInv'
    BY <1>1, <1>3, <1>4, <1>5, <1>6 DEF BatchInv, SideBySide, Batch
<1>11. BegunInv'
    BY <1>1, <1>3, <1>4, <1>5, <1>6, <1>7, <1>8 DEF BegunInv, Over, Returned
<1>12. SeenInv'
  <2>1. generator' # "ended" /\ ended = "no"
    BY <1>1, <1>6 DEF CommandsInv, SeenInv
  <2>2. OneCommand => command'[1] \in {"waiting", "queued"}
    BY <1>1, <1>2, <1>3, <1>4, <1>5, <1>6, <1>8 DEF OneCommand
  <2>3. QED
    BY <1>1, <1>2, <2>1, <2>2 DEF CommandsInv, SeenInv, OneCommand
<1>13. QED
    BY <1>9, <1>10, <1>11, <1>12 DEF CommandsInv

LEMMA ExhaustKeeps == CommandsInv /\ Exhaust => CommandsInv'
<1> SUFFICES ASSUME CommandsInv, Exhaust PROVE CommandsInv'
    OBVIOUS
<1>1. /\ generator = "next" /\ generator' = "ended" /\ ended' = "exhausted" /\ ended = "no"
      /\ UNCHANGED <<planned, width, lo, hi, at, command, seen, log, parts>>
    BY DEF Exhaust, CommandsInv, SeenInv
<1>2. CommandsTypeOK'
    BY <1>1 DEF CommandsInv, CommandsTypeOK, Commands
<1>3. BatchInv' /\ BegunInv'
    BY <1>1 DEF CommandsInv, BatchInv, BegunInv, SideBySide, Batch, Commands, Over, Returned
<1>4. SeenInv'
    BY <1>1 DEF CommandsInv, SeenInv, OneCommand
<1>5. QED
    BY <1>2, <1>3, <1>4 DEF CommandsInv

\* A command of the batch starts, alone or in the pool: it is the only one where it may.
LEMMA StartKeeps ==
    ASSUME CommandsInv, NEW n \in Batch, Start(n),
           UNCHANGED <<planned, width, lo, hi, at, seen, ended>>,
           \/ generator = "alone" /\ generator' = "wait" /\ n = at
           \/ generator = "gather" /\ generator' = "gather"
    PROVE  CommandsInv'
<1>1. /\ planned \in Seq(BOOLEAN) /\ Len(planned) \in Nat /\ Commands = 1..Len(planned)
      /\ lo \in Nat /\ hi \in Nat /\ at \in Nat
    BY PlanFacts DEF CommandsInv
<1>2. n \in Commands /\ lo <= n /\ n < hi
    BY DEF Batch
<1>3. /\ command' = [command EXCEPT ![n] = "running"]
      /\ IF OneCommand THEN log' = <<n>> /\ parts' = parts
                       ELSE parts' = parts \cup {n} /\ log' = log
    BY DEF Start
<1>4. command \in [Commands -> Returned \cup {"waiting", "queued", "running", "raised"}]
    BY DEF CommandsInv, CommandsTypeOK
<1>5. Commands' = Commands /\ (SideBySide' <=> SideBySide) /\ Batch' = Batch /\ (OneCommand' <=> OneCommand)
    BY DEF Commands, SideBySide, Batch, OneCommand
<1>6. log' \in Seq(Commands \cup {0})
  <2>1. log \in Seq(Commands \cup {0}) /\ n \in Commands \cup {0}
    BY <1>2 DEF CommandsInv, CommandsTypeOK
  <2>2. <<n>> \in Seq(Commands \cup {0})
    BY <2>1
  <2>3. QED
    BY <1>3, <2>1, <2>2, Zenon
<1>7. CommandsTypeOK'
  <2>1. command' \in [Commands -> Returned \cup {"waiting", "queued", "running", "raised"}]
    BY <1>3, <1>4
  <2>2. parts \subseteq Commands
    BY DEF CommandsInv, CommandsTypeOK
  <2>3. parts' \subseteq Commands
    BY <1>2, <1>3, <2>2
  <2>4. QED
    BY <1>2, <1>5, <1>6, <2>1, <2>3 DEF CommandsInv, CommandsTypeOK
<1>8. BatchInv'
    BY <1>5 DEF CommandsInv, BatchInv
<1>9. BegunInv'
    BY <1>1, <1>2, <1>3, <1>4, <1>5 DEF CommandsInv, BatchInv, BegunInv, Over, Returned
<1>10. SeenInv'
  <2>1. ended = "no" /\ generator' # "ended"
    BY DEF CommandsInv, SeenInv
  <2>2. OneCommand => log' = <<1>>
    BY <1>1, <1>2, <1>3 DEF OneCommand
  <2>3. ~OneCommand => log' = log
    BY <1>3
  <2>4. QED
    BY <1>5, <2>1, <2>2, <2>3 DEF CommandsInv, SeenInv
<1>11. QED
    BY <1>7, <1>8, <1>9, <1>10 DEF CommandsInv

LEMMA StartsKeep == CommandsInv /\ (RunAlone \/ PoolStart) => CommandsInv'
<1> SUFFICES ASSUME CommandsInv, RunAlone \/ PoolStart PROVE CommandsInv'
    OBVIOUS
<1>1. /\ Len(planned) \in Nat /\ Commands = 1..Len(planned)
      /\ lo \in Nat /\ hi \in Nat /\ at \in Nat /\ 1 <= lo /\ lo <= at /\ hi <= Len(planned) + 1
    BY PlanFacts DEF CommandsInv
<1>2. CASE RunAlone
  <2>1. at \in Batch
    BY <1>1, <1>2 DEF RunAlone, CommandsInv, BatchInv, Batch
  <2>2. QED
    BY <1>2, <2>1, StartKeeps DEF RunAlone
<1>3. CASE PoolStart
  <2>1. Are("queued") \in SUBSET Nat /\ Are("queued") # {}
    BY <1>1, <1>3 DEF PoolStart, Are
  <2>2. Min(Are("queued")) \in Are("queued")
    BY <2>1, MinIsLeast
  <2>3. Are("queued") \subseteq Batch
    BY <1>1 DEF CommandsInv, BegunInv, Are, Batch, Over, Returned
  <2>4. QED
    BY <1>3, <2>2, <2>3, StartKeeps DEF PoolStart
<1>4. QED
    BY <1>2, <1>3

LEMMA EndKeeps ==
    ASSUME CommandsInv, NEW n \in Commands, CommandEnd(n)
    PROVE  CommandsInv'
<1>1. /\ command[n] = "running"
      /\ UNCHANGED <<planned, width, generator, lo, hi, at, seen, log, parts, ended>>
    BY DEF CommandEnd
<1>2. PICK how \in Returned \cup {"raised"} : command' = [command EXCEPT ![n] = how]
    BY DEF CommandEnd
<1>3. command \in [Commands -> Returned \cup {"waiting", "queued", "running", "raised"}]
    BY DEF CommandsInv, CommandsTypeOK
<1>4. Commands' = Commands /\ (SideBySide' <=> SideBySide) /\ Batch' = Batch /\ (OneCommand' <=> OneCommand)
    BY <1>1 DEF Commands, SideBySide, Batch, OneCommand
<1>5. generator \in {"wait", "gather"}
    BY <1>1 DEF CommandsInv, BegunInv
<1>6. /\ lo \in Nat /\ hi \in Nat /\ at \in Nat /\ Commands = 1..Len(planned) /\ Len(planned) \in Nat
    BY PlanFacts DEF CommandsInv
<1>7. CommandsTypeOK'
    BY <1>1, <1>2, <1>3, <1>4 DEF CommandsInv, CommandsTypeOK
<1>8. BatchInv'
    BY <1>1, <1>4 DEF CommandsInv, BatchInv
<1>9. BegunInv'
    BY <1>1, <1>2, <1>3, <1>4, <1>5, <1>6 DEF CommandsInv, BegunInv, Over, Returned
<1>10. SeenInv'
  <2>1. OneCommand => log = <<1>>
    BY <1>1, <1>6 DEF CommandsInv, SeenInv, OneCommand
  <2>2. QED
    BY <1>1, <1>4, <2>1 DEF CommandsInv, SeenInv
<1>11. QED
    BY <1>7, <1>8, <1>9, <1>10 DEF CommandsInv

\* Once the results are in, or an exception is out, nothing of the batch runs.
LEMMA DrainedKeeps == CommandsInv /\ (HaveResults \/ Raise) => CommandsInv'
<1> SUFFICES ASSUME CommandsInv, HaveResults \/ Raise PROVE CommandsInv'
    OBVIOUS
<1>1. /\ UNCHANGED <<planned, width, lo, hi, at, command, seen, log, parts>>
      /\ \/ generator' = "yield" /\ ended' = ended
         \/ generator' = "ended" /\ ended' = "raised"
    BY DEF HaveResults, Raise
<1>2. /\ lo \in Nat /\ hi \in Nat /\ at \in Nat /\ Commands = 1..Len(planned) /\ Len(planned) \in Nat
      /\ 1 <= lo /\ lo <= at /\ hi <= Len(planned) + 1
    BY PlanFacts DEF CommandsInv
<1>3. generator \in {"wait", "gather"}
    BY DEF HaveResults, Raise
<1>4. \A n \in Commands : n = at \/ (SideBySide /\ n \in Batch) => Over(n)
  <2>1. CASE generator = "wait"
    BY <2>1 DEF HaveResults, Raise, CommandsInv, BatchInv, Over, Returned
  <2>2. CASE generator = "gather"
    <3>1. \A n \in Batch : Over(n)
        BY <2>2 DEF HaveResults, Raise, Settled, Are, Over, Returned
    <3>2. at \in Commands => at \in Batch
        BY <1>2, <2>2 DEF CommandsInv, BatchInv, Batch
    <3>3. QED
        BY <3>1, <3>2
  <2>3. QED
    BY <1>3, <2>1, <2>2
<1>5. \A n \in Commands : command[n] \notin {"running", "queued"}
    BY <1>2, <1>4 DEF CommandsInv, BegunInv, Batch, Over, Returned
<1>6. Commands' = Commands /\ (SideBySide' <=> SideBySide) /\ Batch' = Batch /\ (OneCommand' <=> OneCommand)
    BY <1>1 DEF Commands, SideBySide, Batch, OneCommand
<1>7. ended = "no"
    BY <1>3 DEF CommandsInv, SeenInv
<1>8. CommandsTypeOK'
    BY <1>1, <1>6 DEF CommandsInv, CommandsTypeOK
<1>9. BatchInv'
    BY <1>1, <1>3, <1>6 DEF CommandsInv, BatchInv
<1>10. BegunInv'
    BY <1>1, <1>4, <1>5, <1>6 DEF CommandsInv, BegunInv, Over, Returned
<1>11. SeenInv'
    BY <1>1, <1>3, <1>6, <1>7 DEF CommandsInv, SeenInv
<1>12. QED
    BY <1>8, <1>9, <1>10, <1>11 DEF CommandsInv

LEMMA HandOverKeeps == CommandsInv /\ HandOver => CommandsInv'
<1> SUFFICES ASSUME CommandsInv, HandOver PROVE CommandsInv'
    OBVIOUS
<1>1. /\ generator = "yield" /\ Join(at) /\ seen' = Append(seen, at)
      /\ UNCHANGED <<planned, width, hi, command>>
    BY DEF HandOver
<1>2. /\ lo \in Nat /\ hi \in Nat /\ at \in Nat /\ Commands = 1..Len(planned) /\ Len(planned) \in Nat
      /\ 1 <= lo /\ lo <= at /\ at < hi /\ hi <= Len(planned) + 1
    BY <1>1, PlanFacts DEF CommandsInv, BatchInv
<1>3. at \in Commands /\ Commands' = Commands /\ (OneCommand' <=> OneCommand)
    BY <1>1, <1>2 DEF Commands, OneCommand
<1>4. ended = "no" /\ Len(seen) = at - 1 /\ seen \in Seq(Commands)
    BY <1>1 DEF CommandsInv, SeenInv, CommandsTypeOK
<1>5. \/ generator' = "ended" /\ ended' = "stopped" /\ lo' = lo /\ at' = at
      \/ /\ at' = at + 1 /\ ended' = ended /\ at + 1 = hi /\ generator' = "next" /\ lo' = hi
      \/ /\ at' = at + 1 /\ ended' = ended /\ at + 1 < hi /\ lo' = lo
         /\ generator' = IF SideBySide THEN "yield" ELSE "alone"
    BY <1>2 DEF HandOver
<1>6. \A n \in Commands : command[n] \notin {"running", "queued"}
    BY <1>1 DEF CommandsInv, BegunInv
<1>7. \A n \in Commands : n < at => Over(n)
  <2>1. ASSUME NEW n \in Commands, n < at, SideBySide PROVE Over(n)
    BY <1>1, <1>2, <2>1 DEF CommandsInv, BegunInv, Batch
  <2>2. QED
    BY <2>1 DEF CommandsInv, BegunInv
<1>8. Over(at)
  <2>1. \A n \in Commands : generator = "yield" /\ n = at => Over(n)
    BY DEF CommandsInv, BegunInv, Over, Returned
  <2>2. QED
    BY <1>1, <1>3, <2>1
<1>9. CommandsTypeOK'
  <2>1. log' \in Seq(Commands \cup {0}) /\ parts' \subseteq Commands
    <3>1. log \in Seq(Commands \cup {0}) /\ parts \subseteq Commands /\ at \in Commands \cup {0}
        BY <1>3 DEF CommandsInv, CommandsTypeOK
    <3>2. CASE OneCommand
        BY <1>1, <3>1, <3>2 DEF Join
    <3>3. CASE ~OneCommand
        <4>1. /\ parts' = parts \ {at}
              /\ log' = <<at>> \/ log' = Append(log, at)
            BY <1>1, <3>3 DEF Join
        <4>2. <<at>> \in Seq(Commands \cup {0})
            BY <3>1
        <4>3. Append(log, at) \in Seq(Commands \cup {0})
            BY <3>1
        <4>4. QED
            BY <3>1, <4>1, <4>2, <4>3
    <3>4. QED
        BY <3>2, <3>3
  <2>2. seen' \in Seq(Commands)
    BY <1>1, <1>3, <1>4
  <2>3. lo' \in 1..(Len(planned) + 1) /\ hi' \in lo'..(Len(planned) + 1) /\ at' \in lo'..(Len(planned) + 1)
    BY <1>1, <1>2, <1>5
  <2>4. generator' \in {"ended", "next", "yield", "alone"} /\ ended' \in {"no", "stopped"}
    BY <1>4, <1>5
  <2>5. QED
    BY <1>1, <1>3, <2>1, <2>2, <2>3, <2>4 DEF CommandsInv, CommandsTypeOK
<1>10. BatchInv'
  <2>1. CASE lo' = lo
    <3>1. (SideBySide' <=> SideBySide) /\ Batch' = Batch
        BY <1>1, <1>3, <2>1 DEF SideBySide, Batch
    <3>2. QED
        BY <1>1, <1>2, <1>5, <2>1, <3>1 DEF CommandsInv, BatchInv
  <2>2. CASE generator' = "next" /\ lo' = hi /\ at' = hi
    <3>1. ~SideBySide'
        BY <1>1, <1>2, <2>2 DEF SideBySide
    <3>2. QED
        BY <1>1, <2>2, <3>1 DEF BatchInv
  <2>3. QED
    BY <1>5, <2>1, <2>2
<1>11. BegunInv'
  <2>1. CASE lo' = lo
    <3>1. (SideBySide' <=> SideBySide) /\ Batch' = Batch
        BY <1>1, <1>3, <2>1 DEF SideBySide, Batch
    <3>2. ASSUME NEW n \in Commands
          PROVE  /\ n < at' => Over(n)
                 /\ n > at' /\ ~SideBySide => command[n] = "waiting"
                 /\ generator' = "alone" /\ n >= at' => command[n] = "waiting"
                 /\ generator' = "yield" /\ (n = at' \/ (SideBySide /\ n \in Batch)) => Over(n)
        <4>1. at' \in {at, at + 1}
            BY <1>5
        <4>2. n < at' => Over(n)
            BY <1>2, <1>7, <1>8, <4>1
        <4>3. n > at' /\ ~SideBySide => command[n] = "waiting"
            BY <1>2, <4>1 DEF CommandsInv, BegunInv
        <4>4. generator' = "alone" /\ n >= at' => command[n] = "waiting"
            BY <1>2, <1>5, <2>1 DEF CommandsInv, BegunInv
        <4>5. generator' = "yield" /\ (n = at' \/ (SideBySide /\ n \in Batch)) => Over(n)
            BY <1>1, <1>2, <1>5, <2>1 DEF CommandsInv, BegunInv, Batch
        <4>6. QED
            BY <4>2, <4>3, <4>4, <4>5
    <3>3. generator' # "next"
        BY <1>2, <1>5, <2>1
    <3>4. QED
        BY <1>1, <1>3, <1>6, <2>1, <3>1, <3>2, <3>3 DEF CommandsInv, BegunInv, Over, Returned
  <2>2. CASE generator' = "next" /\ lo' = hi /\ at' = hi /\ at + 1 = hi
    <3>1. \A n \in Commands : (n < hi => Over(n)) /\ (n >= hi => command[n] = "waiting")
        BY <1>2, <1>7, <1>8, <2>2 DEF CommandsInv, BegunInv
    <3>2. QED
        BY <1>1, <1>2, <1>3, <1>6, <2>2, <3>1 DEF BegunInv, Over, Returned
  <2>3. QED
    BY <1>5, <2>1, <2>2
<1>12. SeenInv'
  <2>1. Len(seen') = at /\ \A k \in 1..at : seen'[k] = k
    BY <1>1, <1>2, <1>4 DEF CommandsInv, SeenInv
  <2>2. Len(seen') = (IF ended' = "stopped" THEN at' ELSE at' - 1)
    BY <1>2, <1>4, <1>5, <2>1
  <2>3. (generator' = "ended" <=> ended' # "no") /\ (ended' = "stopped" => at' \in Commands')
    BY <1>3, <1>4, <1>5
  <2>4. OneCommand => command'[1] \in {"waiting", "queued"} \/ log' = <<1>>
    BY <1>1 DEF CommandsInv, SeenInv, Join
  <2>5. ~OneCommand => log' = seen'
    <3>1. CASE at = 1
        BY <1>1, <1>4, <3>1 DEF Join
    <3>2. CASE at # 1
        BY <1>1, <1>2, <1>4, <3>2 DEF Join, CommandsInv, SeenInv
    <3>3. QED
        BY <3>1, <3>2
  <2>6. QED
    BY <1>3, <2>1, <2>2, <2>3, <2>4, <2>5 DEF SeenInv
<1>13. QED
    BY <1>9, <1>10, <1>11, <1>12 DEF CommandsInv

LEMMA CommandsAlways == CommandsSpec => []CommandsInv
<1>1. CommandsInv /\ UNCHANGED commandVars => CommandsInv'
  <2> SUFFICES ASSUME CommandsInv, UNCHANGED commandVars PROVE CommandsInv'
    OBVIOUS
  <2>1. UNCHANGED <<planned, width, generator, lo, hi, at, command, seen, log, parts, ended>>
    BY DEF commandVars
  <2>2. CommandsTypeOK' /\ BatchInv'
    BY <2>1 DEF CommandsInv, CommandsTypeOK, BatchInv, SideBySide, Batch, Commands
  <2>3. BegunInv' /\ SeenInv'
    BY <2>1 DEF CommandsInv, BegunInv, SeenInv, SideBySide, Batch, Commands, Over, Returned, OneCommand
  <2>4. QED
    BY <2>2, <2>3 DEF CommandsInv
<1>2. CommandsInv /\ [CommandsNext]_commandVars => CommandsInv'
    BY <1>1, NextBatchKeeps, ExhaustKeeps, StartsKeep, EndKeeps, DrainedKeeps, HandOverKeeps
    DEF CommandsNext, GeneratorStep, Done
<1>3. QED
    BY <1>2, CommandsInitially, PTL DEF CommandsSpec

-----------------------------------------------------------------------------
(* The generator: the theorems.                                            *)

\* The generator's variables keep their types, and the batch stays within the plan.
THEOREM CommandsType == CommandsSpec => []CommandsTypeOK
<1>1. CommandsInv => CommandsTypeOK
    BY DEF CommandsInv
<1>2. QED
    BY <1>1, CommandsAlways, PTL

\* For any plan and width: job.log is what the caller has had, in plan order, whatever order
\* the pool's commands ended in (_run_commands' joined parts).
THEOREM LogsAreInPlanOrder == CommandsSpec => []LogInPlanOrder
<1>1. CommandsInv => LogInPlanOrder
  <2> SUFFICES ASSUME CommandsInv PROVE LogInPlanOrder
    OBVIOUS
  <2>1. ASSUME OneCommand, 1 \in Settled PROVE log = <<1>>
    BY <2>1 DEF CommandsInv, SeenInv, Settled, Returned, Are
  <2>2. ASSUME ~OneCommand, seen # <<>> PROVE log = [n \in 1..Len(seen) |-> n] /\ log = seen
    <3>1. seen \in Seq(Commands) /\ log = seen
        BY <2>2 DEF CommandsInv, SeenInv, CommandsTypeOK
    <3>2. seen = [n \in 1..Len(seen) |-> n]
        BY <3>1 DEF CommandsInv, SeenInv
    <3>3. QED
        BY <3>1, <3>2
  <2>3. QED
    BY <2>1, <2>2 DEF LogInPlanOrder
<1>2. QED
    BY <1>1, CommandsAlways, PTL

\* A command that is not parallel has the job's directory to itself, in any plan.
THEOREM AloneStaysAlone == CommandsSpec => []AloneIsAlone
<1>1. CommandsInv => AloneIsAlone
  <2> SUFFICES ASSUME CommandsInv, NEW n \in Are("running"), ~planned[n], NEW k \in Commands \ {n}
               PROVE  k \in (IF k < n THEN Settled ELSE Are("waiting"))
    BY DEF AloneIsAlone
  <2>1. n \in Commands /\ command[n] = "running" /\ generator \in {"wait", "gather"}
    BY DEF Are, CommandsInv, BegunInv
  <2>2. lo \in Nat /\ hi \in Nat /\ at \in Nat /\ Commands = 1..Len(planned) /\ Len(planned) \in Nat
    BY PlanFacts DEF CommandsInv
  <2>3. lo <= n /\ n < hi /\ n \in Batch
    BY <2>1, <2>2 DEF CommandsInv, BegunInv, Over, Returned, Batch
  <2>4. ~SideBySide
    BY <2>3 DEF CommandsInv, BatchInv
  <2>5. n = at
    BY <2>1, <2>2, <2>4 DEF CommandsInv, BegunInv, Over, Returned
  <2>6. IF k < n THEN Over(k) ELSE command[k] = "waiting"
    BY <2>2, <2>4, <2>5 DEF CommandsInv, BegunInv
  <2>7. QED
    BY <2>6 DEF Settled, Are, Over, Returned
<1>2. QED
    BY <1>1, CommandsAlways, PTL

\* However the generator ends, by a stop, an exception or the end of the plan, no command of
\* any batch is left running or queued, and none of a later batch was begun.
THEOREM NothingStaysRunning == CommandsSpec => []NothingLeftRunning
<1>1. CommandsInv => NothingLeftRunning
    BY DEF CommandsInv, BegunInv, NothingLeftRunning, Are
<1>2. QED
    BY <1>1, CommandsAlways, PTL

=============================================================================
