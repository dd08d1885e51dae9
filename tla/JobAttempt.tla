----------------------------- MODULE JobAttempt -----------------------------
(***************************************************************************)
(* Scheduler._attempt_job (packages/jobs/scheduler.py): one job, run after *)
(* run.  Each run clears the attempt's work directory, finishes and checks *)
(* the spec, takes the build fingerprint, and either replays the cached    *)
(* outputs or runs the planned commands, checks the output contract and    *)
(* publishes: to the content cache, then file by file to the stable out/   *)
(* directory every downstream job reads.  The process may be killed        *)
(* between any two of these steps; the disk stays and the next run starts  *)
(* from the top.                                                           *)
(*                                                                         *)
(* A fingerprint stands for the inputs it digests.  A directory is the     *)
(* inputs each file in it was built from.  The contract asks only for what *)
(* the commands declare (expected_outputs: an index, one scene, nothing);  *)
(* what else they write is collected, published and cached with it.  The   *)
(* cache is a map here; its files are ContentCache's subject.  The index   *)
(* keeps the job's row.                                                    *)
(***************************************************************************)
EXTENDS Naturals, Sequences, FiniteSets

CONSTANTS
    Fingerprint,     \* the states the inputs of the job can be in
    File,            \* the files its tool writes
    Plan,            \* Plan[f]: what each planned command may write, and what of it it declares
    Blocking,        \* the outputs that carry a blocking finding
    JobSpecs,        \* the specs the job may have: transient_ok and exit_advisory
    MaxRuns,         \* bound: how many runs
    None

ASSUME PlanAssumption ==
    /\ None \notin Fingerprint
    /\ Plan \in [Fingerprint -> Seq([writes : SUBSET File, declares : SUBSET File])]
    /\ Blocking \subseteq [File -> Fingerprint \cup {None}]
    /\ JobSpecs \subseteq [transient_ok : BOOLEAN, exit_advisory : BOOLEAN]
    /\ MaxRuns \in Nat

MAX_TRANSIENT_RETRIES == 1

VARIABLES
    job_spec,   \* what the planner wrote for the job
    input,      \* what the inputs are now
    pc,         \* where _attempt_job is; idle between runs
    runs,       \* runs started
    attempt,    \* job.attempt
    status,     \* job.status, in memory
    fp,         \* job.build_fingerprint
    hit,        \* the attempt replays a cache entry
    cmd,        \* the planned command that runs next
    failure,    \* job.failure's class, or None
    cancel,     \* the run's cancel token
    todo,       \* outputs still to be linked into stable
    work,       \* the attempt's work directory
    stable,     \* the job's out/ directory
    cache,      \* fingerprint -> the outputs cached for it, or None
    index,      \* status in the job's row
    before,     \* stable when the run started (history)
    tainted     \* fingerprints whose inputs were edited while a tool read them (history)

memory == <<runs, attempt, status, fp, hit, cmd, failure, cancel, todo>>
disk == <<work, stable, cache, index>>
vars == <<job_spec, input, pc, memory, disk, before, tainted>>

Dir == [File -> Fingerprint \cup {None}]
EmptyDir == [x \in File |-> None]
Present(d) == {x \in File : d[x] # None}

Writes(f) == UNION {Plan[f][i].writes : i \in DOMAIN Plan[f]}
Declares(f) == UNION {Plan[f][i].declares : i \in DOMAIN Plan[f]}

\* What a run of the commands on inputs f may leave in a cleared work directory: all they
\* declare, whatever they like of what else they write, and nothing that is not of f.
Builds(f) ==
    {d \in Dir : /\ \A x \in File : d[x] \in {None, f}
                 /\ Declares(f) \subseteq Present(d) /\ Present(d) \subseteq Writes(f)}

Statuses == {"PLANNED", "RUNNING", "SUCCEEDED", "FAILED", "BLOCKED", "CANCELLED", "SKIPPED_CACHE_HIT"}
Failures == {"input_validation_error", "tool_exit_failure", "timeout", "cancelled",
             "output_contract_error", "validation_blocker"}

TypeOK ==
    /\ job_spec \in JobSpecs
    /\ input \in Fingerprint
    /\ pc \in {"idle", "preflight", "lookup", "run", "contract", "cache", "publish", "prune", "finish"}
    /\ runs \in 0..MaxRuns
    /\ attempt \in 0..(1 + MAX_TRANSIENT_RETRIES)
    /\ status \in Statuses
    /\ fp \in Fingerprint \cup {None}
    /\ hit \in BOOLEAN /\ cancel \in BOOLEAN
    /\ cmd \in Nat
    /\ failure \in Failures \cup {None}
    /\ todo \subseteq File
    /\ work \in Dir /\ stable \in Dir /\ before \in Dir
    /\ cache \in [Fingerprint -> Dir \cup {None}]
    /\ index \in Statuses \cup {None}
    /\ tainted \subseteq Fingerprint
-----------------------------------------------------------------------------
Init ==
    /\ job_spec \in JobSpecs
    /\ input \in Fingerprint
    /\ pc = "idle" /\ runs = 0 /\ attempt = 0 /\ status = "PLANNED" /\ fp = None
    /\ hit = FALSE /\ cmd = 1 /\ failure = None /\ cancel = FALSE /\ todo = {}
    /\ work = EmptyDir /\ stable = EmptyDir
    /\ cache = [f \in Fingerprint |-> None]
    /\ index = None
    /\ before = EmptyDir
    /\ tainted = {}

\* A run plans the job anew and dispatches it: attempt 1, its directory cleared.
Begin ==
    /\ pc = "idle" /\ runs < MaxRuns
    /\ runs' = runs + 1
    /\ attempt' = 1 /\ status' = "PLANNED" /\ fp' = None /\ hit' = FALSE /\ cmd' = 1
    /\ failure' = None /\ cancel' = FALSE /\ todo' = {}
    /\ work' = EmptyDir
    /\ before' = stable
    /\ pc' = "preflight"
    /\ UNCHANGED <<input, stable, cache, index, tainted>>

\* Scheduler._fail: the status follows the failure class, the row follows the status.
Fail(class) ==
    /\ failure' = class
    /\ status' = CASE class = "validation_blocker" -> "BLOCKED"
                   [] class = "cancelled" -> "CANCELLED"
                   [] OTHER -> "FAILED"
    /\ index' = status'
    /\ pc' = "idle"

\* prepare raised or returned no finished spec, or validate_configuration objected.
PreflightFails ==
    /\ pc = "preflight"
    /\ Fail("input_validation_error")
    /\ UNCHANGED <<input, runs, attempt, fp, hit, cmd, cancel, todo, work, stable, cache, before, tainted>>

\* The fingerprint digests the inputs as they are now.
Fingerprinted ==
    /\ pc = "preflight"
    /\ fp' = input
    /\ pc' = "lookup"
    /\ UNCHANGED <<input, runs, attempt, status, hit, cmd, failure, cancel, todo, disk, before, tainted>>

\* materialize() into the cleared work directory; the row says so before out/ does.
CacheHit ==
    /\ pc = "lookup" /\ cache[fp] # None
    /\ work' = cache[fp]
    /\ hit' = TRUE
    /\ status' = "SKIPPED_CACHE_HIT" /\ index' = "SKIPPED_CACHE_HIT"
    /\ todo' = Present(cache[fp])
    /\ pc' = "publish"
    /\ UNCHANGED <<input, runs, attempt, fp, cmd, failure, cancel, stable, cache, before, tainted>>

\* A command builds its files from the inputs as it finds them; it may leave some out.
Written(got) == [x \in File |-> IF x \in got THEN input ELSE work[x]]

After(i) == IF i < Len(Plan[fp]) THEN "run" ELSE "contract"

\* The command is over, good or not: it wrote what it wrote, and the next one is due.
CommandOver ==
    /\ \E got \in SUBSET Plan[fp][cmd].writes : work' = Written(got)
    /\ cmd' = cmd + 1
    /\ pc' = After(cmd)

CacheMiss ==
    /\ pc = "lookup" /\ cache[fp] = None
    /\ status' = "RUNNING" /\ index' = "RUNNING"
    /\ cmd' = 1
    /\ pc' = After(0)
    /\ UNCHANGED <<input, runs, attempt, fp, hit, failure, cancel, todo, work, stable, cache, before, tainted>>

CommandOk ==
    /\ pc = "run" /\ cmd \in DOMAIN Plan[fp]
    /\ CommandOver
    /\ UNCHANGED <<input, runs, attempt, status, fp, hit, failure, cancel, todo, stable, cache, index, before, tainted>>

CommandCancelled ==
    /\ pc = "run" /\ cmd \in DOMAIN Plan[fp] /\ cancel
    /\ Fail("cancelled")
    /\ UNCHANGED <<input, runs, attempt, fp, hit, cmd, cancel, todo, work, stable, cache, before, tainted>>

CommandFailedUncounted(class) ==
    /\ pc = "run" /\ cmd \in DOMAIN Plan[fp]
    /\ class \in {"tool_exit_failure", "timeout"}
    /\ IF attempt <= MAX_TRANSIENT_RETRIES /\ job_spec.transient_ok
       THEN /\ work' = EmptyDir
            /\ pc' = "preflight"
            /\ UNCHANGED <<attempt, status, cmd, failure, index>>
       ELSE /\ Fail(class)
            /\ UNCHANGED <<attempt, cmd, work>>
    /\ UNCHANGED <<input, runs, fp, hit, cancel, todo, stable, cache, before, tainted>>

\* A nonzero exit, by the tool itself or by the timeout.  Both classes are
\* transient-eligible; the second attempt has a directory of its own.
CommandFailed(class) ==
    /\ pc = "run" /\ cmd \in DOMAIN Plan[fp]
    /\ class \in {"tool_exit_failure", "timeout"}
    /\ IF attempt <= MAX_TRANSIENT_RETRIES /\ job_spec.transient_ok
       THEN /\ attempt' = attempt + 1
            /\ work' = EmptyDir
            /\ pc' = "preflight"
            /\ UNCHANGED <<status, cmd, failure, index>>
       ELSE IF class = "timeout" \/ ~job_spec.exit_advisory
       THEN /\ Fail(class)
            /\ UNCHANGED <<attempt, cmd, work>>
       ELSE \* an evaluator's exit code is its verdict: go on to the contract
            /\ CommandOver
            /\ UNCHANGED <<attempt, status, failure, index>>
    /\ UNCHANGED <<input, runs, fp, hit, cancel, todo, stable, cache, before, tainted>>

MissingOfTheFirst ==
    IF Plan[fp] = <<>> THEN {} ELSE Head(Plan[fp]).declares \ Present(work)

\* Every planned command's declared outputs must be there; nothing else is asked for.
Missing == Declares(fp) \ Present(work)

ContractFailsPublished ==
    /\ pc = "contract" /\ Missing # {}
    /\ Fail("output_contract_error")
    /\ stable' = work
    /\ UNCHANGED <<input, runs, attempt, fp, hit, cmd, cancel, todo, work, cache, before, tainted>>

ContractFails ==
    /\ pc = "contract" /\ Missing # {}
    /\ Fail("output_contract_error")
    /\ UNCHANGED <<input, runs, attempt, fp, hit, cmd, cancel, todo, work, stable, cache, before, tainted>>

\* The whole work directory is collected, declared or not, and recorded.
ContractHolds ==
    /\ pc = "contract" /\ Missing = {}
    /\ todo' = Present(work)
    /\ pc' = "cache"
    /\ UNCHANGED <<input, runs, attempt, status, fp, hit, cmd, failure, cancel, disk, before, tainted>>

\* Published whatever the findings say: a blocked build is replayed as blocked.
CachePublish ==
    /\ pc = "cache"
    /\ cache' = [cache EXCEPT ![fp] = work]
    /\ pc' = "publish"
    /\ UNCHANGED <<input, memory, work, stable, index, before, tainted>>

\* _publish_stable: link the outputs one by one, then remove every other file.
PublishFile ==
    /\ pc = "publish" /\ todo # {}
    /\ \E x \in todo : /\ stable' = [stable EXCEPT ![x] = work[x]]
                       /\ todo' = todo \ {x}
    /\ UNCHANGED <<input, pc, runs, attempt, status, fp, hit, cmd, failure, cancel, work, cache, index, before, tainted>>

PublishDone ==
    /\ pc = "publish" /\ todo = {}
    /\ pc' = "prune"
    /\ UNCHANGED <<input, memory, disk, before, tainted>>

PruneNothing ==
    /\ pc = "prune"
    /\ pc' = "finish"
    /\ UNCHANGED <<input, memory, disk, before, tainted>>

PruneStable ==
    /\ pc = "prune"
    /\ stable' = [x \in File |-> IF work[x] = None THEN None ELSE stable[x]]
    /\ pc' = "finish"
    /\ UNCHANGED <<input, memory, work, cache, index, before, tainted>>

HasBlockerWhenBuilt == ~hit /\ work \in Blocking

\* The findings are read off the outputs, cached or fresh.
HasBlocker == work \in Blocking

FinishBlocked ==
    /\ pc = "finish" /\ HasBlocker
    /\ Fail("validation_blocker")
    /\ UNCHANGED <<input, runs, attempt, fp, hit, cmd, cancel, todo, work, stable, cache, before, tainted>>

FinishOk ==
    /\ pc = "finish" /\ ~HasBlocker
    /\ status' = IF hit THEN status ELSE "SUCCEEDED"
    /\ index' = status'
    /\ pc' = "idle"
    /\ UNCHANGED <<input, runs, attempt, fp, hit, cmd, failure, cancel, todo, work, stable, cache, before, tainted>>

(* The world around the job.                                               *)

\* The process is killed, or a step raises: memory is lost, the disk stays.
Crash ==
    /\ pc # "idle"
    /\ pc' = "idle" /\ status' = "PLANNED" /\ fp' = None /\ failure' = None
    /\ UNCHANGED <<input, runs, attempt, hit, cmd, cancel, todo, disk, before, tainted>>

Cancel ==
    /\ pc # "idle" /\ ~cancel
    /\ cancel' = TRUE
    /\ UNCHANGED <<input, pc, runs, attempt, status, fp, hit, cmd, failure, todo, disk, before, tainted>>

\* Inputs are edited between runs, or under the tool: what it then builds is not what
\* the fingerprint says, and nothing can tell.
Edit ==
    /\ pc \in {"idle", "run"}
    /\ \E f \in Fingerprint \ {input} : input' = f
    /\ tainted' = IF pc = "run" THEN tainted \cup {fp} ELSE tainted
    /\ UNCHANGED <<pc, memory, disk, before>>

\* `cache forget`, or --force before a run.
Forget ==
    /\ pc = "idle"
    /\ \E f \in Fingerprint : cache[f] # None /\ cache' = [cache EXCEPT ![f] = None]
    /\ UNCHANGED <<input, pc, memory, work, stable, index, before, tainted>>

AttemptStep ==
    \/ PreflightFails \/ Fingerprinted \/ CacheHit \/ CacheMiss
    \/ CommandOk \/ CommandCancelled \/ CommandFailed("tool_exit_failure") \/ CommandFailed("timeout")
    \/ ContractFails \/ ContractHolds \/ CachePublish \/ PublishFile \/ PublishDone \/ PruneStable
    \/ FinishBlocked \/ FinishOk

Next == (Begin \/ AttemptStep \/ Crash \/ Cancel \/ Edit \/ Forget) /\ UNCHANGED job_spec

Spec == Init /\ [][Next]_vars

\* The thread that runs the attempt keeps running; commands time out.
FairSpec == Spec /\ WF_vars(AttemptStep /\ UNCHANGED job_spec)
-----------------------------------------------------------------------------
Ended(s) == pc = "idle" /\ status \in s

\* A job that ended with outputs, by building or by replaying, leaves in out/ what one run
\* of its commands left, and no mixture: exactly what is cached under its fingerprint, so
\* nothing of an earlier build even of the same inputs, nothing of a run killed while it
\* published; and all of it built from the inputs it was fingerprinted with, unless those
\* were edited under the tool.
SuccessIsExact ==
    Ended({"SUCCEEDED", "SKIPPED_CACHE_HIT", "BLOCKED"}) =>
        /\ cache[fp] \in {None, stable}
        /\ stable \in Builds(fp) \/ fp \in tainted

\* A job that stopped before it had outputs does not touch out/.
FailureLeavesOut ==
    Ended({"FAILED", "CANCELLED"}) => stable = before

\* A replayed build is graded as the build was, by what it published: nothing passes from
\* the cache that was blocked when it was built, and nothing is blocked that was not.
ReplayGradesAsBuilt ==
    /\ Ended({"SUCCEEDED", "SKIPPED_CACHE_HIT"}) => stable \notin Blocking
    /\ Ended({"BLOCKED"}) => stable \in Blocking

\* An entry holds what a run of all the commands on the inputs it is filed under left,
\* with every declared file of every command, whatever failed, timed out, was cancelled or
\* was killed before.  That is all the contract gives: of what the commands do not declare,
\* an entry may lack a part for good.  Only an edit of the inputs under the tool can make
\* it lie about them.
CacheHonest ==
    \A f \in Fingerprint \ tainted : cache[f] # None => cache[f] \in Builds(f)

\* A run that is not killed ends.
EveryRunEnds == pc # "idle" ~> pc = "idle"

=============================================================================
