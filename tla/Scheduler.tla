----------------------------- MODULE Scheduler ------------------------------
(***************************************************************************)
(* Scheduler.run (packages/jobs/scheduler.py): the main thread that walks  *)
(* a job graph, and the thread pool that executes the jobs it submits.     *)
(*                                                                         *)
(* The main thread loops: dispatch every ready job that fits under its     *)
(* class cap, wait until some future is done, collect the done ones one by *)
(* one.  A failed job that carries a candidate eliminates the candidate;   *)
(* a failed job without one stops dispatch; an exception leaves the loop   *)
(* and the pool's exit waits for what is in flight.                        *)
(*                                                                         *)
(* Job ids are abstract, so the orders the code derives from sorted ids    *)
(* (the first ready queue, the jobs one completion makes ready, the set    *)
(* wait() returns) are any order here.  What a job does is JobAttempt's    *)
(* subject: here it ends ok, failed or with an exception.                  *)
(***************************************************************************)
EXTENDS Naturals, Sequences, FiniteSets, Functions

CONSTANTS
    Job,          \* the nodes of the job graph
    Class,        \* resource classes
    Candidate,    \* candidate ids
    Deps,         \* Deps[j]: the jobs j depends on
    ClassOf,      \* ClassOf[j]: the resource class of j
    CandidateOf,  \* CandidateOf[j]: the candidate of j, or None
    Concurrency,  \* the configured widths; a class may be missing from it
    None          \* Python's None

\* The graph is the planner's: finite, and every dependency is a node
\* (JobGraph.topological_order raises on a dangling one).  A width below 1 is
\* refused (concurrency_overrides), a class without a width gets 1.
ASSUME GraphAssumption ==
    /\ IsFiniteSet(Job)
    /\ None \notin Job
    /\ None \notin Candidate
    /\ None \notin {"ok", "failed"}
    /\ Deps \in [Job -> SUBSET Job]
    /\ ClassOf \in [Job -> Class]
    /\ CandidateOf \in [Job -> Candidate \cup {None}]

\* It goes round nowhere: run() orders it first, and topological_order raises on a cycle.
ASSUME AcyclicAssumption ==
    \A jobs \in SUBSET Job : jobs # {} => \E j \in jobs : Deps[j] \cap jobs = {}

ASSUME WidthAssumption ==
    /\ DOMAIN Concurrency \subseteq Class
    /\ \A c \in DOMAIN Concurrency : Concurrency[c] \in Nat /\ Concurrency[c] >= 1

\* self.concurrency.get(cls, 1)
Cap(c) == IF c \in DOMAIN Concurrency THEN Concurrency[c] ELSE 1

\* max_workers = max(1, sum(self.concurrency.values()))
PoolSize == LET sum == FoldFunction(+, 0, Concurrency)
            IN  IF sum < 1 THEN 1 ELSE sum

VARIABLES
    pc,           \* where the main thread is in run()
    ready,        \* deque of jobs whose dependencies all succeeded
    deferred,     \* ready jobs this dispatch round found no slot for
    remaining,    \* remaining[j]: dependencies of j not yet collected as ok
    completed,    \* jobs collected as succeeded
    futures,      \* jobs submitted and not yet popped
    batch,        \* the done set of the last wait(), still to be handled
    running,      \* running[c]: the Counter the caps are compared with
    stop,         \* a mission-level job failed
    worker,       \* worker[j]: what the thread pool did with j
    outcome,      \* outcome[j]: the outcome appended to the summary, or None
    blocked,      \* summary.blocked_job
    eliminated,   \* summary.eliminated_candidates
    reason        \* summary.not_run_reason, None for a job that ran

main == <<pc, ready, deferred, remaining, completed, futures, batch, running, stop>>
summary == <<outcome, blocked, eliminated, reason>>
vars == <<main, worker, summary>>

\* The orders in which the members of a finite set may enter a queue.
Orderings(S) == Bijection(1..Cardinality(S), S)

Results == {"ok", "failed", "raised"}
Finished == {j \in futures : worker[j] \in Results}

TypeOK ==
    /\ pc \in {"dispatch", "wait", "collect", "finish", "unwind", "done", "aborted"}
    /\ ready \in Seq(Job)
    /\ deferred \in Seq(Job)
    /\ remaining \in [Job -> SUBSET Job]
    /\ completed \subseteq Job
    /\ futures \subseteq Job
    /\ batch \subseteq Job
    /\ running \in [Class -> Nat]
    /\ stop \in BOOLEAN
    /\ worker \in [Job -> {"idle", "queued", "working"} \cup Results]
    /\ outcome \in [Job -> {"ok", "failed", None}]
    /\ blocked \in Job \cup {None}
    /\ eliminated \in [Candidate -> Job \cup {None}]
    /\ reason \in [Job -> {"eliminated", "stopped", "dependency", None}]
-----------------------------------------------------------------------------
Init ==
    /\ pc = "dispatch"
    /\ ready \in Orderings({j \in Job : Deps[j] = {}})
    /\ deferred = <<>>
    /\ remaining = Deps
    /\ completed = {}
    /\ futures = {}
    /\ batch = {}
    /\ running = [c \in Class |-> 0]
    /\ stop = FALSE
    /\ worker = [j \in Job |-> "idle"]
    /\ outcome = [j \in Job |-> None]
    /\ blocked = None
    /\ eliminated = [c \in Candidate |-> None]
    /\ reason = [j \in Job |-> None]

\* The inner while of a dispatch round, one popleft() at a time.
Submit ==
    /\ pc = "dispatch" /\ ~stop /\ ready # <<>>
    /\ LET j == Head(ready)
           c == ClassOf[j]
       IN  /\ running[c] < Cap(c)
           /\ running' = [running EXCEPT ![c] = @ + 1]
           /\ futures' = futures \cup {j}
           /\ worker' = [worker EXCEPT ![j] = "queued"]
    /\ ready' = Tail(ready)
    /\ UNCHANGED <<pc, deferred, remaining, completed, batch, stop, summary>>

Defer ==
    /\ pc = "dispatch" /\ ~stop /\ ready # <<>>
    /\ LET j == Head(ready)
       IN  /\ ~(running[ClassOf[j]] < Cap(ClassOf[j]))
           /\ deferred' = Append(deferred, j)
    /\ ready' = Tail(ready)
    /\ UNCHANGED <<pc, remaining, completed, futures, batch, running, stop, worker, summary>>

\* Mutants of EndDispatch: the deferred jobs are not put back; no break when
\* nothing is in flight.
EndDispatchDropsDeferred ==
    /\ pc = "dispatch" /\ (stop \/ ready = <<>>)
    /\ ready' = ready
    /\ deferred' = <<>>
    /\ pc' = IF futures = {} THEN "finish" ELSE "wait"
    /\ UNCHANGED <<remaining, completed, futures, batch, running, stop, worker, summary>>

EndDispatchNoBreak ==
    /\ pc = "dispatch" /\ (stop \/ ready = <<>>)
    /\ ready' = IF stop THEN ready ELSE deferred
    /\ deferred' = <<>>
    /\ pc' = IF futures # {} THEN "wait" ELSE IF ready' = <<>> THEN "finish" ELSE "dispatch"
    /\ UNCHANGED <<remaining, completed, futures, batch, running, stop, worker, summary>>

\* The round is over: ready = deferred, unless dispatch was skipped; with no
\* future in flight the loop breaks.
EndDispatch ==
    /\ pc = "dispatch" /\ (stop \/ ready = <<>>)
    /\ ready' = IF stop THEN ready ELSE deferred
    /\ deferred' = <<>>
    /\ pc' = IF futures = {} THEN "finish" ELSE "wait"
    /\ UNCHANGED <<remaining, completed, futures, batch, running, stop, worker, summary>>

\* wait(futures, FIRST_COMPLETED) returns every future done by then.
Wait ==
    /\ pc = "wait" /\ Finished # {}
    /\ batch' = Finished
    /\ pc' = "collect"
    /\ UNCHANGED <<ready, deferred, remaining, completed, futures, running, stop, worker, summary>>

\* futures.pop(fut); running[cls] -= 1
Pop(j) ==
    /\ pc = "collect" /\ j \in batch
    /\ batch' = batch \ {j}
    /\ futures' = futures \ {j}
    /\ running' = [running EXCEPT ![ClassOf[j]] = @ - 1]

\* The jobs the success of j leaves without a remaining dependency, and which
\* are not queued, in flight or complete already.
NewlyReady(j) ==
    {k \in Job : /\ j \in remaining[k]
                 /\ remaining[k] = {j}
                 /\ k \notin completed \cup {j}
                 /\ k \notin Range(ready)
                 /\ k \notin futures \ {j}}

AfterCollect(j) == pc' = IF batch = {j} THEN "dispatch" ELSE "collect"

CollectOk(j) ==
    /\ Pop(j) /\ worker[j] = "ok"
    /\ outcome' = [outcome EXCEPT ![j] = "ok"]
    /\ completed' = completed \cup {j}
    /\ remaining' = [k \in Job |-> remaining[k] \ {j}]
    /\ \E s \in Orderings(NewlyReady(j)) : ready' = ready \o s
    /\ AfterCollect(j)
    /\ UNCHANGED <<deferred, stop, worker, blocked, eliminated, reason>>

\* Mutants of CollectCandidateFailure: every failure stops the run; a later
\* failure renames the job the candidate was eliminated at.
CollectCandidateFailureStops(j) ==
    /\ Pop(j) /\ worker[j] = "failed" /\ CandidateOf[j] # None
    /\ outcome' = [outcome EXCEPT ![j] = "failed"]
    /\ eliminated' = [eliminated EXCEPT ![CandidateOf[j]] = IF @ = None THEN j ELSE @]
    /\ stop' = TRUE
    /\ AfterCollect(j)
    /\ UNCHANGED <<ready, deferred, remaining, completed, worker, blocked, reason>>

CollectCandidateFailure(j) ==
    /\ Pop(j) /\ worker[j] = "failed" /\ CandidateOf[j] # None
    /\ outcome' = [outcome EXCEPT ![j] = "failed"]
    /\ eliminated' = [eliminated EXCEPT ![CandidateOf[j]] = IF @ = None THEN j ELSE @]
    /\ AfterCollect(j)
    /\ UNCHANGED <<ready, deferred, remaining, completed, stop, worker, blocked, reason>>

CollectMissionFailure(j) ==
    /\ Pop(j) /\ worker[j] = "failed" /\ CandidateOf[j] = None
    /\ outcome' = [outcome EXCEPT ![j] = "failed"]
    /\ blocked' = IF blocked = None THEN j ELSE blocked
    /\ stop' = TRUE
    /\ AfterCollect(j)
    /\ UNCHANGED <<ready, deferred, remaining, completed, worker, eliminated, reason>>

\* fut.result() re-raises: the run is left through the pool's __exit__.
CollectRaise(j) ==
    /\ Pop(j) /\ worker[j] = "raised"
    /\ pc' = "unwind"
    /\ UNCHANGED <<ready, deferred, remaining, completed, stop, worker, summary>>

\* ThreadPoolExecutor.__exit__: shutdown(wait=True).
Unwind ==
    /\ pc = "unwind"
    /\ \A j \in Job : worker[j] \notin {"queued", "working"}
    /\ pc' = "aborted"
    /\ UNCHANGED <<ready, deferred, remaining, completed, futures, batch, running, stop, worker, summary>>

NotRun == {j \in Job : outcome[j] = None}

\* Why each job without an outcome never ran, in the code's order of preference.
NotRunReason(j) ==
    IF CandidateOf[j] # None /\ eliminated[CandidateOf[j]] # None THEN "eliminated"
    ELSE IF blocked # None THEN "stopped" ELSE "dependency"

Finish ==
    /\ pc = "finish"
    /\ reason' = [j \in Job |-> IF j \in NotRun THEN NotRunReason(j) ELSE None]
    /\ pc' = "done"
    /\ UNCHANGED <<ready, deferred, remaining, completed, futures, batch, running, stop, worker,
                   outcome, blocked, eliminated>>

\* A pool thread takes a submitted job, and ends it.
WorkerStart(j) ==
    /\ worker[j] = "queued"
    /\ Cardinality({k \in Job : worker[k] = "working"}) < PoolSize
    /\ worker' = [worker EXCEPT ![j] = "working"]
    /\ UNCHANGED <<main, summary>>

WorkerEnd(j) ==
    /\ worker[j] = "working"
    /\ \E r \in Results : worker' = [worker EXCEPT ![j] = r]
    /\ UNCHANGED <<main, summary>>

MainStep ==
    \/ Submit \/ Defer \/ EndDispatch \/ Wait \/ Unwind \/ Finish
    \/ \E j \in Job : \/ CollectOk(j) \/ CollectCandidateFailure(j)
                      \/ CollectMissionFailure(j) \/ CollectRaise(j)

\* run() returned or raised.
Terminated == pc \in {"done", "aborted"} /\ UNCHANGED vars

Next == MainStep \/ (\E j \in Job : WorkerStart(j) \/ WorkerEnd(j)) \/ Terminated

Spec == Init /\ [][Next]_vars

\* The main thread keeps running; every command a job runs has a timeout, so
\* every job ends, and a free pool thread takes a queued job.
FairSpec ==
    /\ Spec
    /\ WF_vars(MainStep)
    /\ \A j \in Job : WF_vars(WorkerStart(j)) /\ WF_vars(WorkerEnd(j))
-----------------------------------------------------------------------------
(* Safety.                                                                 *)

\* The jobs in flight of a class, counted on the pool's side, never exceed its
\* cap: the Counter the dispatch loop compares is decremented exactly once per
\* future, whatever way the future ended.
CapRespected ==
    \A c \in Class :
        Cardinality({j \in Job : /\ worker[j] \in {"queued", "working"}
                                 /\ ClassOf[j] = c}) <= Cap(c)

\* A job was handed to the pool only after every dependency ended ok there:
\* no tool reads the out/ directory of a job that failed or never ran.
DepsSucceeded ==
    \A j \in Job : worker[j] # "idle" => \A d \in Deps[j] : worker[d] = "ok"

\* The jobs from which j is reachable along dependencies, j excluded.
Ancestors(j) ==
    LET step(S) == S \cup UNION {Deps[k] : k \in S}
        f[n \in 0..Cardinality(Job)] == IF n = 0 THEN Deps[j] ELSE step(f[n - 1])
    IN  f[Cardinality(Job)]

\* Failure is scoped: a run that was not stopped leaves out exactly the jobs
\* downstream of a failed one, in whatever order the failures were collected.
FailureIsScoped ==
    (pc = "done" /\ blocked = None) =>
        \A j \in Job : j \in NotRun <=> \E a \in Ancestors(j) : outcome[a] = "failed"

\* run() neither returns nor raises while a pool thread still works on a job:
\* nothing writes under jobs/ behind the caller's back.
NothingInFlightAtEnd ==
    pc \in {"done", "aborted"} => \A j \in Job : worker[j] \notin {"queued", "working"}

(* Action properties.                                                      *)

\* Once a mission-level failure or an exception was collected no further job
\* reaches the pool: what is in flight drains, nothing starts.
NoDispatchAfterStop ==
    [][(stop \/ blocked # None \/ pc \in {"unwind", "aborted"}) => futures' \subseteq futures]_vars

(* Liveness.                                                               *)

\* Every run ends, under any caps of at least 1: no ready job is forgotten by
\* the deferral, and a drain ends.
Terminates == <>(pc \in {"done", "aborted"})

(* Refinement.                                                             *)
abstractStatus ==
    [j \in Job |-> CASE worker[j] = "idle" -> "waiting"
                     [] worker[j] \in {"queued", "working"} -> "started"
                     [] OTHER -> worker[j]]

abstractPhase ==
    IF pc \in {"done", "aborted"} THEN "closed"
    ELSE IF stop \/ pc = "unwind" THEN "stopped" ELSE "open"

Abstract == INSTANCE DagRun WITH status <- abstractStatus, phase <- abstractPhase

\* The queues, the deferral and the counters implement the abstract run.
ImplementsDagRun == Abstract!Spec
-----------------------------------------------------------------------------
(* What not_run_reason is said to be (RunSummary, "why it never ran").      *)

=============================================================================
