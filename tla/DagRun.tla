------------------------------- MODULE DagRun -------------------------------
(***************************************************************************)
(* What Scheduler.run promises about a run of a job graph, with none of    *)
(* its queues: a job starts at most once, after every dependency           *)
(* succeeded, while its resource class has a free slot and the run is      *)
(* open; a run closes with nothing in flight and, unless a failure stopped *)
(* it, only when no job that could still start was left behind.            *)
(***************************************************************************)
EXTENDS Naturals, FiniteSets

CONSTANTS
    Job,          \* the nodes of the job graph
    Deps,         \* Deps[j]: the jobs j depends on
    ClassOf,      \* ClassOf[j]: the resource class of j
    Cap(_)        \* Cap(c): how many jobs of class c may be in flight

VARIABLES
    status,       \* status[j]: waiting, started, ok, failed or raised
    phase         \* open, stopped or closed

vars == <<status, phase>>

Statuses == {"waiting", "started", "ok", "failed", "raised"}

TypeOK == /\ status \in [Job -> Statuses]
          /\ phase \in {"open", "stopped", "closed"}

Started == {j \in Job : status[j] = "started"}

\* Every dependency of j has succeeded.
DepsOk(j) == \A d \in Deps[j] : status[d] = "ok"

Init == /\ status = [j \in Job |-> "waiting"]
        /\ phase = "open"

Start(j) ==
    /\ phase = "open"
    /\ status[j] = "waiting"
    /\ DepsOk(j)
    /\ Cardinality({k \in Started : ClassOf[k] = ClassOf[j]}) < Cap(ClassOf[j])
    /\ status' = [status EXCEPT ![j] = "started"]
    /\ UNCHANGED phase

End(j) ==
    /\ phase # "closed"
    /\ status[j] = "started"
    /\ \E r \in {"ok", "failed", "raised"} : status' = [status EXCEPT ![j] = r]
    /\ UNCHANGED phase

\* Only a job that did not succeed stops a run.
Stop ==
    /\ phase = "open"
    /\ \E j \in Job : status[j] \in {"failed", "raised"}
    /\ phase' = "stopped"
    /\ UNCHANGED status

Close ==
    /\ phase # "closed"
    /\ Started = {}
    /\ \/ phase = "stopped"
       \/ \A j \in Job : status[j] = "waiting" => ~DepsOk(j)
    /\ phase' = "closed"
    /\ UNCHANGED status

Next == \/ \E j \in Job : Start(j) \/ End(j)
        \/ Stop
        \/ Close

Spec == Init /\ [][Next]_vars
=============================================================================
