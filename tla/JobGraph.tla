------------------------------- MODULE JobGraph -------------------------------
(***************************************************************************)
(* JobGraph.topological_order (packages/pipeline/graph.py): Kahn's         *)
(* algorithm over a graph of jobs, each with the list of those it depends  *)
(* on.  A list may name a job twice: it is counted by its length and paid  *)
(* off one dependency at a time.                                           *)
(*                                                                         *)
(* The queue of ready jobs is a sequence of batches, each taken in the     *)
(* order of the job ids.                                                   *)
(***************************************************************************)
EXTENDS Integers, Sequences, FiniteSets

CONSTANTS
    Graphs,        \* the graphs to order: job -> the list of jobs it depends on
    Before(_, _)   \* the order of the job ids

Elements(seq) == {seq[i] : i \in 1..Len(seq)}

\* A finite dictionary of jobs and the lists they come with.
IsGraph(lists) ==
    /\ IsFiniteSet(DOMAIN lists)
    /\ \A j \in DOMAIN lists : lists[j] \in Seq(Elements(lists[j]))

ASSUME GraphsAssumption == \A lists \in Graphs : IsGraph(lists)

VARIABLES
    graph,
    indegree,      \* job -> dependencies not yet paid off
    ready,         \* the batches of ready jobs, none empty
    order,         \* the jobs ordered so far
    verdict        \* counting, ordering, ordered, or what the error says: unknown, cycle

graphVars == <<graph, indegree, ready, order, verdict>>

Jobs == DOMAIN graph
Done == Elements(order)

\* Mutant of Dependents: a job is told of the dependency it names first.
DependentsFirst(job) == {j \in Jobs : graph[j] # <<>> /\ Head(graph[j]) = job}

Dependents(job) == {j \in Jobs : job \in Elements(graph[j])}

Batch(jobs) == IF jobs = {} THEN <<>> ELSE <<jobs>>

Uncounted ==
    /\ indegree = [j \in Jobs |-> 0]
    /\ ready = <<>> /\ order = <<>>
    /\ verdict = "counting"

\* A dependency that is no job is an error before anything is ordered.
Count ==
    /\ verdict = "counting"
    /\ IF \A j \in Jobs : Elements(graph[j]) \subseteq Jobs
       THEN /\ indegree' = [j \in Jobs |-> Len(graph[j])]
            /\ ready' = Batch({j \in Jobs : graph[j] = <<>>})
            /\ verdict' = "ordering"
       ELSE /\ verdict' = "unknown"
            /\ UNCHANGED <<indegree, ready>>
    /\ UNCHANGED <<graph, order>>

\* Mutant of Paid: a job is ready with its first dependency.
PaidByOne(job) == [j \in Jobs |-> IF j \in Dependents(job) THEN 0 ELSE indegree[j]]

\* The dependents of a job, once each, whatever their lists say.
Paid(job) == [j \in Jobs |-> indegree[j] - (IF j \in Dependents(job) THEN 1 ELSE 0)]

Take(job) ==
    LET rest == Head(ready) \ {job} IN
    /\ verdict = "ordering" /\ ready # <<>>
    /\ job \in Head(ready) /\ \A other \in rest : Before(job, other)
    /\ order' = Append(order, job)
    /\ indegree' = Paid(job)
    /\ ready' = Batch(rest) \o Tail(ready)
                    \o Batch({j \in Dependents(job) : indegree'[j] = 0})
    /\ UNCHANGED <<graph, verdict>>

Stop ==
    /\ verdict = "ordering" /\ ready = <<>>
    /\ verdict' = IF Len(order) = Cardinality(Jobs) THEN "ordered" ELSE "cycle"
    /\ UNCHANGED <<graph, indegree, ready, order>>

GraphNext == Count \/ (\E job \in Jobs : Take(job)) \/ Stop

------------------------------------------------------------------------------
\* A job is ordered once, after everything it depends on (topological_order, which the
\* plan's report lists the jobs by).
OrderRespectsDeps ==
    \A i \in 1..Len(order) :
        /\ order[i] \in Jobs
        /\ Elements(graph[order[i]]) \subseteq {order[k] : k \in 1..(i - 1)}
        /\ \A k \in 1..(i - 1) : order[k] # order[i]

\* No list names a job twice.
Single(lists) == \A j \in DOMAIN lists : Cardinality(Elements(lists[j])) = Len(lists[j])

\* What cannot be ordered: jobs each waiting for another of them.
Stuck(lists, jobs) ==
    /\ jobs # {} /\ jobs \subseteq DOMAIN lists
    /\ \A j \in jobs : \E d \in jobs : d \in Elements(lists[j])

\* The errors are about the graph: a cycle is there to be found, unless a list named a
\* job twice; and what is returned is every job ("cycle detected in job graph").
RefusesOnlyCycles ==
    /\ verdict = "cycle" /\ Single(graph) => Stuck(graph, Jobs \ Done)
    /\ verdict = "ordered" => Done = Jobs
==============================================================================
