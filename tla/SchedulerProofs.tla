-------------------------- MODULE SchedulerProofs ---------------------------
(***************************************************************************)
(* Scheduler is correct for every job graph and every choice of widths:    *)
(* the inductive invariant, the safety properties it implies, and the      *)
(* refinement of DagRun.                                                   *)
(***************************************************************************)
EXTENDS Scheduler, TLAPS, FiniteSetTheorems, WellFoundedInduction

(***************************************************************************)
(* Queues: what Head/Tail, Append and an appended ordering do to the set   *)
(* of queued jobs.                                                         *)
(***************************************************************************)
LEMMA PopFacts ==
    ASSUME NEW S, NEW s \in Seq(S), s # <<>>
    PROVE  /\ Head(s) \in S
           /\ Tail(s) \in Seq(S)
           /\ Range(s) = {Head(s)} \cup Range(Tail(s))
           /\ IsInjective(s) => Head(s) \notin Range(Tail(s)) /\ IsInjective(Tail(s))
<1>1. Len(s) \in Nat /\ Len(s) >= 1 /\ DOMAIN s = 1..Len(s)
  OBVIOUS
<1>2. Head(s) = s[1] /\ s[1] \in S
  BY <1>1
<1>3. Tail(s) \in Seq(S) /\ DOMAIN Tail(s) = 1..(Len(s) - 1)
  BY <1>1
<1>4. \A i \in 1..(Len(s) - 1) : Tail(s)[i] = s[i+1] /\ i + 1 \in DOMAIN s /\ i + 1 # 1
  BY <1>1
<1>5. \A i \in DOMAIN s : i = 1 \/ (i - 1 \in DOMAIN Tail(s) /\ Tail(s)[i - 1] = s[i])
  BY <1>1, <1>3, <1>4
<1>6. Range(s) = {Head(s)} \cup Range(Tail(s))
  <2>1. Range(s) \subseteq {Head(s)} \cup Range(Tail(s))
    BY <1>2, <1>5 DEF Range
  <2>2. {Head(s)} \cup Range(Tail(s)) \subseteq Range(s)
    BY <1>1, <1>2, <1>3, <1>4 DEF Range
  <2> QED BY <2>1, <2>2
<1>7. IsInjective(s) => Head(s) \notin Range(Tail(s)) /\ IsInjective(Tail(s))
  BY <1>1, <1>2, <1>3, <1>4 DEF Range, IsInjective
<1> QED BY <1>2, <1>3, <1>6, <1>7

LEMMA AppendFacts ==
    ASSUME NEW S, NEW s \in Seq(S), NEW x \in S
    PROVE  /\ Append(s, x) \in Seq(S)
           /\ Append(s, x) # <<>>
           /\ Range(Append(s, x)) = Range(s) \cup {x}
           /\ (IsInjective(s) /\ x \notin Range(s)) => IsInjective(Append(s, x))
<1>1. /\ Append(s, x) \in Seq(S) /\ Len(Append(s, x)) = Len(s) + 1
      /\ Len(s) \in Nat /\ DOMAIN s = 1..Len(s)
      /\ DOMAIN Append(s, x) = 1..(Len(s) + 1)
  OBVIOUS
<1>2. /\ \A i \in 1..Len(s) : Append(s, x)[i] = s[i]
      /\ Append(s, x)[Len(s) + 1] = x
  OBVIOUS
<1>3. Range(Append(s, x)) = Range(s) \cup {x}
  <2>1. \A i \in 1..(Len(s) + 1) : i \in 1..Len(s) \/ i = Len(s) + 1
    BY <1>1
  <2>2. Range(Append(s, x)) \subseteq Range(s) \cup {x}
    BY <1>1, <1>2, <2>1 DEF Range
  <2>3. Range(s) \cup {x} \subseteq Range(Append(s, x))
    BY <1>1, <1>2 DEF Range
  <2> QED BY <2>2, <2>3
<1>4. (IsInjective(s) /\ x \notin Range(s)) => IsInjective(Append(s, x))
  BY <1>1, <1>2 DEF Range, IsInjective
<1> QED BY <1>1, <1>3, <1>4

LEMMA OrderingFacts ==
    ASSUME NEW S, NEW N \in SUBSET S, IsFiniteSet(N), NEW t \in Orderings(N)
    PROVE  t \in Seq(S) /\ Range(t) = N /\ IsInjective(t)
<1>1. Cardinality(N) \in Nat
  BY FS_CardinalityType
<1>2. t \in [1..Cardinality(N) -> N]
  BY DEF Orderings, Bijection, Injection
<1>3. t \in Seq(S)
  BY <1>1, <1>2
<1>4. Range(t) = N /\ IsInjective(t)
  BY <1>2 DEF Orderings, Bijection, Injection, Surjection, Range, IsInjective
<1> QED BY <1>3, <1>4

LEMMA ConcatFacts ==
    ASSUME NEW S, NEW s \in Seq(S), NEW t \in Seq(S)
    PROVE  /\ s \o t \in Seq(S)
           /\ Range(s \o t) = Range(s) \cup Range(t)
           /\ (IsInjective(s) /\ IsInjective(t) /\ Range(s) \cap Range(t) = {}) => IsInjective(s \o t)
<1>1. /\ s \o t \in Seq(S) /\ Len(s) \in Nat /\ Len(t) \in Nat
      /\ DOMAIN s = 1..Len(s) /\ DOMAIN t = 1..Len(t)
      /\ DOMAIN (s \o t) = 1..(Len(s) + Len(t))
  OBVIOUS
<1>2. /\ \A i \in 1..Len(s) : (s \o t)[i] = s[i] /\ i \in DOMAIN (s \o t)
      /\ \A i \in 1..Len(t) : (s \o t)[Len(s) + i] = t[i] /\ Len(s) + i \in DOMAIN (s \o t)
  BY <1>1
<1>3. \A i \in DOMAIN (s \o t) :
         \/ i \in DOMAIN s /\ (s \o t)[i] = s[i]
         \/ i - Len(s) \in DOMAIN t /\ (s \o t)[i] = t[i - Len(s)]
  BY <1>1
<1>4. Range(s \o t) = Range(s) \cup Range(t)
  <2>1. Range(s \o t) \subseteq Range(s) \cup Range(t)
    BY <1>3 DEF Range
  <2>2. Range(s) \subseteq Range(s \o t)
    BY <1>1, <1>2 DEF Range
  <2>3. Range(t) \subseteq Range(s \o t)
    <3> SUFFICES ASSUME NEW i \in DOMAIN t PROVE t[i] \in Range(s \o t)
      BY DEF Range
    <3> QED BY <1>1, <1>2 DEF Range
  <2> QED BY <2>1, <2>2, <2>3
<1>5. ASSUME IsInjective(s), IsInjective(t), Range(s) \cap Range(t) = {}
      PROVE  IsInjective(s \o t)
  <2> SUFFICES ASSUME NEW i \in DOMAIN (s \o t), NEW k \in DOMAIN (s \o t),
                      (s \o t)[i] = (s \o t)[k]
               PROVE  i = k
    BY DEF IsInjective
  <2> DEFINE Left(n)  == n \in DOMAIN s /\ (s \o t)[n] = s[n]
             Right(n) == n - Len(s) \in DOMAIN t /\ (s \o t)[n] = t[n - Len(s)]
  <2>0. (Left(i) \/ Right(i)) /\ (Left(k) \/ Right(k))
    BY <1>3
  <2>1. ~(Left(i) /\ Right(k)) /\ ~(Right(i) /\ Left(k))
    BY <1>5 DEF Range
  <2>2. CASE Left(i) /\ Left(k)
    BY <2>2, <1>5 DEF IsInjective
  <2>3. CASE Right(i) /\ Right(k)
    <3>1. i - Len(s) = k - Len(s)
      BY <2>3, <1>5 DEF IsInjective
    <3>2. i \in Int /\ k \in Int
      BY <1>1
    <3> QED BY <3>1, <3>2, <1>1
  <2> QED BY <2>0, <2>1, <2>2, <2>3
<1> QED BY <1>1, <1>4, <1>5

-----------------------------------------------------------------------------
(***************************************************************************)
(* The inductive invariant.                                                *)
(***************************************************************************)

Active(j) == worker[j] \in {"queued", "working"}
InFlight(c) == {j \in futures : ClassOf[j] = c}

\* The Counter counts the futures of each class.
CountersAgree ==
    \A c \in Class : running[c] = Cardinality(InFlight(c)) /\ running[c] <= Cap(c)

\* What the main thread knows of the pool: it holds a future for every job the
\* pool still has, and everything that succeeded there and was popped is
\* completed.
PoolAgrees ==
    /\ \A j \in Job : Active(j) => j \in futures
    /\ \A j \in futures : worker[j] # "idle"
    /\ \A j \in batch : j \in futures /\ worker[j] \in Results
    /\ \A j \in completed : worker[j] = "ok" /\ j \notin futures
    /\ \A j \in Job : worker[j] = "ok" /\ j \notin futures => j \in completed

\* A queued job was never submitted, has nothing left to wait for and is queued
\* once; while the run may still dispatch, every such job is queued.
QueuesAgree ==
    /\ \A j \in Range(ready) \cup Range(deferred) : worker[j] = "idle" /\ remaining[j] = {}
    /\ IsInjective(ready) /\ IsInjective(deferred)
    /\ Range(ready) \cap Range(deferred) = {}
    /\ \A j \in Job : worker[j] = "idle" /\ remaining[j] = {} =>
                        j \in Range(ready) \cup Range(deferred)

DependenciesAgree ==
    /\ \A j \in Job : remaining[j] = Deps[j] \ completed
    /\ \A j \in Job : worker[j] # "idle" => remaining[j] = {}

\* Where the main thread can be with what in its hands.
ControlAgrees ==
    /\ deferred # <<>> => pc \in {"dispatch"} /\ ~stop /\ futures # {}
    /\ pc = "wait" => futures # {}
    /\ pc = "finish" => futures = {} /\ (stop \/ ready = <<>>)
    /\ pc = "done" => futures = {}
    /\ pc = "aborted" => \A j \in Job : ~Active(j)
    /\ stop => \E j \in Job : worker[j] = "failed"
    /\ blocked # None => stop
    /\ pc = "unwind" => \E j \in Job : worker[j] = "raised"

IInv == /\ TypeOK
        /\ CountersAgree
        /\ PoolAgrees
        /\ QueuesAgree
        /\ DependenciesAgree
        /\ ControlAgrees

LEMMA CapFacts == \A c \in Class : Cap(c) \in Nat /\ Cap(c) >= 1
BY WidthAssumption DEF Cap

LEMMA NoneFacts == None \notin Job /\ None \notin Candidate
BY GraphAssumption

LEMMA InitIInv == Init => IInv
<1> SUFFICES ASSUME Init PROVE IInv
  OBVIOUS
<1> USE GraphAssumption
<1> DEFINE Roots == {j \in Job : Deps[j] = {}}
<1>1. ready \in Seq(Job) /\ Range(ready) = Roots /\ IsInjective(ready)
  <2>1. Roots \in SUBSET Job /\ IsFiniteSet(Roots)
    BY FS_Subset
  <2>2. ready \in Orderings(Roots)
    BY DEF Init
  <2> QED BY <2>1, <2>2, OrderingFacts
<1>2. deferred = <<>> /\ Range(deferred) = {} /\ IsInjective(deferred)
  BY DEF Init, Range, IsInjective
<1>3. TypeOK
  <2>1. /\ pc = "dispatch" /\ remaining \in [Job -> SUBSET Job] /\ stop \in BOOLEAN
        /\ completed \subseteq Job /\ futures \subseteq Job /\ batch \subseteq Job
    BY DEF Init
  <2>3. deferred \in Seq(Job)
    BY <1>2
  <2>4. running \in [Class -> Nat]
    BY DEF Init
  <2>2. /\ worker \in [Job -> {"idle", "queued", "working"} \cup Results]
        /\ outcome \in [Job -> {"ok", "failed", None}]
        /\ blocked \in Job \cup {None}
        /\ eliminated \in [Candidate -> Job \cup {None}]
        /\ reason \in [Job -> {"eliminated", "stopped", "dependency", None}]
    BY DEF Init
  <2> QED BY <1>1, <2>1, <2>2, <2>3, <2>4 DEF TypeOK
<1>4. CountersAgree
  <2> SUFFICES ASSUME NEW c \in Class
               PROVE  running[c] = Cardinality(InFlight(c)) /\ running[c] <= Cap(c)
    BY DEF CountersAgree
  <2>1. running[c] = 0 /\ InFlight(c) = {}
    BY DEF Init, InFlight
  <2> QED BY <2>1, FS_EmptySet, CapFacts
<1>5. PoolAgrees
  BY DEF Init, PoolAgrees, Active
<1>6. QueuesAgree
  BY <1>1, <1>2 DEF Init, QueuesAgree
<1>7. DependenciesAgree
  BY DEF Init, DependenciesAgree
<1>8. ControlAgrees
  BY <1>2 DEF Init, ControlAgrees
<1> QED BY <1>3, <1>4, <1>5, <1>6, <1>7, <1>8 DEF IInv

LEMMA SubmitIInv == IInv /\ Submit => IInv'
<1> SUFFICES ASSUME IInv, Submit PROVE IInv'
  OBVIOUS
<1> USE GraphAssumption
<1> DEFINE j == Head(ready)
           c == ClassOf[j]
<1>0. /\ ready \in Seq(Job) /\ ready # <<>> /\ j \in Job /\ c \in Class
      /\ ready' = Tail(ready) /\ ready' \in Seq(Job)
      /\ Range(ready) = {j} \cup Range(ready')
      /\ j \notin Range(ready') /\ IsInjective(ready')
  <2>1. ready \in Seq(Job) /\ ready # <<>> /\ IsInjective(ready) /\ ready' = Tail(ready)
    BY DEF IInv, TypeOK, Submit, QueuesAgree
  <2>2. j \in Job /\ Tail(ready) \in Seq(Job) /\ Range(ready) = {j} \cup Range(Tail(ready))
        /\ j \notin Range(Tail(ready)) /\ IsInjective(Tail(ready))
    BY <2>1, PopFacts
  <2> QED BY <2>1, <2>2
<1>1. worker[j] = "idle" /\ remaining[j] = {} /\ j \notin futures /\ j \notin completed
  BY <1>0 DEF IInv, QueuesAgree, PoolAgrees
<1>2. /\ running[c] < Cap(c) /\ running' = [running EXCEPT ![c] = @ + 1]
      /\ futures' = futures \cup {j} /\ worker' = [worker EXCEPT ![j] = "queued"]
  BY DEF Submit
<1>3. TypeOK'
  BY <1>0, <1>2 DEF IInv, TypeOK, Submit, summary
<1>4. CountersAgree'
  <2> SUFFICES ASSUME NEW d \in Class
               PROVE  running'[d] = Cardinality(InFlight(d)') /\ running'[d] <= Cap(d)
    BY DEF CountersAgree
  <2>1. IsFiniteSet(InFlight(d)) /\ running[d] = Cardinality(InFlight(d)) /\ running[d] <= Cap(d)
    <3>1. InFlight(d) \in SUBSET Job
      BY DEF InFlight, IInv, TypeOK
    <3> QED BY <3>1, FS_Subset DEF IInv, CountersAgree
  <2>2. CASE d = c
    <3>1. InFlight(d)' = InFlight(d) \cup {j} /\ j \notin InFlight(d)
      BY <2>2, <1>1, <1>2 DEF InFlight
    <3>2. Cardinality(InFlight(d)') = Cardinality(InFlight(d)) + 1
      BY <3>1, <2>1, FS_AddElement
    <3>3. running'[d] = running[d] + 1 /\ running[d] \in Nat
      BY <2>2, <1>2 DEF IInv, TypeOK
    <3> QED BY <3>2, <3>3, <2>1, <2>2, <1>2, CapFacts
  <2>3. CASE d # c
    <3>1. InFlight(d)' = InFlight(d)
      BY <2>3, <1>2 DEF InFlight
    <3>2. running'[d] = running[d]
      BY <2>3, <1>2 DEF IInv, TypeOK
    <3> QED BY <3>1, <3>2, <2>1
  <2> QED BY <2>2, <2>3
<1>5. PoolAgrees'
  BY <1>0, <1>1, <1>2 DEF IInv, TypeOK, PoolAgrees, Active, Submit, Results
<1>6. QueuesAgree'
  BY <1>0, <1>1, <1>2 DEF IInv, TypeOK, QueuesAgree, Submit
<1>7. DependenciesAgree'
  BY <1>0, <1>1, <1>2 DEF IInv, TypeOK, DependenciesAgree, Submit
<1>8. ControlAgrees'
  BY <1>0, <1>1, <1>2 DEF IInv, TypeOK, ControlAgrees, Submit, summary, Active
<1> QED BY <1>3, <1>4, <1>5, <1>6, <1>7, <1>8 DEF IInv

LEMMA DeferIInv == IInv /\ Defer => IInv'
<1> SUFFICES ASSUME IInv, Defer PROVE IInv'
  OBVIOUS
<1> USE GraphAssumption
<1> DEFINE j == Head(ready)
<1>0. /\ j \in Job /\ ready' \in Seq(Job)
      /\ Range(ready) = {j} \cup Range(ready')
      /\ j \notin Range(ready') /\ IsInjective(ready')
  <2>1. ready \in Seq(Job) /\ ready # <<>> /\ IsInjective(ready) /\ ready' = Tail(ready)
    BY DEF IInv, TypeOK, Defer, QueuesAgree
  <2>2. j \in Job /\ Tail(ready) \in Seq(Job) /\ Range(ready) = {j} \cup Range(Tail(ready))
        /\ j \notin Range(Tail(ready)) /\ IsInjective(Tail(ready))
    BY <2>1, PopFacts
  <2> QED BY <2>1, <2>2
<1>1. /\ deferred' \in Seq(Job) /\ deferred' # <<>>
      /\ Range(deferred') = Range(deferred) \cup {j} /\ IsInjective(deferred')
  <2>1. deferred \in Seq(Job) /\ deferred' = Append(deferred, j)
        /\ IsInjective(deferred) /\ j \notin Range(deferred)
    BY <1>0 DEF IInv, TypeOK, Defer, QueuesAgree
  <2> QED BY <2>1, <1>0, AppendFacts
<1>2. UNCHANGED <<pc, remaining, completed, futures, batch, running, stop, worker>>
  BY DEF Defer
\* A class at its cap has a future in flight, so the loop will not break here.
<1>3. futures # {}
  <2>1. ClassOf[j] \in Class /\ ~(running[ClassOf[j]] < Cap(ClassOf[j]))
    BY <1>0 DEF Defer
  <2>2. running[ClassOf[j]] \in Nat /\ running[ClassOf[j]] # 0
    BY <2>1, CapFacts DEF IInv, TypeOK
  <2>3. Cardinality(InFlight(ClassOf[j])) # 0
    BY <2>1, <2>2 DEF IInv, CountersAgree
  <2>4. InFlight(ClassOf[j]) # {}
    BY <2>3, FS_EmptySet
  <2> QED BY <2>4 DEF InFlight
<1>4. TypeOK'
  BY <1>0, <1>1 DEF IInv, TypeOK, Defer, summary
<1>5. CountersAgree'
  BY <1>2 DEF IInv, CountersAgree, InFlight
<1>6. PoolAgrees'
  BY <1>2 DEF IInv, PoolAgrees, Active
<1>7. QueuesAgree'
  BY <1>0, <1>1, <1>2 DEF IInv, QueuesAgree
<1>8. DependenciesAgree'
  BY <1>2 DEF IInv, DependenciesAgree
<1>9. ControlAgrees'
  BY <1>2, <1>3 DEF IInv, ControlAgrees, Defer, summary, Active
<1> QED BY <1>4, <1>5, <1>6, <1>7, <1>8, <1>9 DEF IInv

LEMMA EndDispatchIInv == IInv /\ EndDispatch => IInv'
<1> SUFFICES ASSUME IInv, EndDispatch PROVE IInv'
  OBVIOUS
<1>0. UNCHANGED <<remaining, completed, futures, batch, running, stop, worker, outcome, blocked,
                 eliminated, reason>>
  BY DEF EndDispatch, summary
<1>1. deferred' = <<>> /\ deferred' \in Seq(Job) /\ Range(deferred') = {} /\ IsInjective(deferred')
  BY DEF EndDispatch, Range, IsInjective
\* Nothing was deferred in a skipped round, nothing is ready after a full one.
<1>2. ready' \in Seq(Job) /\ IsInjective(ready') /\ Range(ready') = Range(ready) \cup Range(deferred)
  <2>1. CASE stop
    <3>1. deferred = <<>> /\ ready' = ready
      BY <2>1 DEF IInv, ControlAgrees, EndDispatch
    <3> QED BY <3>1 DEF IInv, TypeOK, QueuesAgree, Range
  <2>2. CASE ~stop
    <3>1. ready = <<>> /\ ready' = deferred
      BY <2>2 DEF EndDispatch
    <3> QED BY <3>1 DEF IInv, TypeOK, QueuesAgree, Range
  <2> QED BY <2>1, <2>2
<1>3. TypeOK'
  BY <1>0, <1>1, <1>2 DEF IInv, TypeOK, EndDispatch
<1>4. CountersAgree'
  BY <1>0 DEF IInv, CountersAgree, InFlight
<1>5. PoolAgrees'
  BY <1>0 DEF IInv, PoolAgrees, Active
<1>6. QueuesAgree'
  BY <1>0, <1>1, <1>2 DEF IInv, QueuesAgree
<1>7. DependenciesAgree'
  BY <1>0 DEF IInv, DependenciesAgree
<1>8. ControlAgrees'
  BY <1>0, <1>1 DEF IInv, ControlAgrees, EndDispatch, Active
<1> QED BY <1>3, <1>4, <1>5, <1>6, <1>7, <1>8 DEF IInv

LEMMA WaitIInv == IInv /\ Wait => IInv'
<1> SUFFICES ASSUME IInv, Wait PROVE IInv'
  OBVIOUS
<1>0. /\ UNCHANGED <<ready, deferred, remaining, completed, futures, running, stop, worker, outcome,
                    blocked, eliminated, reason>>
      /\ batch' = Finished /\ pc = "wait" /\ pc' = "collect"
  BY DEF Wait, summary
<1>1. TypeOK'
  BY <1>0 DEF IInv, TypeOK, Finished
<1>2. CountersAgree'
  BY <1>0 DEF IInv, CountersAgree, InFlight
<1>3. PoolAgrees'
  BY <1>0 DEF IInv, PoolAgrees, Active, Finished
<1>4. QueuesAgree'
  BY <1>0 DEF IInv, QueuesAgree
<1>5. DependenciesAgree'
  BY <1>0 DEF IInv, DependenciesAgree
<1>6. ControlAgrees'
  BY <1>0 DEF IInv, ControlAgrees, Active
<1> QED BY <1>1, <1>2, <1>3, <1>4, <1>5, <1>6 DEF IInv

(***************************************************************************)
(* Collecting: every way a future ends gives its slot back exactly once.   *)
(***************************************************************************)
LEMMA PopFutureFacts ==
    ASSUME IInv, NEW j \in Job, Pop(j)
    PROVE  /\ CountersAgree' /\ running' \in [Class -> Nat]
           /\ futures' = futures \ {j} /\ batch' = batch \ {j}
           /\ futures' \subseteq Job /\ batch' \subseteq Job
           /\ pc = "collect" /\ deferred = <<>> /\ Range(deferred) = {}
           /\ j \in futures /\ worker[j] \in Results
<1> USE GraphAssumption
<1> DEFINE c == ClassOf[j]
<1>1. /\ pc = "collect" /\ j \in batch /\ batch' = batch \ {j} /\ futures' = futures \ {j}
      /\ running' = [running EXCEPT ![c] = @ - 1] /\ c \in Class
  BY DEF Pop
<1>2. j \in futures /\ worker[j] \in Results
  BY <1>1 DEF IInv, PoolAgrees
<1>3. deferred = <<>> /\ Range(deferred) = {}
  BY <1>1 DEF IInv, ControlAgrees, Range
<1>4. \A d \in Class : /\ IsFiniteSet(InFlight(d)) /\ Cardinality(InFlight(d)) \in Nat
                       /\ running[d] = Cardinality(InFlight(d)) /\ running[d] <= Cap(d)
                       /\ Cap(d) \in Nat
  <2> TAKE d \in Class
  <2>1. InFlight(d) \in SUBSET Job
    BY DEF InFlight, IInv, TypeOK
  <2> QED BY <2>1, FS_Subset, FS_CardinalityType, CapFacts DEF IInv, CountersAgree
<1>5. /\ InFlight(c)' = InFlight(c) \ {j} /\ j \in InFlight(c)
      /\ Cardinality(InFlight(c)') = Cardinality(InFlight(c)) - 1
      /\ Cardinality(InFlight(c)') \in Nat
  <2>1. InFlight(c)' = InFlight(c) \ {j} /\ j \in InFlight(c)
    BY <1>1, <1>2 DEF InFlight
  <2>2. IsFiniteSet(InFlight(c) \ {j})
        /\ Cardinality(InFlight(c) \ {j}) = Cardinality(InFlight(c)) - 1
    BY <2>1, <1>1, <1>4, FS_RemoveElement
  <2> QED BY <2>1, <2>2, FS_CardinalityType
<1>6. \A d \in Class : running'[d] = IF d = c THEN running[d] - 1 ELSE running[d]
  BY <1>1 DEF IInv, TypeOK
<1>7. \A d \in Class : d # c => InFlight(d)' = InFlight(d)
  BY <1>1 DEF InFlight
<1>8. \A d \in Class : running'[d] = Cardinality(InFlight(d)') /\ running'[d] <= Cap(d)
                        /\ running'[d] \in Nat
  <2> TAKE d \in Class
  <2>1. CASE d = c
    BY <2>1, <1>4, <1>5, <1>6
  <2>2. CASE d # c
    BY <2>2, <1>4, <1>6, <1>7
  <2> QED BY <2>1, <2>2
<1>9. running' \in [Class -> Nat]
  BY <1>1, <1>8 DEF IInv, TypeOK
<1>10. CountersAgree'
  BY <1>8 DEF CountersAgree
<1> QED BY <1>1, <1>2, <1>3, <1>9, <1>10 DEF IInv, TypeOK

LEMMA CollectOkIInv == ASSUME NEW j \in Job PROVE IInv /\ CollectOk(j) => IInv'
<1> SUFFICES ASSUME IInv, CollectOk(j) PROVE IInv'
  OBVIOUS
<1> USE GraphAssumption
<1> DEFINE N == NewlyReady(j)
<1>0. Pop(j) /\ worker[j] = "ok"
  BY DEF CollectOk
<1>1. /\ CountersAgree' /\ running' \in [Class -> Nat]
      /\ futures' = futures \ {j} /\ batch' = batch \ {j}
      /\ futures' \subseteq Job /\ batch' \subseteq Job
      /\ pc = "collect" /\ deferred = <<>> /\ Range(deferred) = {} /\ j \in futures
  BY <1>0, PopFutureFacts
<1>2. /\ completed' = completed \cup {j} /\ remaining' = [k \in Job |-> remaining[k] \ {j}]
      /\ pc' = (IF batch = {j} THEN "dispatch" ELSE "collect")
      /\ outcome' = [outcome EXCEPT ![j] = "ok"]
      /\ UNCHANGED <<deferred, stop, worker, blocked, eliminated, reason>>
  BY DEF CollectOk, AfterCollect
<1>3. PICK s \in Orderings(N) : ready' = ready \o s
  BY DEF CollectOk
<1>4. s \in Seq(Job) /\ Range(s) = N /\ IsInjective(s) /\ N \subseteq Job
  <2>1. N \in SUBSET Job /\ IsFiniteSet(N)
    BY FS_Subset DEF NewlyReady
  <2> QED BY <2>1, OrderingFacts
<1>5. ready \in Seq(Job) /\ IsInjective(ready) /\ Range(ready) \cap N = {}
  BY DEF IInv, TypeOK, QueuesAgree, NewlyReady
<1>6. ready' \in Seq(Job) /\ Range(ready') = Range(ready) \cup N /\ IsInjective(ready')
  BY <1>3, <1>4, <1>5, ConcatFacts
\* What completes makes ready only jobs that were never submitted, and all of them.
<1>7. \A k \in N : worker[k] = "idle" /\ remaining'[k] = {}
  <2> TAKE k \in N
  <2>1. k \in Job /\ remaining[k] = {j}
    BY <1>4 DEF NewlyReady
  <2>2. worker[k] = "idle"
    BY <2>1 DEF IInv, DependenciesAgree
  <2> QED BY <2>1, <2>2, <1>2
<1>8. \A k \in Job : worker[k] = "idle" /\ remaining'[k] = {} => k \in Range(ready) \cup N
  <2> SUFFICES ASSUME NEW k \in Job, worker[k] = "idle", remaining'[k] = {}, k \notin Range(ready)
               PROVE  k \in N
    OBVIOUS
  <2>1. remaining[k] # {}
    BY <1>1 DEF IInv, QueuesAgree
  <2>2. remaining[k] = {j}
    BY <2>1, <1>2 DEF IInv, TypeOK
  <2>3. k \notin completed /\ k # j /\ k \notin futures
    BY <1>0 DEF IInv, PoolAgrees
  <2> QED BY <2>2, <2>3 DEF NewlyReady
<1>9. TypeOK'
  <2>1. remaining' \in [Job -> SUBSET Job] /\ outcome' \in [Job -> {"ok", "failed", None}]
    BY <1>2 DEF IInv, TypeOK
  <2> QED BY <2>1, <1>1, <1>2, <1>6 DEF IInv, TypeOK
<1>10. PoolAgrees'
  BY <1>0, <1>1, <1>2 DEF IInv, TypeOK, PoolAgrees, Active
<1>11. QueuesAgree'
  <2>1. \A k \in Range(ready) : worker[k] = "idle" /\ remaining'[k] = {}
    <3> TAKE k \in Range(ready)
    <3>1. k \in Job
      BY <1>5 DEF Range
    <3> QED BY <3>1, <1>2 DEF IInv, QueuesAgree
  <2>2. worker' = worker /\ deferred' = deferred
    BY <1>2
  <2> QED BY <1>1, <1>6, <1>7, <1>8, <2>1, <2>2 DEF IInv, QueuesAgree
<1>12. DependenciesAgree'
  BY <1>2 DEF IInv, TypeOK, DependenciesAgree
<1>13. ControlAgrees'
  BY <1>1, <1>2 DEF IInv, ControlAgrees, Active
<1> QED BY <1>1, <1>9, <1>10, <1>11, <1>12, <1>13 DEF IInv

\* A future that did not succeed changes neither queues nor dependencies.
LEMMA CollectOtherIInv ==
    ASSUME IInv, NEW j \in Job, Pop(j), worker[j] # "ok",
           UNCHANGED <<ready, deferred, remaining, completed, worker>>
    PROVE  /\ CountersAgree' /\ PoolAgrees' /\ QueuesAgree' /\ DependenciesAgree'
           /\ running' \in [Class -> Nat] /\ futures' \subseteq Job /\ batch' \subseteq Job
           /\ pc = "collect" /\ deferred' = <<>> /\ worker[j] \in Results
<1>1. /\ CountersAgree' /\ running' \in [Class -> Nat]
      /\ futures' = futures \ {j} /\ batch' = batch \ {j}
      /\ futures' \subseteq Job /\ batch' \subseteq Job
      /\ pc = "collect" /\ deferred = <<>> /\ worker[j] \in Results
  BY PopFutureFacts
<1>2. PoolAgrees'
  BY <1>1 DEF IInv, TypeOK, PoolAgrees, Active, Results
<1>3. QueuesAgree' /\ DependenciesAgree'
  BY DEF IInv, QueuesAgree, DependenciesAgree
<1> QED BY <1>1, <1>2, <1>3

LEMMA CollectCandidateFailureIInv ==
    ASSUME NEW j \in Job PROVE IInv /\ CollectCandidateFailure(j) => IInv'
<1> SUFFICES ASSUME IInv, CollectCandidateFailure(j) PROVE IInv'
  OBVIOUS
<1>0. /\ Pop(j) /\ worker[j] # "ok" /\ CandidateOf[j] # None
      /\ outcome' = [outcome EXCEPT ![j] = "failed"]
      /\ eliminated' = [eliminated EXCEPT ![CandidateOf[j]] = IF @ = None THEN j ELSE @]
      /\ pc' = (IF batch = {j} THEN "dispatch" ELSE "collect")
      /\ UNCHANGED <<ready, deferred, remaining, completed, stop, worker, blocked, reason>>
  BY DEF CollectCandidateFailure, AfterCollect
<1>1. /\ CountersAgree' /\ PoolAgrees' /\ QueuesAgree' /\ DependenciesAgree'
      /\ running' \in [Class -> Nat] /\ futures' \subseteq Job /\ batch' \subseteq Job
      /\ pc = "collect" /\ deferred' = <<>>
  BY <1>0, CollectOtherIInv
<1>2. TypeOK'
  <2>1. outcome' \in [Job -> {"ok", "failed", None}]
    BY <1>0 DEF IInv, TypeOK
  <2>2. eliminated' \in [Candidate -> Job \cup {None}]
    BY <1>0, GraphAssumption DEF IInv, TypeOK
  <2> QED BY <1>0, <1>1, <2>1, <2>2 DEF IInv, TypeOK
<1>3. ControlAgrees'
  BY <1>0, <1>1 DEF IInv, ControlAgrees, Active
<1> QED BY <1>1, <1>2, <1>3 DEF IInv

LEMMA CollectMissionFailureIInv ==
    ASSUME NEW j \in Job PROVE IInv /\ CollectMissionFailure(j) => IInv'
<1> SUFFICES ASSUME IInv, CollectMissionFailure(j) PROVE IInv'
  OBVIOUS
<1>0. /\ Pop(j) /\ worker[j] = "failed" /\ stop' = TRUE
      /\ outcome' = [outcome EXCEPT ![j] = "failed"]
      /\ blocked' = (IF blocked = None THEN j ELSE blocked)
      /\ pc' = (IF batch = {j} THEN "dispatch" ELSE "collect")
      /\ UNCHANGED <<ready, deferred, remaining, completed, worker, eliminated, reason>>
  BY DEF CollectMissionFailure, AfterCollect
<1>1. /\ CountersAgree' /\ PoolAgrees' /\ QueuesAgree' /\ DependenciesAgree'
      /\ running' \in [Class -> Nat] /\ futures' \subseteq Job /\ batch' \subseteq Job
      /\ pc = "collect" /\ deferred' = <<>>
  BY <1>0, CollectOtherIInv
<1>2. TypeOK'
  BY <1>0, <1>1 DEF IInv, TypeOK
<1>3. ControlAgrees'
  BY <1>0, <1>1 DEF IInv, ControlAgrees, Active
<1> QED BY <1>1, <1>2, <1>3 DEF IInv

LEMMA CollectRaiseIInv ==
    ASSUME NEW j \in Job PROVE IInv /\ CollectRaise(j) => IInv'
<1> SUFFICES ASSUME IInv, CollectRaise(j) PROVE IInv'
  OBVIOUS
<1>0. /\ Pop(j) /\ worker[j] = "raised" /\ pc' = "unwind"
      /\ UNCHANGED <<ready, deferred, remaining, completed, stop, worker, outcome, blocked,
                    eliminated, reason>>
  BY DEF CollectRaise, summary
<1>1. /\ CountersAgree' /\ PoolAgrees' /\ QueuesAgree' /\ DependenciesAgree'
      /\ running' \in [Class -> Nat] /\ futures' \subseteq Job /\ batch' \subseteq Job
      /\ pc = "collect" /\ deferred' = <<>>
  BY <1>0, CollectOtherIInv
<1>2. TypeOK'
  BY <1>0, <1>1 DEF IInv, TypeOK
<1>3. ControlAgrees'
  BY <1>0, <1>1 DEF IInv, ControlAgrees, Active
<1> QED BY <1>1, <1>2, <1>3 DEF IInv

LEMMA UnwindFinishIInv == IInv /\ (Unwind \/ Finish) => IInv'
<1> SUFFICES ASSUME IInv, Unwind \/ Finish PROVE IInv'
  OBVIOUS
<1>0. /\ UNCHANGED <<ready, deferred, remaining, completed, futures, batch, running, stop, worker,
                    outcome, blocked, eliminated>>
      /\ \/ /\ pc = "unwind" /\ pc' = "aborted" /\ reason' = reason
            /\ \A j \in Job : ~Active(j)
         \/ /\ pc = "finish" /\ pc' = "done"
            /\ reason' = [j \in Job |-> IF j \in NotRun THEN NotRunReason(j) ELSE None]
  BY DEF Unwind, Finish, summary, Active
<1>1. TypeOK'
  <2>1. reason' \in [Job -> {"eliminated", "stopped", "dependency", None}]
    BY <1>0 DEF IInv, TypeOK, NotRunReason
  <2> QED BY <1>0, <2>1 DEF IInv, TypeOK
<1>2. CountersAgree' /\ PoolAgrees'
  BY <1>0 DEF IInv, CountersAgree, InFlight, PoolAgrees, Active
<1>3. QueuesAgree' /\ DependenciesAgree'
  BY <1>0 DEF IInv, QueuesAgree, DependenciesAgree
<1>4. ControlAgrees'
  BY <1>0 DEF IInv, ControlAgrees, Active
<1> QED BY <1>1, <1>2, <1>3, <1>4 DEF IInv

LEMMA WorkerIInv ==
    ASSUME NEW j \in Job PROVE IInv /\ (WorkerStart(j) \/ WorkerEnd(j)) => IInv'
<1> SUFFICES ASSUME IInv, WorkerStart(j) \/ WorkerEnd(j) PROVE IInv'
  OBVIOUS
<1>0. /\ UNCHANGED <<pc, ready, deferred, remaining, completed, futures, batch, running, stop,
                    outcome, blocked, eliminated, reason>>
      /\ Active(j)
      /\ \E w \in {"working"} \cup Results : worker' = [worker EXCEPT ![j] = w]
  BY DEF WorkerStart, WorkerEnd, main, summary, Active
<1>1. PICK w \in {"working"} \cup Results : worker' = [worker EXCEPT ![j] = w]
  BY <1>0
<1>2. /\ worker'[j] = w /\ worker[j] \notin Results \cup {"idle"}
      /\ \A k \in Job : k # j => worker'[k] = worker[k]
  BY <1>0, <1>1 DEF IInv, TypeOK, Active, Results
<1>3. \A k \in Job : /\ worker'[k] = "idle" <=> worker[k] = "idle"
                     /\ worker[k] \in Results => worker'[k] = worker[k]
  BY <1>1, <1>2 DEF Results
<1>4. TypeOK'
  BY <1>0, <1>1 DEF IInv, TypeOK
<1>5. CountersAgree'
  BY <1>0 DEF IInv, CountersAgree, InFlight
<1>6. PoolAgrees'
  <2>1. j \in futures
    BY <1>0 DEF IInv, PoolAgrees
  <2> QED BY <1>0, <1>2, <1>3, <2>1 DEF IInv, TypeOK, PoolAgrees, Active, Results
<1>7. QueuesAgree'
  <2>1. \A k \in Range(ready) \cup Range(deferred) : k \in Job
    BY DEF IInv, TypeOK, Range
  <2> QED BY <1>0, <1>3, <2>1 DEF IInv, QueuesAgree
<1>8. DependenciesAgree'
  BY <1>0, <1>3 DEF IInv, DependenciesAgree
<1>9. ControlAgrees'
  <2>1. pc # "aborted"
    BY <1>0 DEF IInv, ControlAgrees
  <2> QED BY <1>0, <1>3, <2>1 DEF IInv, ControlAgrees, Active, Results
<1> QED BY <1>4, <1>5, <1>6, <1>7, <1>8, <1>9 DEF IInv

LEMMA StutterIInv == IInv /\ UNCHANGED vars => IInv'
<1> SUFFICES ASSUME IInv, UNCHANGED vars PROVE IInv'
  OBVIOUS
<1>0. UNCHANGED <<pc, ready, deferred, remaining, completed, futures, batch, running, stop, worker,
                 outcome, blocked, eliminated, reason>>
  BY DEF vars, main, summary
<1>1. TypeOK'
  BY <1>0 DEF IInv, TypeOK
<1>2. CountersAgree' /\ PoolAgrees'
  BY <1>0 DEF IInv, CountersAgree, InFlight, PoolAgrees, Active
<1>3. QueuesAgree' /\ DependenciesAgree' /\ ControlAgrees'
  BY <1>0 DEF IInv, QueuesAgree, DependenciesAgree, ControlAgrees, Active
<1> QED BY <1>1, <1>2, <1>3 DEF IInv

LEMMA NextIInv == IInv /\ [Next]_vars => IInv'
<1> SUFFICES ASSUME IInv, [Next]_vars PROVE IInv'
  OBVIOUS
<1>1. CASE Submit \/ Defer \/ EndDispatch \/ Wait
  BY <1>1, SubmitIInv, DeferIInv, EndDispatchIInv, WaitIInv
<1>2. CASE Unwind \/ Finish
  BY <1>2, UnwindFinishIInv
<1>3. ASSUME NEW j \in Job,
             \/ CollectOk(j) \/ CollectCandidateFailure(j)
             \/ CollectMissionFailure(j) \/ CollectRaise(j)
      PROVE  IInv'
  BY <1>3, CollectOkIInv, CollectCandidateFailureIInv, CollectMissionFailureIInv, CollectRaiseIInv
<1>4. ASSUME NEW j \in Job, WorkerStart(j) \/ WorkerEnd(j) PROVE IInv'
  BY <1>4, WorkerIInv
<1>5. CASE Terminated \/ UNCHANGED vars
  BY <1>5, StutterIInv DEF Terminated
<1> QED BY <1>1, <1>2, <1>3, <1>4, <1>5 DEF Next, MainStep

\* Every reachable state satisfies the inductive invariant, for every graph and
\* every choice of widths.
THEOREM Invariance == Spec => []IInv
<1>1. Init => IInv
  BY InitIInv
<1>2. IInv /\ [Next]_vars => IInv'
  BY NextIInv
<1> QED BY <1>1, <1>2, PTL DEF Spec

\* The state variables keep their types; among others, no class counter ever
\* goes below zero.
THEOREM TypeCorrect == Spec => []TypeOK
<1>1. IInv => TypeOK
  BY DEF IInv
<1> QED BY <1>1, Invariance, PTL

\* No class ever has more jobs in the pool than its width: the width the caller
\* configured is a bound on the processes, not on the dispatch loop's own count.
THEOREM CapsHold == Spec => []CapRespected
<1>1. IInv => CapRespected
  <2> SUFFICES ASSUME IInv, NEW c \in Class
               PROVE  Cardinality({j \in Job : /\ worker[j] \in {"queued", "working"}
                                               /\ ClassOf[j] = c}) <= Cap(c)
    BY DEF CapRespected
  <2> DEFINE InPool == {j \in Job : worker[j] \in {"queued", "working"} /\ ClassOf[j] = c}
  <2>1. InPool \in SUBSET InFlight(c)
    BY DEF IInv, PoolAgrees, Active, InFlight
  <2>2. InFlight(c) \in SUBSET Job /\ IsFiniteSet(InFlight(c))
    <3>1. InFlight(c) \in SUBSET Job
      BY DEF IInv, TypeOK, InFlight
    <3> QED BY <3>1, FS_Subset, GraphAssumption
  <2>3. Cardinality(InPool) <= Cardinality(InFlight(c))
        /\ Cardinality(InPool) \in Nat /\ Cardinality(InFlight(c)) \in Nat
    BY <2>1, <2>2, FS_Subset, FS_CardinalityType
  <2>4. Cardinality(InFlight(c)) <= Cap(c)
    BY DEF IInv, CountersAgree
  <2>5. Cardinality(InPool) <= Cap(c)
    BY <2>3, <2>4, CapFacts
  <2> QED BY <2>5
<1> QED BY <1>1, Invariance, PTL

\* No job is submitted before every dependency succeeded, however completions
\* are batched and collected.
THEOREM DependenciesFirst == Spec => []DepsSucceeded
<1>1. IInv => DepsSucceeded
  BY GraphAssumption DEF IInv, DependenciesAgree, PoolAgrees, DepsSucceeded
<1> QED BY <1>1, Invariance, PTL

\* run() never leaves a job behind in the pool, neither by returning nor by raising.
THEOREM PoolDrains == Spec => []NothingInFlightAtEnd
<1>1. IInv => NothingInFlightAtEnd
  BY DEF IInv, PoolAgrees, ControlAgrees, Active, NothingInFlightAtEnd
<1> QED BY <1>1, Invariance, PTL

\* After a mission-level failure or an exception was collected, in-flight jobs
\* drain and none is submitted.
THEOREM NothingStartsAfterStop == Spec => NoDispatchAfterStop
<1>1. IInv /\ [Next]_vars =>
         [(stop \/ blocked # None \/ pc \in {"unwind", "aborted"}) => futures' \subseteq futures]_vars
  <2> SUFFICES ASSUME Next, stop \/ pc \in {"unwind", "aborted"} PROVE futures' \subseteq futures
    BY DEF IInv, ControlAgrees
  <2>1. CASE Submit
    BY <2>1 DEF Submit
  <2>2. CASE Defer \/ EndDispatch \/ Wait \/ Unwind \/ Finish \/ Terminated
    BY <2>2 DEF Defer, EndDispatch, Wait, Unwind, Finish, Terminated, vars, main
  <2>3. ASSUME NEW j \in Job,
               \/ CollectOk(j) \/ CollectCandidateFailure(j)
               \/ CollectMissionFailure(j) \/ CollectRaise(j)
        PROVE  futures' \subseteq futures
    BY <2>3 DEF CollectOk, CollectCandidateFailure, CollectMissionFailure, CollectRaise, Pop
  <2>4. ASSUME NEW j \in Job, WorkerStart(j) \/ WorkerEnd(j) PROVE futures' \subseteq futures
    BY <2>4 DEF WorkerStart, WorkerEnd, main
  <2> QED BY <2>1, <2>2, <2>3, <2>4 DEF Next, MainStep
<1> QED BY <1>1, Invariance, PTL DEF Spec, NoDispatchAfterStop

-----------------------------------------------------------------------------
(***************************************************************************)
(* Refinement: the loop, its queues and its counters implement DagRun.     *)
(***************************************************************************)
LEMMA StatusFacts ==
    ASSUME TypeOK
    PROVE  /\ abstractStatus \in [Job -> Abstract!Statuses]
           /\ \A j \in Job : /\ (abstractStatus[j] = "waiting") <=> (worker[j] = "idle")
                             /\ (abstractStatus[j] = "started") <=> Active(j)
                             /\ (abstractStatus[j] = "ok") <=> (worker[j] = "ok")
                             /\ (abstractStatus[j] = "failed") <=> (worker[j] = "failed")
                             /\ (abstractStatus[j] = "raised") <=> (worker[j] = "raised")
BY DEF TypeOK, Results, abstractStatus, Active, Abstract!Statuses

LEMMA AbstractInit == Init => Abstract!Init
BY DEF Init, Abstract!Init, abstractStatus, abstractPhase

LEMMA AbstractSubmit == IInv /\ IInv' /\ Submit => \E j \in Job : Abstract!Start(j)
<1> SUFFICES ASSUME IInv, IInv', Submit PROVE \E j \in Job : Abstract!Start(j)
  OBVIOUS
<1>0. PICK j \in Job : j = Head(ready)
  <2>1. ready \in Seq(Job) /\ ready # <<>>
    BY DEF IInv, TypeOK, Submit
  <2> QED BY <2>1, PopFacts
<1> DEFINE c == ClassOf[j]
           Same == {k \in Abstract!Started : ClassOf[k] = c}
<1>1. /\ j \in Job /\ j \in Range(ready) /\ c \in Class
      /\ running[c] < Cap(c) /\ worker' = [worker EXCEPT ![j] = "queued"]
      /\ pc = "dispatch" /\ pc' = pc /\ ~stop /\ stop' = stop
  <2>1. ready \in Seq(Job) /\ ready # <<>>
    BY DEF IInv, TypeOK, Submit
  <2> QED BY <2>1, <1>0, PopFacts, GraphAssumption DEF Submit
<1>2. worker[j] = "idle" /\ remaining[j] = {}
  BY <1>1 DEF IInv, QueuesAgree
<1>3. \A d \in Deps[j] : d \in Job /\ worker[d] = "ok"
  BY <1>1, <1>2, GraphAssumption DEF IInv, DependenciesAgree, PoolAgrees
<1>4. Cardinality(Same) < Cap(c)
  <2>1. Same \in SUBSET InFlight(c)
    BY StatusFacts DEF IInv, PoolAgrees, InFlight, Abstract!Started
  <2>2. IsFiniteSet(InFlight(c))
    <3>1. InFlight(c) \in SUBSET Job
      BY DEF IInv, TypeOK, InFlight
    <3> QED BY <3>1, FS_Subset, GraphAssumption
  <2>3. Cardinality(Same) <= Cardinality(InFlight(c))
        /\ Cardinality(Same) \in Nat /\ Cardinality(InFlight(c)) \in Nat
    BY <2>1, <2>2, FS_Subset, FS_CardinalityType
  <2> QED BY <1>1, <2>3, CapFacts DEF IInv, CountersAgree
<1>5. abstractStatus' = [abstractStatus EXCEPT ![j] = "started"]
  BY <1>1 DEF IInv, TypeOK, abstractStatus
<1>6. abstractPhase = "open" /\ abstractPhase' = "open"
  BY <1>1 DEF abstractPhase
<1>7. abstractStatus[j] = "waiting" /\ \A d \in Deps[j] : abstractStatus[d] = "ok"
  BY <1>1, <1>2, <1>3, StatusFacts DEF IInv
<1>8. Abstract!DepsOk(j)
  BY <1>7 DEF Abstract!DepsOk
<1>9. Abstract!Cardinality(Same) = Cardinality(Same)
  BY DEF Abstract!Cardinality, Cardinality
<1>10. Abstract!Start(j)
  BY <1>4, <1>5, <1>6, <1>7, <1>8, <1>9 DEF Abstract!Start
<1> QED BY <1>10

LEMMA AbstractStutter ==
    ASSUME UNCHANGED <<worker, stop>>, pc' = pc \/ (pc' \notin {"done", "aborted", "unwind"}
                                                  /\ pc \notin {"done", "aborted", "unwind"})
    PROVE  UNCHANGED Abstract!vars
BY DEF Abstract!vars, abstractStatus, abstractPhase

LEMMA AbstractCollect ==
    ASSUME NEW j \in Job, CollectOk(j) \/ CollectCandidateFailure(j)
    PROVE  UNCHANGED Abstract!vars
BY AbstractStutter DEF CollectOk, CollectCandidateFailure, Pop, AfterCollect

\* A failure without a candidate, or an exception, stops the abstract run the
\* first time; later ones find it stopped.
LEMMA AbstractFailure ==
    ASSUME IInv, NEW j \in Job, CollectMissionFailure(j) \/ CollectRaise(j)
    PROVE  Abstract!Stop \/ UNCHANGED Abstract!vars
<1>1. /\ pc = "collect" /\ pc' \notin {"done", "aborted"} /\ worker' = worker
      /\ worker[j] \in {"failed", "raised"}
      /\ stop' = TRUE \/ (pc' = "unwind" /\ stop' = stop)
  BY DEF CollectMissionFailure, CollectRaise, Pop, AfterCollect
<1>2. abstractStatus' = abstractStatus /\ abstractStatus[j] \in {"failed", "raised"}
  BY <1>1, StatusFacts DEF IInv, abstractStatus
<1>3. abstractPhase' = "stopped"
  BY <1>1 DEF abstractPhase
<1>4. abstractPhase = IF stop THEN "stopped" ELSE "open"
  BY <1>1 DEF abstractPhase
<1> QED BY <1>2, <1>3, <1>4 DEF Abstract!Stop, Abstract!vars

\* An unwound run closes because it was stopped; a finished one because it was
\* stopped or because every job that could start is no longer waiting.
LEMMA AbstractClose == IInv /\ (Unwind \/ Finish) => Abstract!Close
<1> SUFFICES ASSUME IInv, Unwind \/ Finish PROVE Abstract!Close
  OBVIOUS
<1>1. /\ worker' = worker /\ stop' = stop
      /\ pc \in {"unwind", "finish"} /\ pc' \in {"done", "aborted"}
  BY DEF Unwind, Finish
<1>2. \A j \in Job : ~Active(j)
  <2>1. CASE pc = "unwind"
    BY <2>1 DEF Unwind, Finish, Active
  <2>2. CASE pc = "finish"
    BY <2>2 DEF IInv, ControlAgrees, PoolAgrees
  <2> QED BY <1>1, <2>1, <2>2
<1>3. Abstract!Started = {}
  BY <1>2, StatusFacts DEF IInv, Abstract!Started
<1>4. abstractPhase' = "closed" /\ abstractPhase # "closed" /\ abstractStatus' = abstractStatus
  BY <1>1 DEF abstractPhase, abstractStatus
<1>5. abstractPhase = "stopped"
      \/ \A j \in Job : abstractStatus[j] = "waiting" => ~Abstract!DepsOk(j)
  <2>1. CASE stop \/ pc = "unwind"
    BY <1>1, <2>1 DEF abstractPhase
  <2>2. CASE ~stop /\ pc = "finish"
    <3>1. ready = <<>> /\ deferred = <<>> /\ futures = {}
      BY <2>2 DEF IInv, ControlAgrees
    <3>2. Range(ready) = {} /\ Range(deferred) = {}
      BY <3>1 DEF Range
    <3>3. ASSUME NEW j \in Job, abstractStatus[j] = "waiting", Abstract!DepsOk(j)
          PROVE  FALSE
      <4>1. worker[j] = "idle"
        BY <3>3, StatusFacts DEF IInv
      <4>2. \A d \in Deps[j] : d \in Job /\ worker[d] = "ok"
        BY <3>3, StatusFacts, GraphAssumption DEF IInv, Abstract!DepsOk
      <4>3. \A d \in Deps[j] : d \in completed
        BY <3>1, <4>2 DEF IInv, PoolAgrees
      <4>4. remaining[j] = {}
        BY <4>3 DEF IInv, DependenciesAgree
      <4> QED BY <3>2, <4>1, <4>4 DEF IInv, QueuesAgree
    <3> QED BY <3>3
  <2> QED BY <1>1, <2>1, <2>2
<1> QED BY <1>3, <1>4, <1>5 DEF Abstract!Close

LEMMA AbstractWorker ==
    ASSUME IInv, NEW j \in Job, WorkerStart(j) \/ WorkerEnd(j)
    PROVE  Abstract!End(j) \/ UNCHANGED Abstract!vars
<1>1. UNCHANGED <<pc, stop>> /\ Active(j)
  BY DEF WorkerStart, WorkerEnd, main, Active
<1>2. UNCHANGED abstractPhase
  BY <1>1 DEF abstractPhase
<1>3. CASE WorkerStart(j)
  <2>1. worker[j] = "queued" /\ worker' = [worker EXCEPT ![j] = "working"]
    BY <1>3 DEF WorkerStart
  <2>2. abstractStatus' = abstractStatus
    BY <2>1 DEF IInv, TypeOK, abstractStatus
  <2> QED BY <1>2, <2>2 DEF Abstract!vars
<1>4. CASE WorkerEnd(j)
  <2>1. PICK r \in Results : worker' = [worker EXCEPT ![j] = r]
    BY <1>4 DEF WorkerEnd
  <2>2. abstractStatus[j] = "started"
    BY <1>1, StatusFacts DEF IInv
  <2>3. abstractStatus' = [abstractStatus EXCEPT ![j] = r]
    BY <2>1 DEF IInv, TypeOK, abstractStatus, Results
  <2>4. abstractPhase # "closed"
    <3>1. pc \notin {"done", "aborted"}
      BY <1>1 DEF IInv, ControlAgrees, PoolAgrees
    <3> QED BY <3>1 DEF abstractPhase
  <2> QED BY <1>2, <2>2, <2>3, <2>4 DEF Abstract!End, Results
<1> QED BY <1>3, <1>4

\* Scheduler.run implements the abstract run: nothing starts early, twice, over
\* its width or after a stop, and no job that could run is left out of a run
\* that was not stopped.
THEOREM Refinement == Spec => ImplementsDagRun
<1>1. Init => Abstract!Init
  BY AbstractInit
<1>2. IInv /\ IInv' /\ [Next]_vars => [Abstract!Next]_(Abstract!vars)
  <2> SUFFICES ASSUME IInv, IInv', [Next]_vars PROVE [Abstract!Next]_(Abstract!vars)
    OBVIOUS
  <2>1. CASE Submit
    BY <2>1, AbstractSubmit DEF Abstract!Next
  <2>2. CASE Defer \/ EndDispatch \/ Wait \/ Terminated \/ UNCHANGED vars
    <3>1. UNCHANGED <<worker, stop>>
      BY <2>2 DEF Defer, EndDispatch, Wait, Terminated, vars, main
    <3>2. pc' = pc \/ (pc' \notin {"done", "aborted", "unwind"} /\ pc \notin {"done", "aborted", "unwind"})
      BY <2>2 DEF Defer, EndDispatch, Wait, Terminated, vars, main
    <3> QED BY <3>1, <3>2, AbstractStutter
  <2>3. ASSUME NEW j \in Job, CollectOk(j) \/ CollectCandidateFailure(j)
        PROVE  [Abstract!Next]_(Abstract!vars)
    BY <2>3, AbstractCollect
  <2>4. ASSUME NEW j \in Job, CollectMissionFailure(j) \/ CollectRaise(j)
        PROVE  [Abstract!Next]_(Abstract!vars)
    BY <2>4, AbstractFailure DEF Abstract!Next
  <2>5. CASE Unwind \/ Finish
    BY <2>5, AbstractClose DEF Abstract!Next
  <2>6. ASSUME NEW j \in Job, WorkerStart(j) \/ WorkerEnd(j)
        PROVE  [Abstract!Next]_(Abstract!vars)
    BY <2>6, AbstractWorker DEF Abstract!Next
  <2> QED BY <2>1, <2>2, <2>3, <2>4, <2>5, <2>6 DEF Next, MainStep
<1> QED BY <1>1, <1>2, Invariance, PTL DEF Spec, ImplementsDagRun, Abstract!Spec

-----------------------------------------------------------------------------
(***************************************************************************)
(* What a failure leaves out: the jobs downstream of it, and no other.       *)
(***************************************************************************)

\* What the summary says of a job is what became of it in the pool, once collected.
OutcomesAgree ==
    /\ \A j \in Job : outcome[j] = "ok" <=> j \in completed
    /\ \A j \in Job : outcome[j] = "failed" <=> worker[j] = "failed" /\ j \notin futures
    /\ \A j \in Job : worker[j] = "raised" /\ j \notin futures => pc \in {"unwind", "aborted"}
    /\ stop => blocked # None
    /\ pc \in {"finish", "done"} => stop \/ (ready = <<>> /\ deferred = <<>>)

LEMMA OutcomesStart == Init => OutcomesAgree
BY GraphAssumption DEF Init, OutcomesAgree

LEMMA OutcomesDispatch ==
    ASSUME IInv, OutcomesAgree, Submit \/ Defer \/ EndDispatch \/ Wait
    PROVE  OutcomesAgree'
<1>1. UNCHANGED <<completed, stop, outcome, blocked>>
  BY DEF Submit, Defer, EndDispatch, Wait, summary
<1>2. CASE Submit
  <2>1. ready \in Seq(Job) /\ ready # <<>> /\ Head(ready) \in Job /\ Head(ready) \in Range(ready)
    <3>1. ready \in Seq(Job) /\ ready # <<>>
      BY <1>2 DEF IInv, TypeOK, Submit
    <3> QED BY <3>1, PopFacts
  <2>2. PICK j \in Job : j = Head(ready)
    BY <2>1
  <2>3. /\ futures' = futures \cup {j} /\ worker' = [worker EXCEPT ![j] = "queued"] /\ pc' = pc /\ pc = "dispatch"
    BY <1>2, <2>2 DEF Submit
  <2>4. worker[j] = "idle" /\ j \notin futures
    BY <2>1, <2>2 DEF IInv, QueuesAgree, PoolAgrees
  <2>5. worker'[j] = "queued" /\ \A k \in Job : k # j => worker'[k] = worker[k]
    BY <2>3 DEF IInv, TypeOK
  <2> QED BY <1>1, <2>3, <2>4, <2>5 DEF OutcomesAgree
<1>3. CASE Defer \/ Wait
  BY <1>1, <1>3 DEF Defer, Wait, OutcomesAgree
<1>4. CASE EndDispatch
  <2>1. /\ UNCHANGED <<worker, futures>> /\ pc = "dispatch" /\ deferred' = <<>>
        /\ pc' = (IF futures = {} THEN "finish" ELSE "wait")
        /\ ready' = (IF stop THEN ready ELSE deferred)
    BY <1>4 DEF EndDispatch
  <2>2. pc' = "finish" => stop' \/ (ready' = <<>> /\ deferred' = <<>>)
    BY <1>1, <2>1 DEF IInv, ControlAgrees
  <2> QED BY <1>1, <2>1, <2>2 DEF OutcomesAgree
<1> QED BY <1>2, <1>3, <1>4

LEMMA OutcomesCollect ==
    ASSUME IInv, OutcomesAgree, NEW j \in Job,
           CollectOk(j) \/ CollectCandidateFailure(j) \/ CollectMissionFailure(j) \/ CollectRaise(j)
    PROVE  OutcomesAgree'
<1>1. /\ pc = "collect" /\ futures' = futures \ {j} /\ worker' = worker /\ j \in futures
      /\ pc' \in {"dispatch", "collect", "unwind"}
  BY DEF CollectOk, CollectCandidateFailure, CollectMissionFailure, CollectRaise, Pop, AfterCollect,
         IInv, PoolAgrees
<1>2. j \notin completed /\ outcome \in [Job -> {"ok", "failed", None}]
  BY <1>1 DEF IInv, PoolAgrees, TypeOK
<1>3. CASE CollectOk(j)
  <2>1. /\ worker[j] = "ok" /\ outcome' = [outcome EXCEPT ![j] = "ok"] /\ completed' = completed \cup {j}
        /\ stop' = stop /\ blocked' = blocked
    BY <1>3 DEF CollectOk
  <2>2. outcome'[j] = "ok" /\ \A k \in Job : k # j => outcome'[k] = outcome[k]
    BY <1>2, <2>1
  <2> QED BY <1>1, <1>2, <2>1, <2>2 DEF OutcomesAgree
<1>4. CASE CollectCandidateFailure(j) \/ CollectMissionFailure(j)
  <2>1. /\ worker[j] = "failed" /\ outcome' = [outcome EXCEPT ![j] = "failed"] /\ completed' = completed
    BY <1>4 DEF CollectCandidateFailure, CollectMissionFailure
  <2>2. outcome'[j] = "failed" /\ \A k \in Job : k # j => outcome'[k] = outcome[k]
    BY <1>2, <2>1
  <2>3. stop' => blocked' # None
    BY <1>4, NoneFacts DEF CollectCandidateFailure, CollectMissionFailure, OutcomesAgree
  <2>4. pc' \notin {"finish", "done"}
    BY <1>1
  <2>5. \A k \in Job : worker'[k] = "raised" /\ k \notin futures' => pc' \in {"unwind", "aborted"}
    BY <1>1, <2>1 DEF OutcomesAgree
  <2>6. \A k \in Job : outcome'[k] = "ok" <=> k \in completed'
    BY <1>2, <2>1, <2>2 DEF OutcomesAgree
  <2>7. \A k \in Job : outcome'[k] = "failed" <=> worker'[k] = "failed" /\ k \notin futures'
    BY <1>1, <2>1, <2>2 DEF OutcomesAgree
  <2> QED BY <2>3, <2>4, <2>5, <2>6, <2>7 DEF OutcomesAgree
<1>5. CASE CollectRaise(j)
  <2>1. worker[j] = "raised" /\ pc' = "unwind" /\ UNCHANGED <<completed, stop, outcome, blocked>>
    BY <1>5 DEF CollectRaise, summary
  <2> QED BY <1>1, <2>1 DEF OutcomesAgree
<1> QED BY <1>3, <1>4, <1>5

LEMMA OutcomesElsewhere ==
    ASSUME IInv, OutcomesAgree,
           Unwind \/ Finish \/ Terminated \/ UNCHANGED vars
           \/ \E j \in Job : WorkerStart(j) \/ WorkerEnd(j)
    PROVE  OutcomesAgree'
<1>1. UNCHANGED <<completed, futures, stop, outcome, blocked, ready, deferred>>
  BY DEF Unwind, Finish, Terminated, vars, main, summary, WorkerStart, WorkerEnd
<1>2. CASE Unwind \/ Finish \/ Terminated \/ UNCHANGED vars
  <2>1. UNCHANGED worker /\ (pc' = pc \/ (pc = "unwind" /\ pc' = "aborted") \/ (pc = "finish" /\ pc' = "done"))
    BY <1>2 DEF Unwind, Finish, Terminated, vars, main
  <2> QED BY <1>1, <2>1 DEF OutcomesAgree
<1>3. ASSUME NEW j \in Job, WorkerStart(j) \/ WorkerEnd(j)
      PROVE  OutcomesAgree'
  <2>1. /\ Active(j) /\ pc' = pc
        /\ \E w \in {"working"} \cup Results : worker' = [worker EXCEPT ![j] = w]
    BY <1>3 DEF WorkerStart, WorkerEnd, Active, main
  <2>2. j \in futures /\ \A k \in Job : k # j => worker'[k] = worker[k]
    BY <2>1 DEF IInv, TypeOK, PoolAgrees
  <2> QED BY <1>1, <2>1, <2>2 DEF OutcomesAgree
<1> QED BY <1>2, <1>3

LEMMA OutcomesAlways == Spec => [](IInv /\ OutcomesAgree)
<1>1. Init => IInv /\ OutcomesAgree
  BY InitIInv, OutcomesStart
<1>2. IInv /\ OutcomesAgree /\ [Next]_vars => (IInv /\ OutcomesAgree)'
  BY NextIInv, OutcomesDispatch, OutcomesCollect, OutcomesElsewhere DEF Next, MainStep
<1> QED BY <1>1, <1>2, PTL DEF Spec

\* A non-empty set of numbers has a least one.
LEMMA LeastOf ==
    ASSUME NEW T \in SUBSET Nat, T # {}
    PROVE  \E x \in T : \A y \in T : x <= y
<1> DEFINE R == OpToRel(<, Nat)
<1>1. \E x \in T : \A y \in T : ~(<<y, x>> \in R)
  BY WFMin, NatLessThanWellFounded
<1>2. R = {ss \in Nat \X Nat : ss[1] < ss[2]}
  BY DEF OpToRel
<1> HIDE DEF R
<1>3. PICK x \in T : \A y \in T : <<y, x>> \notin R
  BY <1>1
<1>4. ASSUME NEW y \in T PROVE x <= y
  <2>1. x \in Nat /\ y \in Nat /\ <<y, x>> \in Nat \X Nat
    OBVIOUS
  <2>2. ~(y < x)
    BY <1>2, <1>3, <2>1
  <2> QED BY <2>1, <2>2
<1> QED BY <1>3, <1>4

\* Some function takes the first N of those steps, one after another.
HasWalk(S, base, step, N) ==
    \E f \in [0..N -> S] : f[0] = base /\ \A n \in 1..N : f[n] = step[f[n - 1]]

\* One step after another, as far as a number of them: the walk exists.
LEMMA Iterates ==
    ASSUME NEW S, NEW base \in S, NEW next \in [S -> S], NEW N \in Nat
    PROVE  HasWalk(S, base, next, N)
<1> DEFINE Walk(f, n) == f \in [0..n -> S] /\ f[0] = base /\ \A m \in 1..n : f[m] = next[f[m - 1]]
<1> DEFINE Lost == {n \in Nat : ~\E f : Walk(f, n)}
<1>1. SUFFICES ASSUME Lost # {} PROVE FALSE
  BY DEF HasWalk
<1>2. PICK n \in Lost : \A m \in Lost : n <= m
  BY <1>1, LeastOf
<1>3. CASE n = 0
  <2>1. Walk([m \in 0..0 |-> base], 0)
    OBVIOUS
  <2> QED BY <1>2, <1>3, <2>1
<1>4. CASE n # 0
  <2>1. n \in Nat /\ n - 1 \in Nat /\ ~(n <= n - 1)
    BY <1>2, <1>4
  <2>2. PICK f : Walk(f, n - 1)
    BY <1>2, <2>1
  <2> DEFINE g == [m \in 0..n |-> IF m = n THEN next[f[n - 1]] ELSE f[m]]
  <2>3. f[n - 1] \in S /\ next[f[n - 1]] \in S
    BY <2>1, <2>2
  <2>4. \A m \in 0..n : m = n \/ m \in 0..(n - 1)
    BY <2>1
  <2>5. g \in [0..n -> S]
    BY <2>2, <2>3, <2>4
  <2>6. g[0] = base
    BY <2>1, <2>2, <1>4
  <2>7. ASSUME NEW m \in 1..n PROVE g[m] = next[g[m - 1]]
    <3>1. m \in 0..n /\ m - 1 \in 0..n /\ m - 1 # n /\ m \in Nat
      BY <2>1
    <3>2. g[m - 1] = f[m - 1]
      BY <3>1
    <3>3. CASE m = n
      BY <3>1, <3>2, <3>3
    <3>4. CASE m # n
      <4>1. m \in 1..(n - 1)
        BY <2>1, <3>4
      <4> QED BY <2>2, <3>1, <3>2, <3>4, <4>1
    <3> QED BY <3>3, <3>4
  <2>8. Walk(g, n)
    BY <2>5, <2>6, <2>7
  <2> QED BY <1>2, <2>8
<1> QED BY <1>3, <1>4

\* The ancestors of a job: its dependencies, their dependencies, and no others.
LEMMA AncestorsFacts ==
    ASSUME NEW j \in Job
    PROVE  /\ Ancestors(j) \subseteq Job
           /\ Deps[j] \subseteq Ancestors(j)
           /\ \A k \in Ancestors(j) : Deps[k] \subseteq Ancestors(j)
           /\ \A S \in SUBSET Job : Deps[j] \subseteq S /\ (\A k \in S : Deps[k] \subseteq S) => Ancestors(j) \subseteq S
<1> DEFINE N == Cardinality(Job)
           step(S) == S \cup UNION {Deps[k] : k \in S}
           next == [S \in SUBSET Job |-> step(S)]
           f[n \in 0..N] == IF n = 0 THEN Deps[j] ELSE step(f[n - 1])
<1>1. N \in Nat /\ IsFiniteSet(Job) /\ Deps[j] \in SUBSET Job /\ Deps \in [Job -> SUBSET Job]
  BY GraphAssumption, FS_CardinalityType
<1>2. Ancestors(j) = f[N]
  BY DEF Ancestors
<1>3. next \in [SUBSET Job -> SUBSET Job]
  BY <1>1
<1> HIDE DEF N
<1>4. \E g : g = [n \in 0..N |-> IF n = 0 THEN Deps[j] ELSE step(g[n - 1])]
  <2>1. PICK g \in [0..N -> SUBSET Job] : g[0] = Deps[j] /\ \A n \in 1..N : g[n] = next[g[n - 1]]
    <3>1. N \in Nat /\ Deps[j] \in SUBSET Job
      BY <1>1
    <3> HIDE DEF next
    <3>2. PICK T, base, walk, last : T = SUBSET Job /\ base = Deps[j] /\ walk = next /\ last = N
      OBVIOUS
    <3>3. base \in T /\ walk \in [T -> T] /\ last \in Nat
      BY <1>3, <3>1, <3>2
    <3>4. HasWalk(T, base, walk, last)
      BY <3>3, Iterates
    <3> QED BY <3>2, <3>4 DEF HasWalk
  <2>2. ASSUME NEW n \in 0..N PROVE g[n] = IF n = 0 THEN Deps[j] ELSE step(g[n - 1])
    <3>1. CASE n = 0
      BY <2>1, <3>1
    <3>2. CASE n # 0
      <4>1. n \in 1..N /\ n - 1 \in 0..N
        BY <1>1, <3>2
      <4>2. g[n - 1] \in SUBSET Job
        BY <2>1, <4>1
      <4> QED BY <2>1, <3>2, <4>1, <4>2
    <3> QED BY <3>1, <3>2
  <2> HIDE DEF step, next
  <2>3. g = [n \in 0..N |-> IF n = 0 THEN Deps[j] ELSE step(g[n - 1])]
    BY <2>1, <2>2
  <2> QED BY <2>3
<1>5. f = [n \in 0..N |-> IF n = 0 THEN Deps[j] ELSE step(f[n - 1])]
  <2> HIDE DEF step
  <2> QED BY <1>4, Zenon
<1>6. f[0] = Deps[j] /\ \A n \in 1..N : f[n] = step(f[n - 1])
  <2> HIDE DEF f, step
  <2>1. 0 \in 0..N /\ \A n \in 1..N : n \in 0..N /\ n # 0
    BY <1>1
  <2> QED BY <1>5, <2>1
<1> HIDE DEF f
\* By induction on how far the walk has gone.
<1>7. ASSUME NEW S \in SUBSET Job, Deps[j] \subseteq S, \A k \in S : Deps[k] \subseteq S
      PROVE  \A n \in 0..N : f[n] \subseteq S
  <2> DEFINE Out == {n \in 0..N : ~(f[n] \subseteq S)}
  <2>1. SUFFICES ASSUME Out # {} PROVE FALSE
    OBVIOUS
  <2>2. PICK n \in Out : \A m \in Out : n <= m
    <3>1. Out \in SUBSET Nat
      BY <1>1
    <3> HIDE DEF Out
    <3> QED BY <2>1, <3>1, LeastOf
  <2>3. n # 0
    BY <1>6, <1>7, <2>2
  <2>4. n \in 1..N /\ n - 1 \in 0..N /\ ~(n <= n - 1)
    BY <1>1, <2>2, <2>3
  <2>5. f[n - 1] \subseteq S
    BY <2>2, <2>4
  <2>6. f[n] \subseteq S
    BY <1>6, <1>7, <2>4, <2>5
  <2> QED BY <2>2, <2>6
<1>8. \A n \in 0..N : f[n] \subseteq Job
  BY <1>1, <1>7
<1> DEFINE Still(n) == step(f[n]) = f[n]
<1>9. ASSUME NEW n \in 1..N, Still(n - 1) PROVE Still(n)
  BY <1>6, <1>9
\* It goes on as long as it finds more jobs, and there are no more than N.
<1>10. \A n \in 0..N : Still(n) \/ n < Cardinality(f[n])
  <2> DEFINE Out == {n \in 0..N : ~(Still(n) \/ n < Cardinality(f[n]))}
  <2>1. SUFFICES ASSUME Out # {} PROVE FALSE
    OBVIOUS
  <2>2. PICK n \in Out : \A m \in Out : n <= m
    <3>1. Out \in SUBSET Nat
      BY <1>1
    <3> HIDE DEF Out
    <3> QED BY <2>1, <3>1, LeastOf
  <2>3. \A m \in 0..N : IsFiniteSet(f[m]) /\ Cardinality(f[m]) \in Nat
    BY <1>1, <1>8, FS_Subset, FS_CardinalityType
  <2>4. n # 0
    <3>1. Still(0) \/ Deps[j] # {}
      BY <1>6
    <3>2. Deps[j] # {} => 0 < Cardinality(f[0])
      <4>1. 0 \in 0..N
        BY <1>1
      <4>2. Cardinality(f[0]) = 0 => f[0] = {}
        BY <2>3, <4>1, FS_EmptySet
      <4> QED BY <1>6, <2>3, <4>1, <4>2
    <3> QED BY <2>2, <3>1, <3>2
  <2>5. n \in 1..N /\ n - 1 \in 0..N /\ ~(n <= n - 1) /\ n \in Nat
    BY <1>1, <2>2, <2>4
  <2>6. Still(n - 1) \/ n - 1 < Cardinality(f[n - 1])
    BY <2>2, <2>5
  <2>7. CASE Still(n - 1)
    BY <1>9, <2>2, <2>5, <2>7
  <2>8. CASE ~Still(n - 1) /\ n - 1 < Cardinality(f[n - 1])
    <3>1. f[n] = step(f[n - 1]) /\ f[n - 1] \subseteq f[n] /\ f[n - 1] # f[n]
      BY <1>6, <2>5, <2>8
    <3>2. Cardinality(f[n - 1]) <= Cardinality(f[n]) /\ Cardinality(f[n - 1]) # Cardinality(f[n])
      BY <2>3, <2>5, <3>1, FS_Subset
    <3>3. n < Cardinality(f[n])
      BY <2>3, <2>5, <2>8, <3>2
    <3> QED BY <2>2, <3>3
  <2> QED BY <2>6, <2>7, <2>8
<1>11. Still(N)
  <2>1. N \in 0..N
    BY <1>1
  <2>2. Cardinality(f[N]) <= N /\ Cardinality(f[N]) \in Nat
    <3>1. f[N] \in SUBSET Job
      BY <1>8, <2>1
    <3> QED BY <1>1, <3>1, FS_Subset, FS_CardinalityType DEF N
  <2> QED BY <1>1, <1>10, <2>1, <2>2
<1>12. \A n \in 0..N : Deps[j] \subseteq f[n]
  <2> DEFINE Out == {n \in 0..N : ~(Deps[j] \subseteq f[n])}
  <2>1. SUFFICES ASSUME Out # {} PROVE FALSE
    OBVIOUS
  <2>2. PICK n \in Out : \A m \in Out : n <= m
    <3>1. Out \in SUBSET Nat
      BY <1>1
    <3> HIDE DEF Out
    <3> QED BY <2>1, <3>1, LeastOf
  <2>3. n # 0
    BY <1>6, <2>2
  <2>4. n \in 1..N /\ n - 1 \in 0..N /\ ~(n <= n - 1)
    BY <1>1, <2>2, <2>3
  <2> QED BY <1>6, <2>2, <2>4
<1>13. N \in 0..N
  BY <1>1
<1>14. \A k \in f[N] : Deps[k] \subseteq f[N]
  BY <1>11
<1> QED BY <1>2, <1>7, <1>8, <1>12, <1>13, <1>14

\* A run that was not stopped leaves out exactly the jobs downstream of a failed one,
\* whatever the graph, and whatever order they end and are collected in: no failure
\* reaches a job that does not depend on it, and no job that could run is left.
THEOREM FailuresAreScoped == Spec => []FailureIsScoped
<1>1. IInv /\ OutcomesAgree => FailureIsScoped
  <2> SUFFICES ASSUME IInv, OutcomesAgree, pc = "done", blocked = None, NEW j \in Job
               PROVE  j \in NotRun <=> \E a \in Ancestors(j) : outcome[a] = "failed"
    BY DEF FailureIsScoped
  <2>1. futures = {} /\ ready = <<>> /\ deferred = <<>> /\ outcome \in [Job -> {"ok", "failed", None}]
    BY DEF IInv, ControlAgrees, OutcomesAgree, TypeOK
  <2>2. Range(ready) = {} /\ Range(deferred) = {}
    BY <2>1 DEF Range
  \* What has no outcome waits for a dependency that is not ok.
  <2>3. ASSUME NEW k \in NotRun
        PROVE  k \in Job /\ \E d \in Deps[k] : outcome[d] = "failed" \/ d \in NotRun
    <3>1. k \in Job /\ outcome[k] = None
      BY DEF NotRun
    <3>2. worker[k] = "idle"
      BY <2>1, <3>1, GraphAssumption
         DEF IInv, TypeOK, PoolAgrees, Active, OutcomesAgree, Results
    <3>3. remaining[k] # {} /\ remaining[k] = Deps[k] \ completed
      BY <2>2, <3>1, <3>2 DEF IInv, QueuesAgree, DependenciesAgree
    <3>4. PICK d \in Deps[k] : d \notin completed
      BY <3>3
    <3>5. d \in Job /\ outcome[d] \in {"failed", None}
      BY <2>1, <3>1, <3>4, GraphAssumption DEF OutcomesAgree
    <3> QED BY <3>1, <3>5 DEF NotRun
  <2>4. ASSUME j \in NotRun PROVE \E a \in Ancestors(j) : outcome[a] = "failed"
    <3> DEFINE lost == {k \in NotRun : k = j \/ k \in Ancestors(j)}
    <3>1. lost \in SUBSET Job /\ lost # {}
      BY <2>4 DEF NotRun
    <3>2. PICK k \in lost : Deps[k] \cap lost = {}
      BY <3>1, AcyclicAssumption
    <3>3. PICK d \in Deps[k] : outcome[d] = "failed" \/ d \in NotRun
      BY <2>3, <3>2
    <3>4. d \in Ancestors(j)
      BY <3>2, <3>3, AncestorsFacts
    <3> QED BY <3>2, <3>3, <3>4
  <2>5. ASSUME j \notin NotRun, NEW a \in Ancestors(j) PROVE outcome[a] # "failed"
    <3>1. \A k \in Job : worker[k] # "idle" => Deps[k] \subseteq completed
      BY DEF IInv, DependenciesAgree
    <3>2. \A k \in completed : worker[k] # "idle" /\ k \in Job
      BY DEF IInv, PoolAgrees, TypeOK
    <3>3. worker[j] # "idle"
      BY <2>1, <2>5, <3>2, GraphAssumption DEF NotRun, OutcomesAgree
    <3>4. Ancestors(j) \subseteq completed
      <4>1. completed \in SUBSET Job /\ Deps[j] \subseteq completed /\ \A k \in completed : Deps[k] \subseteq completed
        BY <3>1, <3>2, <3>3
      <4> QED BY <4>1, AncestorsFacts
    <3>5. a \in Job /\ outcome[a] = "ok"
      BY <2>5, <3>2, <3>4 DEF OutcomesAgree
    <3> QED BY <3>5
  <2> QED BY <2>4, <2>5
<1> QED BY <1>1, OutcomesAlways, PTL

=============================================================================
