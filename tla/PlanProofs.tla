------------------------------ MODULE PlanProofs ------------------------------
(***************************************************************************)
(* Whatever is asked for, the plan has every dependency it names, names    *)
(* none twice and goes round nowhere; and Kahn's algorithm, which orders   *)
(* it, keeps every job's indegree at what its list still lacks of the      *)
(* order and the jobs out of debt ordered or queued.  So every plan is     *)
(* ordered, and correctly.                                                 *)
(***************************************************************************)
EXTENDS Plan, Lot, TLAPS, FiniteSetTheorems, WellFoundedInduction

------------------------------------------------------------------------------
(* Kahn's algorithm.                                                       *)

Queued == UNION Elements(ready)
Apart(sets) == \A a, b \in 1..Len(sets) : a # b => sets[a] \cap sets[b] = {}
Debt(list, done) == Len(list) - Cardinality(Elements(list) \cap done)

KahnInv ==
    /\ IsGraph(graph)
    /\ verdict \in {"counting", "ordering", "unknown", "ordered", "cycle"}
    /\ order \in Seq(Jobs) /\ ready \in Seq(SUBSET Jobs)
    /\ verdict \in {"counting", "unknown"} => order = <<>>
    /\ verdict = "unknown" => \E j \in Jobs : ~(Elements(graph[j]) \subseteq Jobs)
    /\ verdict \in {"ordering", "ordered", "cycle"} =>
          /\ \A j \in Jobs : Elements(graph[j]) \subseteq Jobs
          /\ indegree = [j \in Jobs |-> Debt(graph[j], Done)]
          /\ Queued \cap Done = {} /\ Apart(ready)
          /\ \A j \in Jobs : j \in Done \cup Queued <=> indegree[j] = 0
    /\ OrderRespectsDeps
    /\ verdict \in {"ordered", "cycle"} => ready = <<>>
    /\ verdict = "ordered" <=> verdict \notin {"counting", "unknown", "ordering"} /\ Len(order) = Cardinality(Jobs)

------------------------------------------------------------------------------
(* Lists and what they name.                                               *)

LEMMA ElementsFinite ==
    ASSUME NEW S, NEW list \in Seq(S)
    PROVE  /\ IsFiniteSet(Elements(list))
           /\ Cardinality(Elements(list)) \in Nat
           /\ Cardinality(Elements(list)) <= Len(list)
           /\ (\A i, k \in 1..Len(list) : list[i] = list[k] => i = k) => Cardinality(Elements(list)) = Len(list)
<1>1. list \in Surjection(1..Len(list), Elements(list))
  BY DEF Elements, Surjection
<1>2. Len(list) \in Nat /\ IsFiniteSet(1..Len(list)) /\ Cardinality(1..Len(list)) = Len(list)
  <2>1. Len(list) \in Nat /\ Len(list) \in Int /\ 1 \in Int
    OBVIOUS
  <2>2. /\ IsFiniteSet(1..Len(list))
        /\ Cardinality(1..Len(list)) = IF 1 > Len(list) THEN 0 ELSE Len(list) - 1 + 1
    BY <2>1, FS_Interval
  <2> QED BY <2>1, <2>2
<1>3. /\ IsFiniteSet(Elements(list))
      /\ Cardinality(Elements(list)) <= Len(list)
      /\ Cardinality(Elements(list)) = Len(list) <=> list \in Injection(1..Len(list), Elements(list))
  BY <1>1, <1>2, FS_Surjection
<1>4. (\A i, k \in 1..Len(list) : list[i] = list[k] => i = k) => list \in Injection(1..Len(list), Elements(list))
  BY <1>1 DEF Injection, Surjection, IsInjective
<1> QED BY <1>3, <1>4, FS_CardinalityType

\* A list whose debt is paid names ordered jobs only.
LEMMA PaidOff ==
    ASSUME NEW S, NEW list \in Seq(S), NEW done
    PROVE  /\ Debt(list, done) \in Int
           /\ Debt(list, done) = 0 => Elements(list) \subseteq done
<1>1. /\ IsFiniteSet(Elements(list)) /\ Len(list) \in Nat
      /\ Cardinality(Elements(list)) \in Nat /\ Cardinality(Elements(list)) <= Len(list)
  BY ElementsFinite
<1>2. /\ Cardinality(Elements(list) \cap done) <= Cardinality(Elements(list))
      /\ Cardinality(Elements(list)) = Cardinality(Elements(list) \cap done) => Elements(list) = Elements(list) \cap done
      /\ IsFiniteSet(Elements(list) \cap done)
  BY <1>1, FS_Subset
<1>3. Cardinality(Elements(list) \cap done) \in Nat
  BY <1>2, FS_CardinalityType
<1> QED BY <1>1, <1>2, <1>3 DEF Debt

\* One that names no job twice and is in debt names one that is not ordered.
LEMMA StillWaits ==
    ASSUME NEW S, NEW list \in Seq(S), NEW done,
           Cardinality(Elements(list)) = Len(list), Debt(list, done) # 0
    PROVE  \E d \in Elements(list) : d \notin done
<1> SUFFICES ASSUME Elements(list) \subseteq done PROVE FALSE
  OBVIOUS
<1>1. Elements(list) \cap done = Elements(list)
  OBVIOUS
<1>2. Debt(list, done) = Len(list) - Len(list)
  BY Zenon, <1>1 DEF Debt
<1>3. Len(list) \in Nat
  OBVIOUS
<1> QED BY <1>2, <1>3

\* Each ordered job pays one of the debt of those that name it.
LEMMA DebtFalls ==
    ASSUME NEW S, NEW list \in Seq(S), NEW done, NEW job, job \notin done
    PROVE  Debt(list, done \cup {job}) = Debt(list, done) - (IF job \in Elements(list) THEN 1 ELSE 0)
<1> DEFINE met == Elements(list) \cap done
<1>1. IsFiniteSet(met) /\ Cardinality(met) \in Nat
  BY ElementsFinite, FS_Subset, FS_CardinalityType
<1>2. Debt(list, done) = Len(list) - Cardinality(met) /\ Len(list) \in Nat
  BY DEF Debt
<1>3. CASE job \in Elements(list)
  <2>1. Elements(list) \cap (done \cup {job}) = met \cup {job} /\ job \notin met
    BY <1>3
  <2>2. Cardinality(met \cup {job}) = Cardinality(met) + 1
    BY <1>1, <2>1, FS_AddElement
  <2>3. Debt(list, done \cup {job}) = Len(list) - (Cardinality(met) + 1)
    BY Zenon, <2>1, <2>2 DEF Debt
  <2> HIDE DEF met
  <2> QED BY <1>1, <1>2, <1>3, <2>3
<1>4. CASE job \notin Elements(list)
  <2>1. Elements(list) \cap (done \cup {job}) = met
    BY <1>4
  <2>2. Debt(list, done \cup {job}) = Len(list) - Cardinality(met)
    BY Zenon, <2>1 DEF Debt
  <2> HIDE DEF met
  <2> QED BY <1>1, <1>2, <1>4, <2>2
<1> QED BY <1>3, <1>4

LEMMA ElementsConcat ==
    ASSUME NEW S, NEW s \in Seq(S), NEW t \in Seq(S)
    PROVE  s \o t \in Seq(S) /\ Elements(s \o t) = Elements(s) \cup Elements(t)
<1>1. /\ s \o t \in Seq(S) /\ Len(s \o t) = Len(s) + Len(t)
      /\ \A i \in 1..Len(s) : (s \o t)[i] = s[i]
      /\ \A i \in 1..Len(t) : (s \o t)[Len(s) + i] = t[i]
  OBVIOUS
<1>2. Elements(s \o t) \subseteq Elements(s) \cup Elements(t)
  <2> SUFFICES ASSUME NEW i \in 1..(Len(s) + Len(t)) PROVE (s \o t)[i] \in Elements(s) \cup Elements(t)
    BY <1>1 DEF Elements
  <2>1. CASE i <= Len(s)
    BY <1>1, <2>1 DEF Elements
  <2>2. CASE i > Len(s)
    <3>1. (i - Len(s)) \in 1..Len(t) /\ i = Len(s) + (i - Len(s))
      BY <2>2
    <3>2. (s \o t)[i] = t[i - Len(s)]
      BY <1>1, <3>1
    <3> QED BY <3>1, <3>2 DEF Elements
  <2> QED BY <2>1, <2>2
<1>3. Elements(s) \subseteq Elements(s \o t)
  <2> SUFFICES ASSUME NEW i \in 1..Len(s) PROVE s[i] \in Elements(s \o t)
    BY DEF Elements
  <2>1. i \in 1..Len(s \o t)
    BY <1>1
  <2> QED BY <1>1, <2>1 DEF Elements
<1>4. Elements(t) \subseteq Elements(s \o t)
  <2> SUFFICES ASSUME NEW i \in 1..Len(t) PROVE t[i] \in Elements(s \o t)
    BY DEF Elements
  <2>1. Len(s) + i \in 1..Len(s \o t)
    BY <1>1
  <2> QED BY <1>1, <2>1 DEF Elements
<1> QED BY <1>1, <1>2, <1>3, <1>4

------------------------------------------------------------------------------
(* The queue.                                                              *)

LEMMA BatchFacts ==
    ASSUME NEW J, NEW set \in SUBSET J
    PROVE  Batch(set) \in Seq(SUBSET J) /\ UNION Elements(Batch(set)) = set /\ Apart(Batch(set))
<1>1. CASE set = {}
  <2>1. Batch(set) = <<>> /\ <<>> \in Seq(SUBSET J)
    BY <1>1 DEF Batch
  <2>2. Elements(<<>>) = {}
    BY DEF Elements
  <2>3. Apart(<<>>)
    BY DEF Apart
  <2>4. UNION {} = set
    BY <1>1
  <2> QED BY Zenon, <2>1, <2>2, <2>3, <2>4
<1>2. CASE set # {}
  <2>1. Batch(set) = <<set>> /\ Len(<<set>>) = 1 /\ <<set>>[1] = set
    BY <1>2 DEF Batch
  <2>2. Elements(Batch(set)) = {set}
    BY <2>1 DEF Elements
  <2> QED BY <2>1, <2>2 DEF Apart
<1> QED BY <1>1, <1>2

LEMMA ApartConcat ==
    ASSUME NEW J, NEW s \in Seq(SUBSET J), NEW t \in Seq(SUBSET J), Apart(s), Apart(t),
           (UNION Elements(s)) \cap (UNION Elements(t)) = {}
    PROVE  Apart(s \o t)
<1> SUFFICES ASSUME NEW a \in 1..Len(s \o t), NEW b \in 1..Len(s \o t), a # b
             PROVE  (s \o t)[a] \cap (s \o t)[b] = {}
  BY DEF Apart
<1>1. /\ Len(s \o t) = Len(s) + Len(t)
      /\ \A i \in 1..Len(s) : (s \o t)[i] = s[i]
      /\ \A i \in 1..Len(t) : (s \o t)[Len(s) + i] = t[i]
  OBVIOUS
<1>2. \A i \in 1..Len(s \o t) :
        \/ i \in 1..Len(s) /\ (s \o t)[i] = s[i]
        \/ (i - Len(s)) \in 1..Len(t) /\ (s \o t)[i] = t[i - Len(s)]
  <2> TAKE i \in 1..Len(s \o t)
  <2>1. CASE i <= Len(s)
    BY <1>1, <2>1
  <2>2. CASE i > Len(s)
    <3>1. (i - Len(s)) \in 1..Len(t) /\ i = Len(s) + (i - Len(s))
      BY <1>1, <2>2
    <3> QED BY <1>1, <3>1
  <2> QED BY <1>1, <2>1, <2>2
<1>3. \A i \in 1..Len(s), k \in 1..Len(t) : s[i] \cap t[k] = {}
  BY DEF Elements
<1>4. \A i, k \in 1..Len(s) : i # k => s[i] \cap s[k] = {}
  BY DEF Apart
<1>5. \A i, k \in 1..Len(t) : i # k => t[i] \cap t[k] = {}
  BY DEF Apart
<1>6. CASE a \in 1..Len(s) /\ (s \o t)[a] = s[a]
  <2>1. CASE b \in 1..Len(s) /\ (s \o t)[b] = s[b]
    BY <1>4, <1>6, <2>1
  <2>2. CASE (b - Len(s)) \in 1..Len(t) /\ (s \o t)[b] = t[b - Len(s)]
    BY <1>3, <1>6, <2>2
  <2> QED BY <1>2, <2>1, <2>2
<1>7. CASE (a - Len(s)) \in 1..Len(t) /\ (s \o t)[a] = t[a - Len(s)]
  <2>1. CASE b \in 1..Len(s) /\ (s \o t)[b] = s[b]
    BY <1>3, <1>7, <2>1
  <2>2. CASE (b - Len(s)) \in 1..Len(t) /\ (s \o t)[b] = t[b - Len(s)]
    <3>1. a - Len(s) # b - Len(s)
      OBVIOUS
    <3> QED BY <1>5, <1>7, <2>2, <3>1
  <2> QED BY <1>2, <2>1, <2>2
<1> QED BY <1>2, <1>6, <1>7

LEMMA HeadApart ==
    ASSUME NEW J, NEW s \in Seq(SUBSET J), s # <<>>, Apart(s)
    PROVE  /\ Head(s) \in SUBSET J /\ Tail(s) \in Seq(SUBSET J) /\ Apart(Tail(s))
           /\ UNION Elements(s) = Head(s) \cup UNION Elements(Tail(s))
           /\ Head(s) \cap UNION Elements(Tail(s)) = {}
<1>1. /\ Tail(s) \in Seq(SUBSET J) /\ Head(s) = s[1] /\ Len(s) \in Nat /\ Len(s) >= 1
      /\ Len(Tail(s)) = Len(s) - 1
      /\ \A i \in 1..Len(Tail(s)) : Tail(s)[i] = s[i + 1]
  OBVIOUS
<1>2. Apart(Tail(s))
  <2> SUFFICES ASSUME NEW a \in 1..Len(Tail(s)), NEW b \in 1..Len(Tail(s)), a # b
               PROVE  Tail(s)[a] \cap Tail(s)[b] = {}
    BY DEF Apart
  <2>1. a + 1 \in 1..Len(s) /\ b + 1 \in 1..Len(s) /\ a + 1 # b + 1
    BY <1>1
  <2> QED BY <1>1, <2>1 DEF Apart
<1>3. \A x \in UNION Elements(Tail(s)) : \E i \in 2..Len(s) : x \in s[i]
  <2> SUFFICES ASSUME NEW k \in 1..Len(Tail(s)), NEW x \in Tail(s)[k] PROVE \E i \in 2..Len(s) : x \in s[i]
    BY DEF Elements
  <2>1. k + 1 \in 2..Len(s) /\ x \in s[k + 1]
    BY <1>1
  <2> QED BY <2>1
<1>4. \A i \in 2..Len(s) : s[i] \subseteq UNION Elements(Tail(s))
  <2> TAKE i \in 2..Len(s)
  <2>1. (i - 1) \in 1..Len(Tail(s)) /\ Tail(s)[i - 1] = s[i]
    BY <1>1
  <2>2. s[i] \in Elements(Tail(s))
    BY <2>1 DEF Elements
  <2> QED BY <2>2
<1>5. UNION Elements(s) = UNION {s[i] : i \in 1..Len(s)}
  BY DEF Elements
<1>6. UNION Elements(s) = Head(s) \cup UNION Elements(Tail(s))
  <2>1. ASSUME NEW x \in UNION Elements(s) PROVE x \in Head(s) \cup UNION Elements(Tail(s))
    <3>1. PICK i \in 1..Len(s) : x \in s[i]
      BY <1>5, <2>1
    <3>2. i = 1 \/ i \in 2..Len(s)
      BY <1>1
    <3> QED BY <1>1, <1>4, <3>1, <3>2
  <2>2. ASSUME NEW x \in Head(s) PROVE x \in UNION Elements(s)
    <3>1. 1 \in 1..Len(s) /\ x \in s[1]
      BY <1>1, <2>2
    <3> QED BY <1>5, <3>1
  <2>3. ASSUME NEW x \in UNION Elements(Tail(s)) PROVE x \in UNION Elements(s)
    <3>1. PICK i \in 2..Len(s) : x \in s[i]
      BY <1>3, <2>3
    <3>2. i \in 1..Len(s)
      BY <1>1
    <3> QED BY <1>5, <3>1, <3>2
  <2> QED BY <2>1, <2>2, <2>3
<1>7. Head(s) \cap UNION Elements(Tail(s)) = {}
  <2> SUFFICES ASSUME NEW x \in UNION Elements(Tail(s)), x \in s[1] PROVE FALSE
    BY <1>1
  <2>1. PICK i \in 2..Len(s) : x \in s[i]
    BY <1>3
  <2>2. s[1] \cap s[i] = {}
    BY <1>1 DEF Apart
  <2> QED BY <2>1, <2>2
<1> QED BY <1>1, <1>2, <1>6, <1>7

\* Taking a job from the first batch and queueing new ones behind.
IsQueue(s, J) == s \in Seq(SUBSET J) /\ Apart(s)
IsNext(s, job) == s # <<>> /\ job \in Head(s)
Requeued(s, job, more) == Batch(Head(s) \ {job}) \o Tail(s) \o Batch(more)

LEMMA Requeue ==
    ASSUME NEW J, NEW s, IsQueue(s, J), NEW job, IsNext(s, job),
           NEW more, more \subseteq J, more \cap UNION Elements(s) = {}
    PROVE  /\ IsQueue(Requeued(s, job, more), J)
           /\ UNION Elements(Requeued(s, job, more)) = ((UNION Elements(s)) \ {job}) \cup more
<1> USE DEF IsQueue, IsNext
<1> DEFINE rest == Head(s) \ {job}
           first == Batch(rest) \o Tail(s)
           t == first \o Batch(more)
<1>1. /\ Head(s) \in SUBSET J /\ Tail(s) \in Seq(SUBSET J) /\ Apart(Tail(s))
      /\ UNION Elements(s) = Head(s) \cup UNION Elements(Tail(s))
      /\ Head(s) \cap UNION Elements(Tail(s)) = {}
  BY HeadApart
<1>2. rest \in SUBSET J
  BY <1>1
<1>3. Batch(rest) \in Seq(SUBSET J) /\ UNION Elements(Batch(rest)) = rest /\ Apart(Batch(rest))
  BY <1>2, BatchFacts
<1>4. Batch(more) \in Seq(SUBSET J) /\ UNION Elements(Batch(more)) = more /\ Apart(Batch(more))
  BY BatchFacts
<1>5. first \in Seq(SUBSET J) /\ Elements(first) = Elements(Batch(rest)) \cup Elements(Tail(s))
  BY <1>1, <1>3, ElementsConcat
<1>6. UNION Elements(first) = rest \cup UNION Elements(Tail(s))
  BY <1>3, <1>5
<1>7. Apart(first)
  <2>1. (UNION Elements(Batch(rest))) \cap (UNION Elements(Tail(s))) = {}
    BY <1>1, <1>3
  <2> QED BY <1>1, <1>3, <2>1, ApartConcat
<1> HIDE DEF rest, first
<1>8. t \in Seq(SUBSET J) /\ Elements(t) = Elements(first) \cup Elements(Batch(more))
  BY <1>4, <1>5, ElementsConcat
<1>9. UNION Elements(t) = (UNION Elements(first)) \cup more
  BY <1>4, <1>8
<1>10. Apart(t)
  <2>1. (UNION Elements(first)) \cap (UNION Elements(Batch(more))) = {}
    BY <1>1, <1>4, <1>6 DEF rest
  <2> QED BY <1>4, <1>5, <1>7, <2>1, ApartConcat
<1>11. rest \cup UNION Elements(Tail(s)) = (UNION Elements(s)) \ {job}
  BY <1>1 DEF rest
<1>12. UNION Elements(t) = ((UNION Elements(s)) \ {job}) \cup more
  BY Zenon, <1>6, <1>9, <1>11
<1> QED BY <1>8, <1>10, <1>12 DEF first, rest, Requeued

------------------------------------------------------------------------------
(* The steps.                                                              *)

LEMMA ElementsAppend ==
    ASSUME NEW S, NEW s \in Seq(S), NEW x \in S
    PROVE  /\ Append(s, x) \in Seq(S) /\ Len(Append(s, x)) = Len(s) + 1
           /\ Append(s, x)[Len(s) + 1] = x
           /\ \A i \in 1..Len(s) : Append(s, x)[i] = s[i]
           /\ Elements(Append(s, x)) = Elements(s) \cup {x}
<1>1. /\ Append(s, x) \in Seq(S) /\ Len(Append(s, x)) = Len(s) + 1
      /\ Append(s, x)[Len(s) + 1] = x
      /\ \A i \in 1..Len(s) : Append(s, x)[i] = s[i]
  OBVIOUS
<1>2. 1..(Len(s) + 1) = (1..Len(s)) \cup {Len(s) + 1}
  OBVIOUS
<1>3. Elements(Append(s, x)) = Elements(s) \cup {x}
  BY <1>1, <1>2 DEF Elements
<1> QED BY <1>1, <1>3

LEMMA KahnInit ==
    ASSUME Uncounted, IsGraph(graph)
    PROVE  KahnInv
<1>1. order \in Seq(Jobs) /\ ready \in Seq(SUBSET Jobs)
  BY DEF Uncounted
<1>2. OrderRespectsDeps
  BY DEF Uncounted, OrderRespectsDeps
<1> QED BY <1>1, <1>2 DEF Uncounted, KahnInv

\* A job none of whose dependencies is ordered owes its whole list.
LEMMA WholeDebt ==
    ASSUME NEW S, NEW list \in Seq(S)
    PROVE  /\ Debt(list, {}) = Len(list)
           /\ Len(list) = 0 <=> list = <<>>
<1>1. Elements(list) \cap {} = {} /\ Cardinality({}) = 0
  BY FS_EmptySet
<1>2. Debt(list, {}) = Len(list) - 0
  BY Zenon, <1>1 DEF Debt
<1> QED BY <1>2

LEMMA KahnCount ==
    ASSUME KahnInv, Count
    PROVE  KahnInv'
<1> DEFINE free == {j \in Jobs : graph[j] = <<>>}
<1>1. /\ IsGraph(graph)' /\ Jobs' = Jobs /\ graph' = graph /\ order' = <<>> /\ order = <<>>
      /\ Done' = {} /\ \A j \in Jobs : graph[j] \in Seq(Elements(graph[j]))
  BY DEF KahnInv, Count, IsGraph, Jobs, Done, Elements
<1>2. order' \in Seq(Jobs') /\ OrderRespectsDeps'
  BY <1>1 DEF OrderRespectsDeps
<1>3. CASE \A j \in Jobs : Elements(graph[j]) \subseteq Jobs
  <2>1. verdict' = "ordering" /\ indegree' = [j \in Jobs |-> Len(graph[j])] /\ ready' = Batch(free)
    BY <1>3 DEF Count
  <2>2. ready' \in Seq(SUBSET Jobs) /\ Queued' = free /\ Apart(ready)'
    BY <2>1, BatchFacts DEF Queued
  <2>3. \A j \in Jobs : Debt(graph[j], {}) = Len(graph[j]) /\ (Len(graph[j]) = 0 <=> graph[j] = <<>>)
    BY <1>1, WholeDebt
  <2>4. indegree' = [j \in Jobs |-> Debt(graph[j], {})]
    BY <2>1, <2>3
  <2>5. \A j \in Jobs : j \in Done' \cup Queued' <=> indegree'[j] = 0
    BY <1>1, <2>1, <2>2, <2>3
  <2> QED BY <1>1, <1>2, <1>3, <2>1, <2>2, <2>4, <2>5 DEF KahnInv
<1>4. CASE ~ \A j \in Jobs : Elements(graph[j]) \subseteq Jobs
  <2>1. verdict' = "unknown" /\ ready' = ready
    BY <1>4 DEF Count
  <2> QED BY <1>1, <1>2, <1>4, <2>1 DEF KahnInv
<1> QED BY <1>3, <1>4

LEMMA KahnTake ==
    ASSUME KahnInv, NEW job, Take(job)
    PROVE  KahnInv'
<1> DEFINE newly == {j \in Dependents(job) : indegree'[j] = 0}
<1>1. /\ verdict = "ordering" /\ verdict' = "ordering" /\ graph' = graph /\ Jobs' = Jobs
      /\ ready # <<>> /\ job \in Head(ready)
      /\ order' = Append(order, job) /\ indegree' = Paid(job)
      /\ ready' = Batch(Head(ready) \ {job}) \o Tail(ready) \o Batch(newly)
  BY DEF Take, Jobs
<1>2. /\ IsGraph(graph) /\ IsGraph(graph)'
      /\ \A j \in Jobs : Elements(graph[j]) \subseteq Jobs /\ graph[j] \in Seq(Elements(graph[j]))
      /\ order \in Seq(Jobs) /\ ready \in Seq(SUBSET Jobs)
      /\ indegree = [j \in Jobs |-> Debt(graph[j], Done)]
      /\ Queued \cap Done = {} /\ Apart(ready) /\ OrderRespectsDeps
      /\ \A j \in Jobs : j \in Done \cup Queued <=> indegree[j] = 0
  BY <1>1 DEF KahnInv, IsGraph, Jobs
<1>3. job \in Queued /\ Queued \subseteq Jobs /\ Done \subseteq Jobs
  <2>1. UNION Elements(ready) = Head(ready) \cup UNION Elements(Tail(ready))
    BY <1>1, <1>2, HeadApart
  <2>2. UNION Elements(ready) \subseteq Jobs
    BY <1>2 DEF Elements
  <2> QED BY <1>1, <1>2, <2>1, <2>2 DEF Queued, Done, Elements
<1>4. job \in Jobs /\ job \notin Done
  BY <1>2, <1>3
<1>5. \A j \in Jobs : /\ indegree[j] = Debt(graph[j], Done) /\ indegree[j] \in Int
                      /\ indegree[j] = 0 => Elements(graph[j]) \subseteq Done
  BY <1>2, PaidOff
<1>6. /\ order' \in Seq(Jobs) /\ Len(order') = Len(order) + 1 /\ order'[Len(order) + 1] = job
      /\ (\A i \in 1..Len(order) : order'[i] = order[i]) /\ Done' = Done \cup {job}
  BY <1>1, <1>2, <1>4, ElementsAppend DEF Done
<1>7. \A j \in Jobs : indegree'[j] = indegree[j] - (IF j \in Dependents(job) THEN 1 ELSE 0)
  BY <1>1 DEF Paid
<1>8. indegree' = [j \in Jobs |-> Debt(graph[j], Done \cup {job})]
  <2>1. \A j \in Jobs : indegree'[j] = Debt(graph[j], Done \cup {job})
    <3> TAKE j \in Jobs
    <3>1. Debt(graph[j], Done \cup {job})
              = Debt(graph[j], Done) - (IF job \in Elements(graph[j]) THEN 1 ELSE 0)
      BY <1>2, <1>4, DebtFalls
    <3>2. j \in Dependents(job) <=> job \in Elements(graph[j])
      BY DEF Dependents
    <3> QED BY <1>5, <1>7, <3>1, <3>2
  <2>2. indegree' = [j \in Jobs |-> indegree'[j]]
    BY <1>1 DEF Paid
  <2> QED BY <2>1, <2>2
<1>9. \A j \in Done \cup Queued : j \notin Dependents(job) /\ indegree'[j] = 0
  <2> TAKE j \in Done \cup Queued
  <2>1. j \in Jobs /\ indegree[j] = 0 /\ Elements(graph[j]) \subseteq Done
    BY <1>2, <1>3, <1>5
  <2>2. j \notin Dependents(job)
    BY <1>4, <2>1 DEF Dependents
  <2> QED BY <1>7, <2>1, <2>2
<1>10. newly \in SUBSET Jobs /\ newly \cap (Done \cup Queued) = {}
  BY <1>9 DEF Dependents
<1>11. ready' \in Seq(SUBSET Jobs) /\ Apart(ready') /\ Queued' = (Queued \ {job}) \cup newly
  <2> HIDE DEF newly
  <2>1. newly \subseteq Jobs /\ newly \cap UNION Elements(ready) = {}
    BY <1>10 DEF Queued
  <2>2. IsQueue(ready, Jobs) /\ IsNext(ready, job)
    BY <1>1, <1>2 DEF IsQueue, IsNext
  <2>3. /\ IsQueue(Requeued(ready, job, newly), Jobs)
        /\ UNION Elements(Requeued(ready, job, newly)) = ((UNION Elements(ready)) \ {job}) \cup newly
    BY <2>1, <2>2, Requeue
  <2>4. ready' = Requeued(ready, job, newly)
    BY Zenon, <1>1 DEF Requeued
  <2> QED BY Zenon, <2>3, <2>4 DEF Queued, IsQueue
<1>12. Queued' \cap Done' = {}
  BY <1>2, <1>4, <1>6, <1>9, <1>10, <1>11, <1>3
<1>13. \A j \in Jobs : j \in Done' \cup Queued' <=> indegree'[j] = 0
  <2> TAKE j \in Jobs
  <2>1. CASE j \in Done \cup Queued
    BY <1>6, <1>9, <1>11, <2>1
  <2>2. CASE j \notin Done \cup Queued
    <3>1. indegree[j] # 0 /\ j \notin {job}
      BY <1>2, <1>3, <2>2
    <3>2. j \in Done' \cup Queued' <=> j \in newly
      BY <1>6, <1>11, <2>2, <3>1
    <3>3. indegree'[j] = 0 => j \in Dependents(job)
      BY <1>5, <1>7, <3>1
    <3> QED BY <3>2, <3>3
  <2> QED BY <2>1, <2>2
<1>14. OrderRespectsDeps'
  <2> SUFFICES ASSUME NEW i \in 1..(Len(order) + 1)
               PROVE  /\ order'[i] \in Jobs
                      /\ Elements(graph[order'[i]]) \subseteq {order'[k] : k \in 1..(i - 1)}
                      /\ \A k \in 1..(i - 1) : order'[k] # order'[i]
    BY <1>1, <1>6 DEF OrderRespectsDeps
  <2>1. CASE i \in 1..Len(order)
    <3>1. order'[i] = order[i] /\ \A k \in 1..(i - 1) : order'[k] = order[k]
      BY <1>2, <1>6, <2>1
    <3>2. {order'[k] : k \in 1..(i - 1)} = {order[k] : k \in 1..(i - 1)}
      BY <3>1
    <3>3. /\ order[i] \in Jobs
          /\ Elements(graph[order[i]]) \subseteq {order[k] : k \in 1..(i - 1)}
          /\ \A k \in 1..(i - 1) : order[k] # order[i]
      BY <1>2, <2>1 DEF OrderRespectsDeps
    <3> QED BY <3>1, <3>2, <3>3
  <2>2. CASE i = Len(order) + 1
    <3>1. order'[i] = job /\ i - 1 = Len(order)
      BY <1>2, <1>6, <2>2
    <3>2. {order'[k] : k \in 1..(i - 1)} = Done
      BY <1>6, <3>1 DEF Done, Elements
    <3>3. Elements(graph[job]) \subseteq Done
      BY <1>2, <1>3, <1>4, <1>5
    <3>4. \A k \in 1..(i - 1) : order'[k] # job
      BY <1>4, <3>2
    <3> QED BY <1>4, <3>1, <3>2, <3>3, <3>4
  <2>3. i \in 1..Len(order) \/ i = Len(order) + 1
    BY <1>2
  <2> QED BY <2>1, <2>2, <2>3
<1>15. /\ \A j \in Jobs' : Elements(graph'[j]) \subseteq Jobs'
       /\ indegree' = [j \in Jobs' |-> Debt(graph'[j], Done')]
       /\ \A j \in Jobs' : j \in Done' \cup Queued' <=> indegree'[j] = 0
  BY <1>1, <1>2, <1>6, <1>8, <1>13
<1>16. ready' \in Seq(SUBSET Jobs') /\ Apart(ready')
  BY <1>1, <1>11
<1> HIDE DEF newly
<1> QED BY <1>1, <1>2, <1>6, <1>12, <1>14, <1>15, <1>16 DEF KahnInv, Apart

LEMMA SameOrder ==
    ASSUME KahnInv, UNCHANGED <<graph, indegree, ready, order>>
    PROVE  OrderRespectsDeps' /\ Done' = Done /\ Jobs' = Jobs /\ Queued' = Queued
<1>1. OrderRespectsDeps
  BY DEF KahnInv
<1>2. graph' = graph /\ ready' = ready /\ order' = order
  OBVIOUS
<1>3. Done' = Done /\ Jobs' = Jobs /\ Queued' = Queued
  BY Zenon, <1>2 DEF Done, Jobs, Queued
<1>4. OrderRespectsDeps'
  <2>1. \A i \in 1..Len(order) :
          /\ order[i] \in Jobs
          /\ Elements(graph[order[i]]) \subseteq {order[k] : k \in 1..(i - 1)}
          /\ \A k \in 1..(i - 1) : order[k] # order[i]
    BY <1>1 DEF OrderRespectsDeps
  <2>2. Len(order') = Len(order)
    BY <1>2
  <2>3. ASSUME NEW i \in 1..Len(order')
        PROVE  /\ order'[i] \in Jobs'
               /\ Elements(graph'[order'[i]]) \subseteq {order'[k] : k \in 1..(i - 1)}
               /\ \A k \in 1..(i - 1) : order'[k] # order'[i]
    <3>1. i \in 1..Len(order)
      BY <2>2
    <3>2. order'[i] = order[i] /\ Elements(graph'[order'[i]]) = Elements(graph[order[i]])
      BY <1>2
    <3>3. {order'[k] : k \in 1..(i - 1)} = {order[k] : k \in 1..(i - 1)}
      BY <1>2
    <3>4. \A k \in 1..(i - 1) : order'[k] # order'[i]
      BY <2>1, <3>1, <1>2
    <3> QED BY <2>1, <3>1, <3>2, <3>3, <3>4, <1>3
  <2> QED BY <2>3 DEF OrderRespectsDeps
<1> QED BY <1>3, <1>4

LEMMA KahnStop ==
    ASSUME KahnInv, Stop
    PROVE  KahnInv'
<1>1. /\ verdict = "ordering" /\ ready = <<>> /\ UNCHANGED <<graph, indegree, ready, order>>
      /\ verdict' = IF Len(order) = Cardinality(Jobs) THEN "ordered" ELSE "cycle"
  BY DEF Stop
<1>2. OrderRespectsDeps' /\ Done' = Done /\ Jobs' = Jobs /\ Queued' = Queued
  BY <1>1, SameOrder
<1> QED BY <1>1, <1>2 DEF KahnInv

LEMMA KahnStep ==
    ASSUME KahnInv, [GraphNext]_graphVars
    PROVE  KahnInv'
<1>1. CASE UNCHANGED graphVars
  <2>1. OrderRespectsDeps' /\ Done' = Done /\ Jobs' = Jobs /\ Queued' = Queued
    BY <1>1, SameOrder DEF graphVars
  <2> QED BY <1>1, <2>1 DEF KahnInv, graphVars
<1>2. CASE Count
  BY <1>2, KahnCount
<1>3. ASSUME NEW job \in Jobs, Take(job) PROVE KahnInv'
  BY <1>3, KahnTake
<1>4. CASE Stop
  BY <1>4, KahnStop
<1> QED BY <1>1, <1>2, <1>3, <1>4 DEF GraphNext

\* The order has as many places as jobs in it.
LEMMA OrderCounts ==
    ASSUME KahnInv
    PROVE  IsFiniteSet(Jobs) /\ Done \subseteq Jobs /\ Cardinality(Done) = Len(order)
<1>1. order \in Seq(Jobs) /\ OrderRespectsDeps /\ IsFiniteSet(Jobs)
  BY DEF KahnInv, IsGraph, Jobs
<1>2. \A i, k \in 1..Len(order) : order[i] = order[k] => i = k
  <2> SUFFICES ASSUME NEW i \in 1..Len(order), NEW k \in 1..Len(order), order[i] = order[k], k < i
               PROVE  FALSE
    BY <1>1
  <2>1. k \in 1..(i - 1)
    OBVIOUS
  <2> QED BY <1>1, <2>1 DEF OrderRespectsDeps
<1>3. Cardinality(Elements(order)) = Len(order)
  BY <1>1, <1>2, ElementsFinite
<1>4. Elements(order) \subseteq Jobs
  BY <1>1 DEF Elements
<1> QED BY <1>1, <1>3, <1>4 DEF Done

LEMMA CyclesAreThere ==
    ASSUME KahnInv
    PROVE  RefusesOnlyCycles
<1>1. IsFiniteSet(Jobs) /\ Done \subseteq Jobs /\ Cardinality(Done) = Len(order)
  BY OrderCounts
<1>2. ASSUME verdict = "ordered" PROVE Done = Jobs
  <2>1. Cardinality(Done) = Cardinality(Jobs)
    BY <1>1, <1>2 DEF KahnInv
  <2> QED BY <1>1, <2>1, FS_Subset
<1>3. ASSUME verdict = "cycle", Single(graph) PROVE Stuck(graph, Jobs \ Done)
  <2>1. Queued = {}
    BY <1>3 DEF KahnInv, Queued, Elements
  <2>2. Len(order) # Cardinality(Jobs)
    BY <1>3 DEF KahnInv
  <2>3. Jobs \ Done # {}
    <3> SUFFICES ASSUME Jobs \ Done = {} PROVE FALSE
      OBVIOUS
    <3>1. Done = Jobs
      BY <1>1
    <3> QED BY <1>1, <2>2, <3>1
  <2>4. ASSUME NEW j \in Jobs \ Done PROVE \E d \in Jobs \ Done : d \in Elements(graph[j])
    <3>1. indegree[j] = Debt(graph[j], Done) /\ indegree[j] # 0 /\ Elements(graph[j]) \subseteq Jobs
      BY <1>3, <2>1, <2>4 DEF KahnInv
    <3>2. graph[j] \in Seq(Elements(graph[j])) /\ Cardinality(Elements(graph[j])) = Len(graph[j])
      BY <1>3, <2>4 DEF KahnInv, IsGraph, Single, Jobs
    <3>3. \E d \in Elements(graph[j]) : d \notin Done
      BY <3>1, <3>2, StillWaits
    <3> QED BY <3>1, <3>3
  <2> QED BY <2>3, <2>4 DEF Stuck, Jobs
<1> QED BY <1>2, <1>3 DEF RefusesOnlyCycles

------------------------------------------------------------------------------
(* The plan.                                                               *)

\* How far down the pipeline a stage is.
Level(stage) ==
    CASE stage \in {"deli_generate", "pixelcoat_shared"} -> 0
      [] stage = "lot_assemble" -> 1
      [] stage \in {"walktest_navqa", "laser_tag_evaluate", "pixelcoat_build", "patina_apply",
                    "lot_site_surfaces"} -> 2
      [] stage \in {"zoo_kit_build", "zoo_roof_props_build", "zoo_clutter_build", "patina_dressing",
                    "zoo_fixtures_build"} -> 3
      [] stage \in {"zoo_dressing_build", "lux_fixture_gate"} -> 4
      [] stage = "presentation_compose" -> 5
      [] stage = "themed_site_assemble" -> 6
      [] stage \in {"patina_surface_dressing", "lux_apply"} -> 7
      [] OTHER -> 8

\* Dependencies a job may have in a graph of these jobs.
Sound(list, jobs, stage) ==
    /\ list \in Seq(jobs)
    /\ Distinct(list)
    /\ \A i \in 1..Len(list) : Level(list[i][1]) < Level(stage)

------------------------------------------------------------------------------
(* Lists without repetition.                                               *)

LEMMA DistinctConcat ==
    ASSUME NEW S, NEW s \in Seq(S), NEW t \in Seq(S)
    PROVE  /\ Distinct(s \o t) => Distinct(s) /\ Distinct(t)
           /\ Distinct(s) /\ Distinct(t) /\ Elements(s) \cap Elements(t) = {} => Distinct(s \o t)
<1>1. /\ Len(s) \in Nat /\ Len(t) \in Nat /\ Len(s \o t) = Len(s) + Len(t)
      /\ \A i \in 1..Len(s) : (s \o t)[i] = s[i]
      /\ \A i \in 1..Len(t) : (s \o t)[Len(s) + i] = t[i]
  OBVIOUS
<1>2. ASSUME Distinct(s \o t) PROVE Distinct(s) /\ Distinct(t)
  <2>1. \A i \in 1..Len(s) : i \in 1..Len(s \o t)
    BY <1>1
  <2>2. \A i \in 1..Len(t) : Len(s) + i \in 1..Len(s \o t)
    BY <1>1
  <2>3. Distinct(s)
    BY <1>1, <1>2, <2>1 DEF Distinct
  <2>4. Distinct(t)
    <3> SUFFICES ASSUME NEW i \in 1..Len(t), NEW k \in 1..Len(t), t[i] = t[k] PROVE i = k
      BY DEF Distinct
    <3>1. Len(s) + i = Len(s) + k
      BY <1>1, <1>2, <2>2 DEF Distinct
    <3> QED BY <1>1, <3>1
  <2> QED BY <2>3, <2>4
<1>3. ASSUME Distinct(s), Distinct(t), Elements(s) \cap Elements(t) = {}
      PROVE  Distinct(s \o t)
  <2>1. \A i \in 1..Len(s \o t) :
          \/ i \in 1..Len(s) /\ (s \o t)[i] = s[i]
          \/ (i - Len(s)) \in 1..Len(t) /\ (s \o t)[i] = t[i - Len(s)]
    <3> TAKE i \in 1..Len(s \o t)
    <3>1. CASE i <= Len(s)
      BY <1>1, <3>1
    <3>2. CASE i > Len(s)
      <4>1. (i - Len(s)) \in 1..Len(t) /\ i = Len(s) + (i - Len(s))
        BY <1>1, <3>2
      <4> QED BY <1>1, <4>1
    <3> QED BY <1>1, <3>1, <3>2
  <2>2. \A i \in 1..Len(s), k \in 1..Len(t) : s[i] # t[k]
    BY <1>3 DEF Elements
  <2> SUFFICES ASSUME NEW i \in 1..Len(s \o t), NEW k \in 1..Len(s \o t), (s \o t)[i] = (s \o t)[k]
               PROVE  i = k
    BY DEF Distinct
  <2>3. CASE i \in 1..Len(s) /\ k \in 1..Len(s)
    BY <1>1, <1>3, <2>3 DEF Distinct
  <2>4. CASE (i - Len(s)) \in 1..Len(t) /\ (k - Len(s)) \in 1..Len(t)
    <3>1. t[i - Len(s)] = t[k - Len(s)]
      BY <1>1, <2>4
    <3>2. i - Len(s) = k - Len(s)
      BY <1>3, <2>4, <3>1 DEF Distinct
    <3> QED BY <1>1, <3>2
  <2> QED BY <2>1, <2>2, <2>3, <2>4
<1> QED BY <1>2, <1>3

LEMMA EachFacts ==
    ASSUME NEW S, NEW list \in Seq(S), NEW stage
    PROVE  /\ Each(stage, list) \in Seq({stage} \X Elements(list))
           /\ Elements(Each(stage, list)) = {stage} \X Elements(list)
           /\ Distinct(list) => Distinct(Each(stage, list))
<1>1. /\ Len(list) \in Nat /\ DOMAIN Each(stage, list) = 1..Len(list)
      /\ \A i \in 1..Len(list) : Each(stage, list)[i] = <<stage, list[i]>> /\ list[i] \in Elements(list)
  BY DEF Each, Elements
<1>2. Each(stage, list) \in Seq({stage} \X Elements(list)) /\ Len(Each(stage, list)) = Len(list)
  BY <1>1 DEF Each
<1>3. Elements(Each(stage, list)) = {stage} \X Elements(list)
  <2>1. Elements(Each(stage, list)) = {<<stage, list[i]>> : i \in 1..Len(list)}
    BY <1>1, <1>2 DEF Elements
  <2> QED BY <2>1 DEF Elements
<1>4. Distinct(list) => Distinct(Each(stage, list))
  BY <1>1, <1>2 DEF Distinct
<1> QED BY <1>2, <1>3, <1>4

LEMMA SoundOne ==
    ASSUME NEW jobs, NEW stage, NEW a \in jobs, Level(a[1]) < Level(stage)
    PROVE  Sound(<<a>>, jobs, stage)
BY DEF Sound, Distinct

LEMMA SoundTwo ==
    ASSUME NEW jobs, NEW stage, NEW a \in jobs, NEW b \in jobs, a # b,
           Level(a[1]) < Level(stage), Level(b[1]) < Level(stage)
    PROVE  Sound(<<a, b>>, jobs, stage)
<1> DEFINE list == <<a, b>>
<1>1. list \in Seq(jobs) /\ Len(list) = 2 /\ list[1] = a /\ list[2] = b
  OBVIOUS
<1>2. 1..2 = {1, 2}
  OBVIOUS
<1> HIDE DEF list
<1>3. Distinct(list) /\ \A i \in 1..Len(list) : Level(list[i][1]) < Level(stage)
  BY <1>1, <1>2 DEF Distinct
<1> QED BY <1>1, <1>3 DEF Sound, list

LEMMA SoundThree ==
    ASSUME NEW jobs, NEW stage, NEW a \in jobs, NEW b \in jobs, NEW c \in jobs, a # b, a # c, b # c,
           Level(a[1]) < Level(stage), Level(b[1]) < Level(stage), Level(c[1]) < Level(stage)
    PROVE  Sound(<<a, b, c>>, jobs, stage)
<1> DEFINE list == <<a, b, c>>
<1>1. list \in Seq(jobs) /\ Len(list) = 3 /\ list[1] = a /\ list[2] = b /\ list[3] = c
  OBVIOUS
<1>2. 1..3 = {1, 2, 3}
  OBVIOUS
<1> HIDE DEF list
<1>3. Distinct(list) /\ \A i \in 1..Len(list) : Level(list[i][1]) < Level(stage)
  BY <1>1, <1>2 DEF Distinct
<1> QED BY <1>1, <1>3 DEF Sound, list

------------------------------------------------------------------------------
(* The plan of a mission.                                                  *)

\* What a job of the plan is there for.
LEMMA JobCases ==
    ASSUME NEW layers, NEW of, NEW stage, NEW which
    PROVE  <<stage, which>> \in PlanJobs(layers, of) <=>
             \/ stage \in CandidateStages /\ which \in of.candidates
             \/ /\ Chosen(layers, of) /\ "art" \in layers
                /\ \/ stage \in ArtStages /\ which = None
                   \/ stage \in DressStages /\ which \in Elements(Dressed(of))
                   \/ stage \in LitStages /\ which \in Elements(Placed(of))
                   \/ stage = "zoo_roof_props_build" /\ which \in Elements(of.roofed)
                   \/ stage = "zoo_kit_build" /\ which = Site
             \/ Chosen(layers, of) /\ "art" \in layers /\ "light" \in layers /\ stage = "lux_apply" /\ which = None
             \/ Chosen(layers, of) /\ "gameplay" \in layers /\ stage = "dispatch_handoff" /\ which = None
BY DEF PlanJobs, Base, Optional, ArtJobs

LEMMA ListsOf ==
    ASSUME NEW of \in MissionAsk
    PROVE  /\ of.lot \in Seq(Buildings) /\ of.empties \in Seq(Buildings)
           /\ of.roofed \in Seq(Buildings \cup {None})
           /\ of.candidates \subseteq Candidates
           /\ Placed(of) \in Seq(Buildings \cup {None})
           /\ Dressed(of) \in Seq(Buildings \cup {None})
           /\ Elements(Dressed(of)) = Elements(Placed(of)) \cup Elements(of.empties)
<1>1. /\ of.lot \in Seq(Buildings) /\ of.empties \in Seq(Buildings)
      /\ of.roofed \in Seq(Buildings \cup {None}) /\ of.candidates \subseteq Candidates
  BY DEF MissionAsk
<1>2. of.lot \in Seq(Buildings \cup {None}) /\ of.empties \in Seq(Buildings \cup {None})
  BY <1>1
<1>3. Placed(of) \in Seq(Buildings \cup {None})
  <2>1. <<None>> \in Seq(Buildings \cup {None})
    OBVIOUS
  <2> QED BY Zenon, <1>2, <2>1 DEF Placed
<1>4. /\ Placed(of) \o of.empties \in Seq(Buildings \cup {None})
      /\ Elements(Placed(of) \o of.empties) = Elements(Placed(of)) \cup Elements(of.empties)
  BY <1>2, <1>3, ElementsConcat
<1> QED BY <1>1, <1>3, <1>4 DEF Dressed

\* No building is composed twice.
LEMMA NoneTwice ==
    ASSUME NEW of \in MissionAsk, Distinct(<<Site>> \o Dressed(of))
    PROVE  Distinct(Dressed(of)) /\ Distinct(Placed(of))
<1> DEFINE S == Buildings \cup {None, Site}
<1>1. <<Site>> \in Seq(S) /\ Placed(of) \in Seq(S) /\ of.empties \in Seq(S)
  BY ListsOf
<1>2. Dressed(of) \in Seq(S)
  BY ListsOf
<1>3. Distinct(Dressed(of))
  BY <1>1, <1>2, DistinctConcat
<1>4. Distinct(Placed(of) \o of.empties)
  BY <1>3 DEF Dressed
<1> QED BY <1>1, <1>3, <1>4, DistinctConcat

LEMMA PiecesSound ==
    ASSUME NEW layers, NEW of \in MissionAsk, Distinct(of.roofed), ~Refused(layers, of),
           Chosen(layers, of), "art" \in layers
    PROVE  Sound(Pieces(of), PlanJobs(layers, of), "presentation_compose")
<1> DEFINE jobs == PlanJobs(layers, of)
           s1 == << <<"deli_generate", of.selected>> >>
           s2 == Each("zoo_kit_build", Dressed(of))
           s3 == Each("zoo_dressing_build", Dressed(of))
           s4 == Each("zoo_fixtures_build", Placed(of))
           s5 == Each("zoo_roof_props_build", of.roofed)
<1>1. of.selected \in of.candidates /\ Distinct(<<Site>> \o Dressed(of))
  BY DEF Refused, Chosen
<1>2. Distinct(Dressed(of)) /\ Distinct(Placed(of))
  BY <1>1, NoneTwice
<1>3. <<"deli_generate", of.selected>> \in jobs
  BY <1>1, JobCases DEF CandidateStages
<1>4. /\ {"zoo_kit_build"} \X Elements(Dressed(of)) \subseteq jobs
      /\ {"zoo_dressing_build"} \X Elements(Dressed(of)) \subseteq jobs
      /\ {"zoo_fixtures_build"} \X Elements(Placed(of)) \subseteq jobs
      /\ {"zoo_roof_props_build"} \X Elements(of.roofed) \subseteq jobs
  BY JobCases DEF DressStages, LitStages
<1>5. /\ s2 \in Seq(jobs) /\ Elements(s2) = {"zoo_kit_build"} \X Elements(Dressed(of)) /\ Distinct(s2)
      /\ s3 \in Seq(jobs) /\ Elements(s3) = {"zoo_dressing_build"} \X Elements(Dressed(of)) /\ Distinct(s3)
  <2> HIDE DEF jobs
  <2>1. /\ s2 \in Seq({"zoo_kit_build"} \X Elements(Dressed(of)))
        /\ s3 \in Seq({"zoo_dressing_build"} \X Elements(Dressed(of)))
        /\ Elements(s2) = {"zoo_kit_build"} \X Elements(Dressed(of)) /\ Distinct(s2)
        /\ Elements(s3) = {"zoo_dressing_build"} \X Elements(Dressed(of)) /\ Distinct(s3)
    BY <1>2, ListsOf, EachFacts
  <2> HIDE DEF s2, s3
  <2> QED BY <1>4, <2>1
<1>6. /\ s4 \in Seq(jobs) /\ Elements(s4) = {"zoo_fixtures_build"} \X Elements(Placed(of)) /\ Distinct(s4)
      /\ s5 \in Seq(jobs) /\ Elements(s5) = {"zoo_roof_props_build"} \X Elements(of.roofed) /\ Distinct(s5)
  <2> HIDE DEF jobs
  <2>1. /\ s4 \in Seq({"zoo_fixtures_build"} \X Elements(Placed(of)))
        /\ s5 \in Seq({"zoo_roof_props_build"} \X Elements(of.roofed))
        /\ Elements(s4) = {"zoo_fixtures_build"} \X Elements(Placed(of)) /\ Distinct(s4)
        /\ Elements(s5) = {"zoo_roof_props_build"} \X Elements(of.roofed) /\ Distinct(s5)
    BY <1>2, ListsOf, EachFacts
  <2> HIDE DEF s4, s5
  <2> QED BY <1>4, <2>1
<1>7. s1 \in Seq(jobs) /\ Elements(s1) = {<<"deli_generate", of.selected>>} /\ Distinct(s1)
  BY <1>3 DEF Elements, Distinct
<1> HIDE DEF jobs, s1, s2, s3, s4, s5
<1> DEFINE l2 == s1 \o s2
<1>8. l2 \in Seq(jobs) /\ Elements(l2) = Elements(s1) \cup Elements(s2) /\ Distinct(l2)
  <2>1. Elements(s1) \cap Elements(s2) = {}
    BY <1>5, <1>7
  <2> QED BY <1>5, <1>7, <2>1, ElementsConcat, DistinctConcat
<1> HIDE DEF l2
<1> DEFINE l3 == l2 \o s3
<1>9. l3 \in Seq(jobs) /\ Elements(l3) = Elements(l2) \cup Elements(s3) /\ Distinct(l3)
  <2>1. Elements(l2) \cap Elements(s3) = {}
    BY <1>5, <1>7, <1>8
  <2> QED BY <1>5, <1>8, <2>1, ElementsConcat, DistinctConcat
<1> HIDE DEF l3
<1> DEFINE l4 == l3 \o s4
<1>10. l4 \in Seq(jobs) /\ Elements(l4) = Elements(l3) \cup Elements(s4) /\ Distinct(l4)
  <2>1. Elements(l3) \cap Elements(s4) = {}
    BY <1>5, <1>6, <1>7, <1>8, <1>9
  <2> QED BY <1>6, <1>9, <2>1, ElementsConcat, DistinctConcat
<1> HIDE DEF l4
<1> DEFINE list == l4 \o s5
<1>11. list \in Seq(jobs) /\ Elements(list) = Elements(l4) \cup Elements(s5) /\ Distinct(list)
  <2>1. Elements(l4) \cap Elements(s5) = {}
    BY <1>5, <1>6, <1>7, <1>8, <1>9, <1>10
  <2> QED BY <1>6, <1>10, <2>1, ElementsConcat, DistinctConcat
<1>12. Pieces(of) = list
  BY DEF Pieces, l2, l3, l4, s1, s2, s3, s4, s5
<1> HIDE DEF list
<1>13. \A d \in Elements(list) :
          d[1] \in {"deli_generate", "zoo_kit_build", "zoo_dressing_build", "zoo_fixtures_build", "zoo_roof_props_build"}
  BY <1>5, <1>6, <1>7, <1>8, <1>9, <1>10, <1>11
<1>14. \A i \in 1..Len(list) : Level(list[i][1]) < Level("presentation_compose")
  BY <1>13 DEF Elements, Level
<1> QED BY <1>11, <1>12, <1>14 DEF Sound, jobs

\* What a job of a mission's plan depends on is in the plan, named once and further up.
LEMMA NeedsSound ==
    ASSUME NEW layers, NEW of \in MissionAsk, Distinct(of.roofed), ~Refused(layers, of),
           NEW stage, NEW which, <<stage, which>> \in PlanJobs(layers, of)
    PROVE  Sound(Needs(layers, of, stage, which), PlanJobs(layers, of), stage)
<1> DEFINE jobs == PlanJobs(layers, of)
           needs == Needs(layers, of, stage, which)
           site == <<"lot_assemble", of.selected>>
           skins == <<"pixelcoat_build", None>>
           art == Chosen(layers, of) /\ "art" \in layers
<1>1. art => site \in jobs /\ skins \in jobs /\ <<"deli_generate", of.selected>> \in jobs
  BY JobCases DEF Refused, Chosen, CandidateStages, ArtStages
<1>2. CASE stage = "deli_generate"
  <2>1. needs = <<>>
    BY <1>2 DEF Needs
  <2> QED BY <2>1 DEF Sound, Distinct
<1>3. CASE stage = "lot_assemble"
  <2>1. needs = << <<"deli_generate", which>> >>
    BY <1>3 DEF Needs
  <2>2. <<"deli_generate", which>> \in jobs
    BY <1>3, JobCases DEF CandidateStages, ArtStages, DressStages, LitStages
  <2>3. Level("deli_generate") < Level(stage)
    BY <1>3 DEF Level
  <2> QED BY <2>1, <2>2, <2>3, SoundOne
<1>4. CASE stage \in {"walktest_navqa", "laser_tag_evaluate"}
  <2>1. needs = << <<"lot_assemble", which>> >>
    BY <1>4 DEF Needs
  <2>2. <<"lot_assemble", which>> \in jobs
    BY <1>4, JobCases DEF CandidateStages, ArtStages, DressStages, LitStages
  <2>3. Level("lot_assemble") < Level(stage)
    BY <1>4 DEF Level
  <2> QED BY <2>1, <2>2, <2>3, SoundOne
<1>5. CASE stage \in {"pixelcoat_build", "patina_apply", "lot_site_surfaces"}
  <2>1. needs = <<site>>
    BY <1>5 DEF Needs
  <2>2. site \in jobs
    BY <1>1, <1>5, JobCases DEF CandidateStages
  <2>3. Level("lot_assemble") < Level(stage)
    BY <1>5 DEF Level
  <2> QED BY <2>1, <2>2, <2>3, SoundOne
<1>6. CASE stage \in {"zoo_kit_build", "zoo_roof_props_build", "zoo_clutter_build"}
  <2>1. needs = <<site, skins>>
    BY <1>6 DEF Needs
  <2>2. site \in jobs /\ skins \in jobs
    BY <1>1, <1>6, JobCases DEF CandidateStages
  <2>3. Level("lot_assemble") < Level(stage) /\ Level("pixelcoat_build") < Level(stage)
    BY <1>6 DEF Level
  <2> QED BY <2>1, <2>2, <2>3, SoundTwo
<1>7. CASE stage = "patina_dressing"
  <2>1. needs = << <<"patina_apply", which>> >>
    BY <1>7 DEF Needs
  <2>2. <<"patina_apply", which>> \in jobs
    BY <1>7, JobCases DEF CandidateStages, ArtStages, DressStages, LitStages
  <2>3. Level("patina_apply") < Level(stage)
    BY <1>7 DEF Level
  <2> QED BY <2>1, <2>2, <2>3, SoundOne
<1>8. CASE stage = "zoo_dressing_build"
  <2>1. needs = << <<"patina_dressing", which>>, <<"zoo_kit_build", which>> >>
    BY <1>8 DEF Needs
  <2>2. <<"patina_dressing", which>> \in jobs /\ <<"zoo_kit_build", which>> \in jobs
    BY <1>8, JobCases DEF CandidateStages, ArtStages, DressStages, LitStages
  <2>3. Level("patina_dressing") < Level(stage) /\ Level("zoo_kit_build") < Level(stage)
    BY <1>8 DEF Level
  <2> QED BY <2>1, <2>2, <2>3, SoundTwo
<1>9. CASE stage = "zoo_fixtures_build"
  <2>1. needs = << <<"deli_generate", of.selected>>, skins >>
    BY <1>9 DEF Needs
  <2>2. <<"deli_generate", of.selected>> \in jobs /\ skins \in jobs
    BY <1>1, <1>9, JobCases DEF CandidateStages
  <2>3. Level("deli_generate") < Level(stage) /\ Level("pixelcoat_build") < Level(stage)
    BY <1>9 DEF Level
  <2> QED BY <2>1, <2>2, <2>3, SoundTwo
<1>10. CASE stage = "lux_fixture_gate"
  <2>1. needs = << <<"zoo_fixtures_build", which>> >>
    BY <1>10 DEF Needs
  <2>2. <<"zoo_fixtures_build", which>> \in jobs
    BY <1>10, JobCases DEF CandidateStages, ArtStages, DressStages, LitStages
  <2>3. Level("zoo_fixtures_build") < Level(stage)
    BY <1>10 DEF Level
  <2> QED BY <2>1, <2>2, <2>3, SoundOne
<1>11. CASE stage = "presentation_compose"
  <2>1. needs = Pieces(of)
    BY <1>11 DEF Needs
  <2>2. art
    BY <1>11, JobCases DEF CandidateStages
  <2> QED BY <1>11, <2>1, <2>2, PiecesSound
<1>12. CASE stage = "themed_site_assemble"
  <2>1. needs = << <<"presentation_compose", None>>, <<"zoo_kit_build", Site>> >>
    BY <1>12 DEF Needs
  <2>2. <<"presentation_compose", None>> \in jobs /\ <<"zoo_kit_build", Site>> \in jobs
    BY <1>12, JobCases DEF CandidateStages, ArtStages, DressStages, LitStages
  <2>3. Level("presentation_compose") < Level(stage) /\ Level("zoo_kit_build") < Level(stage)
    BY <1>12 DEF Level
  <2> QED BY <2>1, <2>2, <2>3, SoundTwo
<1>13. CASE stage = "patina_surface_dressing"
  <2>1. needs = << <<"zoo_clutter_build", None>>, <<"lot_site_surfaces", None>>, <<"themed_site_assemble", None>> >>
    BY <1>13 DEF Needs
  <2>2. /\ <<"zoo_clutter_build", None>> \in jobs /\ <<"lot_site_surfaces", None>> \in jobs
        /\ <<"themed_site_assemble", None>> \in jobs
    BY <1>13, JobCases DEF CandidateStages, ArtStages, DressStages, LitStages
  <2>3. /\ Level("zoo_clutter_build") < Level(stage) /\ Level("lot_site_surfaces") < Level(stage)
        /\ Level("themed_site_assemble") < Level(stage)
    BY <1>13 DEF Level
  <2> QED BY <2>1, <2>2, <2>3, SoundThree
<1>14. CASE stage = "lux_apply"
  <2>1. needs = << <<"themed_site_assemble", None>> >>
    BY <1>14 DEF Needs
  <2>2. <<"themed_site_assemble", None>> \in jobs
    BY <1>14, JobCases DEF CandidateStages, ArtStages, DressStages, LitStages
  <2>3. Level("themed_site_assemble") < Level(stage)
    BY <1>14 DEF Level
  <2> QED BY <2>1, <2>2, <2>3, SoundOne
<1>15. CASE stage = "dispatch_handoff"
  <2>1. needs = << DispatchOf(layers, of) >>
    BY <1>15 DEF Needs
  <2>2. Chosen(layers, of) /\ "gameplay" \in layers
    BY <1>15, JobCases DEF CandidateStages, ArtStages, DressStages, LitStages
  <2>3. DispatchOf(layers, of) \in jobs
    BY <2>2, JobCases DEF DispatchOf, Refused, Chosen, CandidateStages, ArtStages
  <2>4. Level(DispatchOf(layers, of)[1]) < Level(stage)
    BY <1>15 DEF Level, DispatchOf
  <2> QED BY <2>1, <2>3, <2>4, SoundOne
<1>16. stage \in {"deli_generate", "lot_assemble", "walktest_navqa", "laser_tag_evaluate", "pixelcoat_build",
          "patina_apply", "lot_site_surfaces", "zoo_kit_build", "zoo_roof_props_build", "zoo_clutter_build",
          "patina_dressing", "zoo_dressing_build", "zoo_fixtures_build", "lux_fixture_gate",
          "presentation_compose", "themed_site_assemble", "patina_surface_dressing", "lux_apply",
          "dispatch_handoff"}
  BY JobCases DEF CandidateStages, ArtStages, DressStages, LitStages
<1> QED BY <1>2, <1>3, <1>4, <1>5, <1>6, <1>7, <1>8, <1>9, <1>10, <1>11, <1>12, <1>13, <1>14, <1>15, <1>16

------------------------------------------------------------------------------
(* The plan of a batch.                                                    *)

AllStages ==
    CandidateStages \cup ArtStages \cup DressStages \cup LitStages
        \cup {"zoo_roof_props_build", "lux_apply", "dispatch_handoff"}

LEMMA LevelIsNat == \A stage : Level(stage) \in Nat
BY DEF Level

LEMMA SixAreFinite ==
    ASSUME NEW a, NEW b, NEW c, NEW d, NEW e, NEW f
    PROVE  IsFiniteSet({a, b, c, d, e, f})
<1>1. IsFiniteSet({a} \cup {b} \cup {c})
  BY FS_Singleton, FS_AddElement
<1>2. IsFiniteSet({a} \cup {b} \cup {c} \cup {d} \cup {e} \cup {f})
  BY <1>1, FS_AddElement
<1>3. {a, b, c, d, e, f} = {a} \cup {b} \cup {c} \cup {d} \cup {e} \cup {f}
  OBVIOUS
<1> QED BY <1>2, <1>3

LEMMA StagesFinite == IsFiniteSet(AllStages)
<1>1. IsFiniteSet(CandidateStages)
  <2>1. CandidateStages = {"deli_generate", "lot_assemble", "walktest_navqa", "laser_tag_evaluate",
                           "laser_tag_evaluate", "laser_tag_evaluate"}
    BY DEF CandidateStages
  <2> QED BY <2>1, SixAreFinite
<1>2. IsFiniteSet(ArtStages)
  BY SixAreFinite DEF ArtStages
<1>3. IsFiniteSet(DressStages)
  <2>1. DressStages = {"zoo_kit_build", "patina_apply", "patina_dressing", "zoo_dressing_build",
                       "zoo_dressing_build", "zoo_dressing_build"}
    BY DEF DressStages
  <2> QED BY <2>1, SixAreFinite
<1>4. IsFiniteSet(LitStages \cup {"zoo_roof_props_build", "lux_apply", "dispatch_handoff"})
  <2>1. LitStages \cup {"zoo_roof_props_build", "lux_apply", "dispatch_handoff"}
           = {"zoo_fixtures_build", "lux_fixture_gate", "zoo_roof_props_build", "lux_apply",
              "dispatch_handoff", "dispatch_handoff"}
    BY DEF LitStages
  <2>2. IsFiniteSet({"zoo_fixtures_build", "lux_fixture_gate", "zoo_roof_props_build", "lux_apply",
                     "dispatch_handoff", "dispatch_handoff"})
    BY SixAreFinite
  <2> QED BY Zenon, <2>1, <2>2
<1>5. IsFiniteSet(CandidateStages \cup ArtStages \cup DressStages)
  BY <1>1, <1>2, <1>3, FS_Union
<1>6. AllStages = (CandidateStages \cup ArtStages \cup DressStages)
                     \cup (LitStages \cup {"zoo_roof_props_build", "lux_apply", "dispatch_handoff"})
  BY DEF AllStages
<1> QED BY <1>4, <1>5, <1>6, FS_Union

\* A job of a mission's plan is a stage and what it is for.
LEMMA JobPairs ==
    ASSUME NEW layers, NEW of \in MissionAsk, Distinct(of.roofed),
           Elements(of.roofed) \subseteq Buildings \cup {None}, NEW job \in PlanJobs(layers, of)
    PROVE  /\ job = <<job[1], job[2]>> /\ job[1] \in AllStages /\ job[1] # "pixelcoat_shared"
           /\ job[2] \in Candidates \cup Buildings \cup {None, Site}
           /\ job[1] = "pixelcoat_build" => job[2] = None
<1>1. job = <<job[1], job[2]>>
  BY DEF PlanJobs, Base, Optional, ArtJobs
<1>2. /\ Elements(Dressed(of)) \subseteq Buildings \cup {None}
      /\ Elements(Placed(of)) \subseteq Buildings \cup {None} /\ of.candidates \subseteq Candidates
  BY ListsOf DEF Elements
<1> DEFINE stage == job[1] which == job[2]
<1> HIDE DEF stage, which
<1>3. <<stage, which>> \in PlanJobs(layers, of)
  BY <1>1 DEF stage, which
<1>4. \/ stage \in CandidateStages /\ which \in of.candidates
      \/ stage \in ArtStages /\ which = None
      \/ stage \in DressStages /\ which \in Elements(Dressed(of))
      \/ stage \in LitStages /\ which \in Elements(Placed(of))
      \/ stage = "zoo_roof_props_build" /\ which \in Elements(of.roofed)
      \/ stage = "zoo_kit_build" /\ which = Site
      \/ stage = "lux_apply" /\ which = None
      \/ stage = "dispatch_handoff" /\ which = None
  BY <1>3, JobCases
<1>5. which \in Candidates \cup Buildings \cup {None, Site}
  BY <1>2, <1>4
<1>6. stage \in AllStages
  BY <1>4 DEF AllStages, DressStages
<1>7. stage = "pixelcoat_build" => which = None
  BY <1>4 DEF CandidateStages, ArtStages, DressStages, LitStages
<1>8. stage # "pixelcoat_shared"
  BY <1>6 DEF AllStages, CandidateStages, ArtStages, DressStages, LitStages
<1> QED BY <1>1, <1>5, <1>6, <1>7, <1>8 DEF stage, which

LEMMA MissionOf ==
    ASSUME NEW ask \in Asks, NEW m \in Planned(ask)
    PROVE  /\ m \in Missions /\ ask.mission[m] \in MissionAsk /\ Distinct(ask.mission[m].roofed)
           /\ Elements(ask.mission[m].roofed) \subseteq Buildings \cup {None}
<1>1. AskOK(ask) /\ m \in DOMAIN ask.mission
  BY PlanAssumption DEF Planned, InBatch
<1>2. m \in Missions /\ ask.mission[m] \in MissionAsk /\ Distinct(ask.mission[m].roofed)
  BY <1>1 DEF AskOK
<1>3. ask.mission[m].roofed \in Seq(Buildings \cup {None})
  BY <1>2, ListsOf
<1> QED BY <1>2, <1>3 DEF Elements

\* Dependencies a job may have in the plan of a batch.
SoundIds(list, ids, stage) ==
    /\ list \in Seq(ids)
    /\ Distinct(list)
    /\ \A i \in 1..Len(list) : Level(list[i][2]) < Level(stage)

LEMMA PlanListSound ==
    ASSUME NEW ask \in Asks, Answered(ask), NEW id \in DOMAIN PlanOf(ask)
    PROVE  SoundIds(PlanOf(ask)[id], DOMAIN PlanOf(ask), id[2])
<1> DEFINE ids == DOMAIN PlanOf(ask)
           list == PlanOf(ask)[id]
<1>1. ids = MissionJobs(ask) \cup (IF Shares(ask) THEN {Skins} ELSE {})
  BY DEF PlanOf
<1>2. CASE Shares(ask) /\ id = Skins
  <2>1. list = <<>>
    BY <1>1, <1>2 DEF PlanOf
  <2> QED BY <2>1 DEF SoundIds, Distinct
<1>3. CASE ~(Shares(ask) /\ id = Skins)
  <2>0. PICK m \in Planned(ask) : \E job \in PlanJobs(ask.layers, ask.mission[m]) : id = Id(m, job)
    BY <1>1, <1>3 DEF MissionJobs
  <2>1. PICK job \in PlanJobs(ask.layers, ask.mission[m]) : id = Id(m, job)
    BY <2>0
  <2> DEFINE of == ask.mission[m]
             jobs == PlanJobs(ask.layers, of)
             needs == Needs(ask.layers, of, job[1], job[2])
             dep(i) == IF Shares(ask) /\ needs[i][1] = "pixelcoat_build" THEN Skins ELSE Id(m, needs[i])
  <2>2. /\ of \in MissionAsk /\ Distinct(of.roofed) /\ Elements(of.roofed) \subseteq Buildings \cup {None}
        /\ ~Refused(ask.layers, of)
    BY MissionOf DEF Answered
  <2>3. job = <<job[1], job[2]>>
    BY <2>2, JobPairs
  <2>4. Sound(needs, jobs, job[1])
    BY <2>2, <2>3, NeedsSound
  <2>5. \A i \in 1..Len(needs) :
          /\ needs[i] \in jobs /\ needs[i] = <<needs[i][1], needs[i][2]>>
          /\ needs[i][1] # "pixelcoat_shared"
          /\ needs[i][1] = "pixelcoat_build" => needs[i][2] = None
          /\ Level(needs[i][1]) < Level(job[1])
    <3>1. \A i \in 1..Len(needs) : needs[i] \in jobs /\ Level(needs[i][1]) < Level(job[1])
      BY <2>4 DEF Sound
    <3> HIDE DEF needs, of
    <3> QED BY <2>2, <3>1, JobPairs
  <2>6. Len(needs) \in Nat /\ Distinct(needs)
    BY <2>4 DEF Sound
  <2>7. id = <<m, job[1], job[2]>> /\ id[1] = m /\ id[2] = job[1] /\ id[3] = job[2]
    BY <2>1 DEF Id
  <2>8. list = [i \in 1..Len(needs) |-> dep(i)]
    <3>1. list = Shared(ask, DependsOn(ask.layers, ask.mission[id[1]], id))
      BY <1>1, <1>3 DEF PlanOf
    <3>2. DependsOn(ask.layers, ask.mission[id[1]], id) = [i \in 1..Len(needs) |-> Id(m, needs[i])]
      BY <2>7 DEF DependsOn
    <3> HIDE DEF needs
    <3>3. Len([i \in 1..Len(needs) |-> Id(m, needs[i])]) = Len(needs)
      BY <2>6
    <3>4. \A i \in 1..Len(needs) : Id(m, needs[i])[2] = needs[i][1]
      BY DEF Id
    <3> QED BY <3>1, <3>2, <3>3, <3>4 DEF Shared
  <2> HIDE DEF needs, of
  <2>9. Len(list) = Len(needs) /\ \A i \in 1..Len(list) : list[i] = dep(i)
    BY <2>6, <2>8
  <2>10. \A i \in 1..Len(needs) : dep(i) \in ids
    <3> SUFFICES ASSUME NEW i \in 1..Len(needs) PROVE dep(i) \in ids
      OBVIOUS
    <3>1. CASE Shares(ask) /\ needs[i][1] = "pixelcoat_build"
      BY <1>1, <3>1
    <3>2. CASE ~(Shares(ask) /\ needs[i][1] = "pixelcoat_build")
      <4>1. Id(m, needs[i]) \in UNION {{Id(n, j) : j \in PlanJobs(ask.layers, ask.mission[n])} : n \in Planned(ask)}
        BY <2>5 DEF of
      <4>2. Id(m, needs[i])[2] = needs[i][1]
        BY DEF Id
      <4>3. Id(m, needs[i]) \in MissionJobs(ask)
        BY <3>2, <4>1, <4>2 DEF MissionJobs
      <4> QED BY <1>1, <3>2, <4>3
    <3> QED BY <3>1, <3>2
  <2>11. list \in Seq(ids)
    BY <2>6, <2>8, <2>10
  <2>12. \A i, k \in 1..Len(needs) : dep(i) = dep(k) => needs[i] = needs[k]
    BY <2>5 DEF Id, Skins
  <2>13. Distinct(list)
    BY <2>6, <2>9, <2>12 DEF Distinct
  <2>14. \A i \in 1..Len(list) : Level(list[i][2]) < Level(id[2])
    <3> SUFFICES ASSUME NEW i \in 1..Len(needs) PROVE Level(dep(i)[2]) < Level(job[1])
      BY <2>7, <2>9
    <3>1. CASE Shares(ask) /\ needs[i][1] = "pixelcoat_build"
      <4>1. dep(i)[2] = "pixelcoat_shared" /\ Level("pixelcoat_shared") = 0 /\ Level("pixelcoat_build") = 2
        BY <3>1 DEF Skins, Level
      <4> QED BY <2>5, <3>1, <4>1, LevelIsNat
    <3>2. CASE ~(Shares(ask) /\ needs[i][1] = "pixelcoat_build")
      <4>1. dep(i)[2] = needs[i][1]
        BY <3>2 DEF Id
      <4> QED BY <2>5, <4>1
    <3> QED BY <3>1, <3>2
  <2> QED BY <2>11, <2>13, <2>14 DEF SoundIds
<1> QED BY <1>2, <1>3

\* What makes a graph one that is ordered.
WellPlanned(lists) ==
    /\ IsGraph(lists)
    /\ \A j \in DOMAIN lists : Elements(lists[j]) \subseteq DOMAIN lists
    /\ Single(lists)
    /\ \A jobs : ~Stuck(lists, jobs)

LEMMA PlanFinite ==
    ASSUME NEW ask \in Asks
    PROVE  IsFiniteSet(DOMAIN PlanOf(ask))
<1> DEFINE which == Candidates \cup Buildings \cup {None} \cup {Site}
           all == Missions \X (AllStages \X which)
           ids == {Id(x[1], x[2]) : x \in all}
           f == [x \in all |-> Id(x[1], x[2])]
           planned == UNION {{Id(m, job) : job \in PlanJobs(ask.layers, ask.mission[m])} : m \in Planned(ask)}
<1>1. IsFiniteSet(all)
  <2>1. IsFiniteSet(which)
    BY PlanAssumption, FS_Union, FS_AddElement
  <2> QED BY <2>1, PlanAssumption, StagesFinite, FS_Product
<1>2. f \in Surjection(all, ids)
  BY DEF Surjection
<1>3. IsFiniteSet(ids)
  BY <1>1, <1>2, FS_Surjection
<1>4. planned \subseteq ids
  <2> SUFFICES ASSUME NEW m \in Planned(ask), NEW job \in PlanJobs(ask.layers, ask.mission[m])
               PROVE  Id(m, job) \in ids
    OBVIOUS
  <2>1. /\ m \in Missions /\ job = <<job[1], job[2]>> /\ job[1] \in AllStages
        /\ job[2] \in Candidates \cup Buildings \cup {None, Site}
    BY MissionOf, JobPairs
  <2>2. <<m, job>> \in all
    BY <2>1
  <2> QED BY <2>2
<1>5. MissionJobs(ask) \subseteq planned
  BY DEF MissionJobs
<1>6. IsFiniteSet(MissionJobs(ask))
  BY <1>3, <1>4, <1>5, FS_Subset
<1>7. DOMAIN PlanOf(ask) = MissionJobs(ask) \cup (IF Shares(ask) THEN {Skins} ELSE {})
  BY DEF PlanOf
<1> QED BY <1>6, <1>7, FS_AddElement

\* A plan goes up the pipeline only: the first of the jobs that would wait for each other
\* waits for none of them.
LEMMA PlanWellPlanned ==
    ASSUME NEW ask \in Asks, Answered(ask)
    PROVE  WellPlanned(PlanOf(ask))
<1> DEFINE lists == PlanOf(ask)
           ids == DOMAIN lists
<1>1. \A id \in ids : SoundIds(lists[id], ids, id[2])
  BY PlanListSound
<1>2. IsFiniteSet(ids)
  BY PlanFinite
<1> HIDE DEF lists
<1>3. \A id \in ids : /\ lists[id] \in Seq(ids) /\ Distinct(lists[id])
                      /\ \A i \in 1..Len(lists[id]) : Level(lists[id][i][2]) < Level(id[2])
  BY <1>1 DEF SoundIds
<1>4. \A id \in ids : /\ lists[id] \in Seq(Elements(lists[id])) /\ Elements(lists[id]) \subseteq ids
                      /\ Cardinality(Elements(lists[id])) = Len(lists[id])
  <2> SUFFICES ASSUME NEW id \in ids
               PROVE  /\ lists[id] \in Seq(Elements(lists[id])) /\ Elements(lists[id]) \subseteq ids
                      /\ Cardinality(Elements(lists[id])) = Len(lists[id])
    OBVIOUS
  <2> DEFINE list == lists[id]
  <2>1. list \in Seq(ids) /\ Distinct(list)
    BY <1>3
  <2> HIDE DEF list
  <2>2. list \in Seq(Elements(list)) /\ Elements(list) \subseteq ids
    BY <2>1 DEF Elements
  <2>3. Cardinality(Elements(list)) = Len(list)
    BY <2>1, ElementsFinite DEF Distinct
  <2> QED BY <2>2, <2>3 DEF list
<1>5. ASSUME NEW jobs, Stuck(lists, jobs) PROVE FALSE
  <2> DEFINE T == {Level(j[2]) : j \in jobs}
             R == OpToRel(<, Nat)
  <2>1. T \subseteq Nat /\ T # {} /\ jobs \subseteq ids
    BY <1>5, LevelIsNat DEF Stuck
  <2>2. \E x \in T : \A y \in T : ~(<<y, x>> \in R)
    BY <2>1, WFMin, NatLessThanWellFounded
  <2>3. PICK j \in jobs : \A k \in jobs : ~(<<Level(k[2]), Level(j[2])>> \in R)
    BY <2>2
  <2>4. PICK d \in jobs : d \in Elements(lists[j])
    BY <1>5 DEF Stuck
  <2>5. Level(d[2]) < Level(j[2])
    BY <1>3, <2>1, <2>4 DEF Elements
  <2>6. <<Level(d[2]), Level(j[2])>> \in R
    BY <2>5, LevelIsNat DEF OpToRel
  <2> QED BY <2>3, <2>6
<1> QED BY <1>2, <1>4, <1>5 DEF WellPlanned, IsGraph, Single, lists

------------------------------------------------------------------------------
(* The system.                                                             *)

PlanInv ==
    /\ KahnInv
    /\ asked # NoAsk => asked \in Asks /\ Answered(asked) /\ graph = PlanOf(asked)

LEMMA PlanInductive == Spec => []PlanInv
<1>1. Init => PlanInv
  <2> SUFFICES ASSUME Init PROVE PlanInv
    OBVIOUS
  <2>1. CASE asked = NoAsk /\ graph \in Graphs
    BY <2>1, GraphsAssumption, KahnInit DEF Init, PlanInv
  <2>2. CASE asked \in {ask \in Asks : Answered(ask)} /\ graph = PlanOf(asked)
    <3>1. WellPlanned(graph)
      BY <2>2, PlanWellPlanned
    <3> QED BY <2>2, <3>1, KahnInit DEF Init, PlanInv, WellPlanned
  <2> QED BY <2>1, <2>2 DEF Init
<1>2. PlanInv /\ [Next]_vars => PlanInv'
  <2> SUFFICES ASSUME PlanInv, [Next]_vars PROVE PlanInv'
    OBVIOUS
  <2>1. [GraphNext]_graphVars /\ asked' = asked
    BY DEF Next, vars, graphVars
  <2>2. graph' = graph
    BY <2>1 DEF GraphNext, Count, Take, Stop, graphVars
  <2>3. KahnInv'
    BY <2>1, KahnStep DEF PlanInv
  <2> QED BY <2>1, <2>2, <2>3 DEF PlanInv
<1> QED BY <1>1, <1>2, PTL DEF Spec

\* topological_order puts a job once, and after everything it depends on, whatever graph
\* of whatever size it is given.
THEOREM OrderIsTopological == Spec => []OrderRespectsDeps
<1>1. PlanInv => OrderRespectsDeps
  BY DEF PlanInv, KahnInv
<1> QED BY <1>1, PlanInductive, PTL

\* What topological_order calls a cycle is one, if no list names a job twice, and what it
\* returns is all the jobs.
THEOREM CyclesAreReal == Spec => []RefusesOnlyCycles
<1>1. PlanInv => RefusesOnlyCycles
  BY CyclesAreThere DEF PlanInv
<1> QED BY <1>1, PlanInductive, PTL

\* Every plan that plan_mission or plan_batch returns, for whatever missions, candidates,
\* lots and layers, is closed and has no cycle: its order exists.
THEOREM EveryPlanIsOrdered == Spec => []PlansAreOrdered
<1>1. PlanInv => PlansAreOrdered
  <2> SUFFICES ASSUME PlanInv, asked # NoAsk, verdict \in {"unknown", "cycle"} PROVE FALSE
    BY DEF PlansAreOrdered
  <2>1. WellPlanned(graph) /\ KahnInv
    BY PlanWellPlanned DEF PlanInv
  <2>2. CASE verdict = "unknown"
    BY <2>1, <2>2 DEF WellPlanned, KahnInv, Jobs
  <2>3. CASE verdict = "cycle"
    BY <2>1, <2>3, CyclesAreThere DEF WellPlanned, RefusesOnlyCycles
  <2> QED BY <2>2, <2>3
<1> QED BY <1>1, PlanInductive, PTL
------------------------------------------------------------------------------
(* What a job waits for, directly or not.                                  *)

\* A non-empty set of numbers has a least one.
LEMMA LeastOf ==
    ASSUME NEW T \in SUBSET Nat, T # {}
    PROVE  \E x \in T : \A y \in T : x <= y
<1> DEFINE R == OpToRel(<, Nat)
<1>1. \E x \in T : \A y \in T : ~(<<y, x>> \in R)
  BY WFMin, NatLessThanWellFounded
<1>2. R = {ss \in Nat \X Nat : ss[1] < ss[2]}
  BY DEF OpToRel
<1> HIDE DEF R
<1>3. PICK x \in T : \A y \in T : <<y, x>> \notin R
  BY <1>1
<1>4. ASSUME NEW y \in T PROVE x <= y
  <2>1. x \in Nat /\ y \in Nat /\ <<y, x>> \in Nat \X Nat
    OBVIOUS
  <2>2. ~(y < x)
    BY <1>2, <1>3, <2>1
  <2> QED BY <2>1, <2>2
<1> QED BY <1>3, <1>4

\* Some function takes the first N of those steps, one after another.
HasWalk(S, base, step, N) ==
    \E f \in [0..N -> S] : f[0] = base /\ \A n \in 1..N : f[n] = step[f[n - 1]]

\* One step after another, as far as a number of them: the walk exists.
LEMMA Iterates ==
    ASSUME NEW S, NEW base \in S, NEW succ \in [S -> S], NEW N \in Nat
    PROVE  HasWalk(S, base, succ, N)
<1> DEFINE Walk(f, n) == f \in [0..n -> S] /\ f[0] = base /\ \A m \in 1..n : f[m] = succ[f[m - 1]]
<1> DEFINE Lost == {n \in Nat : ~\E f : Walk(f, n)}
<1>1. SUFFICES ASSUME Lost # {} PROVE FALSE
  BY DEF HasWalk
<1>2. PICK n \in Lost : \A m \in Lost : n <= m
  BY <1>1, LeastOf
<1>3. CASE n = 0
  <2>1. Walk([m \in 0..0 |-> base], 0)
    OBVIOUS
  <2> QED BY <1>2, <1>3, <2>1
<1>4. CASE n # 0
  <2>1. n \in Nat /\ n - 1 \in Nat /\ ~(n <= n - 1)
    BY <1>2, <1>4
  <2>2. PICK f : Walk(f, n - 1)
    BY <1>2, <2>1
  <2> DEFINE g == [m \in 0..n |-> IF m = n THEN succ[f[n - 1]] ELSE f[m]]
  <2>3. f[n - 1] \in S /\ succ[f[n - 1]] \in S
    BY <2>1, <2>2
  <2>4. \A m \in 0..n : m = n \/ m \in 0..(n - 1)
    BY <2>1
  <2>5. g \in [0..n -> S]
    BY <2>2, <2>3, <2>4
  <2>6. g[0] = base
    BY <2>1, <2>2, <1>4
  <2>7. ASSUME NEW m \in 1..n PROVE g[m] = succ[g[m - 1]]
    <3>1. m \in 0..n /\ m - 1 \in 0..n /\ m - 1 # n /\ m \in Nat
      BY <2>1
    <3>2. g[m - 1] = f[m - 1]
      BY <3>1
    <3>3. CASE m = n
      BY <3>1, <3>2, <3>3
    <3>4. CASE m # n
      <4>1. m \in 1..(n - 1)
        BY <2>1, <3>4
      <4> QED BY <2>2, <3>1, <3>2, <3>4, <4>1
    <3> QED BY <3>3, <3>4
  <2>8. Walk(g, n)
    BY <2>5, <2>6, <2>7
  <2> QED BY <1>2, <2>8
<1> QED BY <1>3, <1>4

\* The jobs behind a job: what it waits for, what that waits for, and no others.
LEMMA BehindFacts ==
    ASSUME WellPlanned(graph), NEW j \in Jobs
    PROVE  /\ Behind(j) \subseteq Jobs
           /\ Elements(graph[j]) \subseteq Behind(j)
           /\ \A k \in Behind(j) : Elements(graph[k]) \subseteq Behind(j)
           /\ \A S \in SUBSET Jobs : Elements(graph[j]) \subseteq S /\ (\A k \in S : Elements(graph[k]) \subseteq S) => Behind(j) \subseteq S
<1> DEFINE deps(k) == Elements(graph[k])
           N == Cardinality(Jobs)
           step(S) == S \cup UNION {deps(k) : k \in S}
           succ == [S \in SUBSET Jobs |-> step(S)]
           f[n \in 0..N] == IF n = 0 THEN deps(j) ELSE step(f[n - 1])
<1>1. N \in Nat /\ IsFiniteSet(Jobs) /\ deps(j) \in SUBSET Jobs /\ \A k \in Jobs : deps(k) \in SUBSET Jobs
  BY FS_CardinalityType DEF WellPlanned, IsGraph, Jobs
<1>2. Behind(j) = f[N]
  BY DEF Behind
<1>3. succ \in [SUBSET Jobs -> SUBSET Jobs]
  BY <1>1
<1> HIDE DEF N, deps
<1>4. \E g : g = [n \in 0..N |-> IF n = 0 THEN deps(j) ELSE step(g[n - 1])]
  <2>1. PICK g \in [0..N -> SUBSET Jobs] : g[0] = deps(j) /\ \A n \in 1..N : g[n] = succ[g[n - 1]]
    <3>1. N \in Nat /\ deps(j) \in SUBSET Jobs
      BY <1>1
    <3> HIDE DEF succ
    <3>2. PICK T, base, walk, last : T = SUBSET Jobs /\ base = deps(j) /\ walk = succ /\ last = N
      OBVIOUS
    <3>3. base \in T /\ walk \in [T -> T] /\ last \in Nat
      BY <1>3, <3>1, <3>2
    <3>4. HasWalk(T, base, walk, last)
      BY <3>3, Iterates
    <3> QED BY <3>2, <3>4 DEF HasWalk
  <2>2. ASSUME NEW n \in 0..N PROVE g[n] = IF n = 0 THEN deps(j) ELSE step(g[n - 1])
    <3>1. CASE n = 0
      BY <2>1, <3>1
    <3>2. CASE n # 0
      <4>1. n \in 1..N /\ n - 1 \in 0..N
        BY <1>1, <3>2
      <4>2. g[n - 1] \in SUBSET Jobs
        BY <2>1, <4>1
      <4> QED BY <2>1, <3>2, <4>1, <4>2
    <3> QED BY <3>1, <3>2
  <2> HIDE DEF step, succ
  <2>3. g = [n \in 0..N |-> IF n = 0 THEN deps(j) ELSE step(g[n - 1])]
    BY <2>1, <2>2
  <2> QED BY <2>3
<1>5. f = [n \in 0..N |-> IF n = 0 THEN deps(j) ELSE step(f[n - 1])]
  <2> HIDE DEF step
  <2> QED BY <1>4, Zenon
<1>6. f[0] = deps(j) /\ \A n \in 1..N : f[n] = step(f[n - 1])
  <2> HIDE DEF f, step
  <2>1. 0 \in 0..N /\ \A n \in 1..N : n \in 0..N /\ n # 0
    BY <1>1
  <2> QED BY <1>5, <2>1
<1> HIDE DEF f
\* By induction on how far the walk has gone.
<1>7. ASSUME NEW S \in SUBSET Jobs, deps(j) \subseteq S, \A k \in S : deps(k) \subseteq S
      PROVE  \A n \in 0..N : f[n] \subseteq S
  <2> DEFINE Out == {n \in 0..N : ~(f[n] \subseteq S)}
  <2>1. SUFFICES ASSUME Out # {} PROVE FALSE
    OBVIOUS
  <2>2. PICK n \in Out : \A m \in Out : n <= m
    <3>1. Out \in SUBSET Nat
      BY <1>1
    <3> HIDE DEF Out
    <3> QED BY <2>1, <3>1, LeastOf
  <2>3. n # 0
    BY <1>6, <1>7, <2>2
  <2>4. n \in 1..N /\ n - 1 \in 0..N /\ ~(n <= n - 1)
    BY <1>1, <2>2, <2>3
  <2>5. f[n - 1] \subseteq S
    BY <2>2, <2>4
  <2>6. f[n] \subseteq S
    BY <1>6, <1>7, <2>4, <2>5
  <2> QED BY <2>2, <2>6
<1>8. \A n \in 0..N : f[n] \subseteq Jobs
  BY <1>1, <1>7
<1> DEFINE Still(n) == step(f[n]) = f[n]
<1>9. ASSUME NEW n \in 1..N, Still(n - 1) PROVE Still(n)
  BY <1>6, <1>9
\* It goes on as long as it finds more jobs, and there are no more than N.
<1>10. \A n \in 0..N : Still(n) \/ n < Cardinality(f[n])
  <2> DEFINE Out == {n \in 0..N : ~(Still(n) \/ n < Cardinality(f[n]))}
  <2>1. SUFFICES ASSUME Out # {} PROVE FALSE
    OBVIOUS
  <2>2. PICK n \in Out : \A m \in Out : n <= m
    <3>1. Out \in SUBSET Nat
      BY <1>1
    <3> HIDE DEF Out
    <3> QED BY <2>1, <3>1, LeastOf
  <2>3. \A m \in 0..N : IsFiniteSet(f[m]) /\ Cardinality(f[m]) \in Nat
    BY <1>1, <1>8, FS_Subset, FS_CardinalityType
  <2>4. n # 0
    <3>1. Still(0) \/ deps(j) # {}
      BY <1>6
    <3>2. deps(j) # {} => 0 < Cardinality(f[0])
      <4>1. 0 \in 0..N
        BY <1>1
      <4>2. Cardinality(f[0]) = 0 => f[0] = {}
        BY <2>3, <4>1, FS_EmptySet
      <4> QED BY <1>6, <2>3, <4>1, <4>2
    <3> QED BY <2>2, <3>1, <3>2
  <2>5. n \in 1..N /\ n - 1 \in 0..N /\ ~(n <= n - 1) /\ n \in Nat
    BY <1>1, <2>2, <2>4
  <2>6. Still(n - 1) \/ n - 1 < Cardinality(f[n - 1])
    BY <2>2, <2>5
  <2>7. CASE Still(n - 1)
    BY <1>9, <2>2, <2>5, <2>7
  <2>8. CASE ~Still(n - 1) /\ n - 1 < Cardinality(f[n - 1])
    <3>1. f[n] = step(f[n - 1]) /\ f[n - 1] \subseteq f[n] /\ f[n - 1] # f[n]
      BY <1>6, <2>5, <2>8
    <3>2. Cardinality(f[n - 1]) <= Cardinality(f[n]) /\ Cardinality(f[n - 1]) # Cardinality(f[n])
      BY <2>3, <2>5, <3>1, FS_Subset
    <3>3. n < Cardinality(f[n])
      BY <2>3, <2>5, <2>8, <3>2
    <3> QED BY <2>2, <3>3
  <2> QED BY <2>6, <2>7, <2>8
<1>11. Still(N)
  <2>1. N \in 0..N
    BY <1>1
  <2>2. Cardinality(f[N]) <= N /\ Cardinality(f[N]) \in Nat
    <3>1. f[N] \in SUBSET Jobs
      BY <1>8, <2>1
    <3> QED BY <1>1, <3>1, FS_Subset, FS_CardinalityType DEF N
  <2> QED BY <1>1, <1>10, <2>1, <2>2
<1>12. \A n \in 0..N : deps(j) \subseteq f[n]
  <2> DEFINE Out == {n \in 0..N : ~(deps(j) \subseteq f[n])}
  <2>1. SUFFICES ASSUME Out # {} PROVE FALSE
    OBVIOUS
  <2>2. PICK n \in Out : \A m \in Out : n <= m
    <3>1. Out \in SUBSET Nat
      BY <1>1
    <3> HIDE DEF Out
    <3> QED BY <2>1, <3>1, LeastOf
  <2>3. n # 0
    BY <1>6, <2>2
  <2>4. n \in 1..N /\ n - 1 \in 0..N /\ ~(n <= n - 1)
    BY <1>1, <2>2, <2>3
  <2> QED BY <1>6, <2>2, <2>4
<1>13. N \in 0..N
  BY <1>1
<1>14. \A k \in f[N] : deps(k) \subseteq f[N]
  BY <1>11
<1>15. \A S \in SUBSET Jobs : deps(j) \subseteq S /\ (\A k \in S : deps(k) \subseteq S) => f[N] \subseteq S
  BY <1>7, <1>13
<1>16. f[N] \subseteq Jobs /\ deps(j) \subseteq f[N]
  BY <1>8, <1>12, <1>13
<1> QED BY <1>2, <1>14, <1>15, <1>16 DEF deps

------------------------------------------------------------------------------
(* What the deliverable waits for.                                         *)

Needed(layers, of, stage, which) == Elements(Needs(layers, of, stage, which))

LEMMA ElementsOfFew ==
    ASSUME NEW a, NEW b
    PROVE  Elements(<<>>) = {} /\ Elements(<<a>>) = {a} /\ Elements(<<a, b>>) = {a, b}
<1>1. Len(<<>>) = 0 /\ Len(<<a>>) = 1 /\ Len(<<a, b>>) = 2 /\ 1..0 = {} /\ 1..1 = {1} /\ 1..2 = {1, 2}
  OBVIOUS
<1>2. <<a>>[1] = a /\ <<a, b>>[1] = a /\ <<a, b>>[2] = b
  OBVIOUS
<1>3. Elements(<<>>) = {}
  BY <1>1 DEF Elements
<1>4. Elements(<<a>>) = {a}
  BY <1>1, <1>2 DEF Elements
<1>5. Elements(<<a, b>>) = {a, b}
  <2> DEFINE s == <<a, b>>
  <2>1. Len(s) = 2 /\ s[1] = a /\ s[2] = b
    BY <1>1, <1>2
  <2> HIDE DEF s
  <2>2. Elements(s) = {a, b}
    BY <1>1, <2>1 DEF Elements
  <2> QED BY <2>2 DEF s
<1> QED BY <1>3, <1>4, <1>5

LEMMA PiecesAre ==
    ASSUME NEW of \in MissionAsk
    PROVE  Elements(Pieces(of)) =
              {<<"deli_generate", of.selected>>} \cup ({"zoo_kit_build", "zoo_dressing_build"} \X Elements(Dressed(of)))
                 \cup ({"zoo_fixtures_build"} \X Elements(Placed(of)))
                 \cup ({"zoo_roof_props_build"} \X Elements(of.roofed))
<1> DEFINE dressed == Elements(Dressed(of))
           placed == Elements(Placed(of))
           roofed == Elements(of.roofed)
           stages == {"zoo_kit_build", "zoo_dressing_build", "zoo_fixtures_build", "zoo_roof_props_build"}
           deli == <<"deli_generate", of.selected>>
           all == {deli} \cup (stages \X (dressed \cup placed \cup roofed))
           s1 == <<deli>>
           s2 == Each("zoo_kit_build", Dressed(of))
           s3 == Each("zoo_dressing_build", Dressed(of))
           s4 == Each("zoo_fixtures_build", Placed(of))
           s5 == Each("zoo_roof_props_build", of.roofed)
<1>1. s1 \in Seq(all) /\ Elements(s1) = {deli}
  <2>1. deli \in all
    OBVIOUS
  <2> HIDE DEF deli, all
  <2>2. <<deli>> \in Seq(all)
    BY <2>1
  <2>3. Elements(<<deli>>) = {deli}
    BY ElementsOfFew
  <2> QED BY <2>2, <2>3
<1>2. /\ s2 \in Seq({"zoo_kit_build"} \X dressed) /\ Elements(s2) = {"zoo_kit_build"} \X dressed
      /\ s3 \in Seq({"zoo_dressing_build"} \X dressed) /\ Elements(s3) = {"zoo_dressing_build"} \X dressed
  <2> HIDE DEF all
  <2>1. Dressed(of) \in Seq(Buildings \cup {None})
    BY ListsOf
  <2> QED BY <2>1, EachFacts
<1>3. /\ s4 \in Seq({"zoo_fixtures_build"} \X placed) /\ Elements(s4) = {"zoo_fixtures_build"} \X placed
      /\ s5 \in Seq({"zoo_roof_props_build"} \X roofed) /\ Elements(s5) = {"zoo_roof_props_build"} \X roofed
  BY ListsOf, EachFacts
<1>4. Pieces(of) = s1 \o s2 \o s3 \o s4 \o s5
  BY DEF Pieces
<1> HIDE DEF deli, s1, s2, s3, s4, s5, dressed, placed, roofed
<1>5. s2 \in Seq(all) /\ s3 \in Seq(all) /\ s4 \in Seq(all) /\ s5 \in Seq(all)
  <2>1. /\ {"zoo_kit_build"} \X dressed \subseteq all /\ {"zoo_dressing_build"} \X dressed \subseteq all
        /\ {"zoo_fixtures_build"} \X placed \subseteq all /\ {"zoo_roof_props_build"} \X roofed \subseteq all
    OBVIOUS
  <2> HIDE DEF all
  <2> QED BY <1>2, <1>3, <2>1
<1> HIDE DEF all
<1> DEFINE l2 == s1 \o s2
<1>6. l2 \in Seq(all) /\ Elements(l2) = Elements(s1) \cup Elements(s2)
  BY <1>1, <1>5, ElementsConcat
<1> HIDE DEF l2
<1> DEFINE l3 == l2 \o s3
<1>7. l3 \in Seq(all) /\ Elements(l3) = Elements(l2) \cup Elements(s3)
  BY <1>5, <1>6, ElementsConcat
<1> HIDE DEF l3
<1> DEFINE l4 == l3 \o s4
<1>8. l4 \in Seq(all) /\ Elements(l4) = Elements(l3) \cup Elements(s4)
  BY <1>5, <1>7, ElementsConcat
<1> HIDE DEF l4
<1>9. Elements(l4 \o s5) = Elements(l4) \cup Elements(s5)
  BY <1>5, <1>8, ElementsConcat
<1>10. Pieces(of) = l4 \o s5
  BY <1>4 DEF l2, l3, l4
<1>11. Elements(Pieces(of)) = {deli} \cup ({"zoo_kit_build"} \X dressed)
          \cup ({"zoo_dressing_build"} \X dressed) \cup ({"zoo_fixtures_build"} \X placed)
          \cup ({"zoo_roof_props_build"} \X roofed)
  BY <1>1, <1>2, <1>3, <1>6, <1>7, <1>8, <1>9, <1>10
<1> QED BY <1>11 DEF dressed, placed, roofed, deli

\* What a job waits for: the greybox and the textures.
LEMMA NeedsOfSite ==
    ASSUME NEW layers, NEW of, NEW what
    PROVE  /\ Needed(layers, of, "deli_generate", what) = {}
           /\ Needed(layers, of, "lot_assemble", what) = {<<"deli_generate", what>>}
           /\ Needed(layers, of, "pixelcoat_build", what) = {<<"lot_assemble", of.selected>>}
<1>1. /\ Needs(layers, of, "deli_generate", what) = <<>>
      /\ Needs(layers, of, "lot_assemble", what) = << <<"deli_generate", what>> >>
      /\ Needs(layers, of, "pixelcoat_build", what) = << <<"lot_assemble", of.selected>> >>
  BY DEF Needs
<1> QED BY <1>1, ElementsOfFew DEF Needed

\* The kits and the roofs.
LEMMA NeedsOfKits ==
    ASSUME NEW layers, NEW of, NEW what
    PROVE  /\ Needed(layers, of, "zoo_kit_build", what) = {<<"lot_assemble", of.selected>>, <<"pixelcoat_build", None>>}
           /\ Needed(layers, of, "zoo_roof_props_build", what) = {<<"lot_assemble", of.selected>>, <<"pixelcoat_build", None>>}
           /\ Needed(layers, of, "zoo_fixtures_build", what) = {<<"deli_generate", of.selected>>, <<"pixelcoat_build", None>>}
<1>1. /\ Needs(layers, of, "zoo_kit_build", what) = << <<"lot_assemble", of.selected>>, <<"pixelcoat_build", None>> >>
      /\ Needs(layers, of, "zoo_roof_props_build", what) = << <<"lot_assemble", of.selected>>, <<"pixelcoat_build", None>> >>
      /\ Needs(layers, of, "zoo_fixtures_build", what) = << <<"deli_generate", of.selected>>, <<"pixelcoat_build", None>> >>
  BY DEF Needs
<1> QED BY <1>1, ElementsOfFew DEF Needed

\* The dressings.
LEMMA NeedsOfDressings ==
    ASSUME NEW layers, NEW of, NEW what
    PROVE  /\ Needed(layers, of, "patina_apply", what) = {<<"lot_assemble", of.selected>>}
           /\ Needed(layers, of, "patina_dressing", what) = {<<"patina_apply", what>>}
           /\ Needed(layers, of, "zoo_dressing_build", what) = {<<"patina_dressing", what>>, <<"zoo_kit_build", what>>}
<1>1. /\ Needs(layers, of, "patina_apply", what) = << <<"lot_assemble", of.selected>> >>
      /\ Needs(layers, of, "patina_dressing", what) = << <<"patina_apply", what>> >>
      /\ Needs(layers, of, "zoo_dressing_build", what) = << <<"patina_dressing", what>>, <<"zoo_kit_build", what>> >>
  BY DEF Needs
<1> QED BY <1>1, ElementsOfFew DEF Needed

\* What makes the whole.
LEMMA NeedsOfTheWhole ==
    ASSUME NEW layers, NEW of, NEW what
    PROVE  /\ Needed(layers, of, "presentation_compose", what) = Elements(Pieces(of))
           /\ Needed(layers, of, "themed_site_assemble", what) = {<<"presentation_compose", None>>, <<"zoo_kit_build", Site>>}
           /\ Needed(layers, of, "lux_apply", what) = {<<"themed_site_assemble", None>>}
           /\ Needed(layers, of, "dispatch_handoff", what) = {DispatchOf(layers, of)}
<1>1. /\ Needs(layers, of, "presentation_compose", what) = Pieces(of)
      /\ Needs(layers, of, "themed_site_assemble", what) = << <<"presentation_compose", None>>, <<"zoo_kit_build", Site>> >>
      /\ Needs(layers, of, "lux_apply", what) = << <<"themed_site_assemble", None>> >>
      /\ Needs(layers, of, "dispatch_handoff", what) = << DispatchOf(layers, of) >>
  BY DEF Needs
<1> QED BY <1>1, ElementsOfFew DEF Needed

\* What of a mission its deliverable is made from: all but the other candidates and what
\* is set aside.
Due(layers, of) ==
    {job \in PlanJobs(layers, of) : job[1] \notin CandidateStages \cup Aside}
        \cup {<<"deli_generate", of.selected>>, <<"lot_assemble", of.selected>>}

LastJob(layers, of) ==
    IF "gameplay" \in layers THEN <<"dispatch_handoff", None>> ELSE DispatchOf(layers, of)

IsDue(layers, of, stage, which) ==
    \/ stage \in {"deli_generate", "lot_assemble"} /\ which = of.selected
    \/ /\ "art" \in layers
       /\ \/ stage \in {"pixelcoat_build", "presentation_compose", "themed_site_assemble"} /\ which = None
          \/ stage \in DressStages /\ which \in Elements(Dressed(of))
          \/ stage = "zoo_fixtures_build" /\ which \in Elements(Placed(of))
          \/ stage = "zoo_roof_props_build" /\ which \in Elements(of.roofed)
          \/ stage = "zoo_kit_build" /\ which = Site
    \/ {"art", "light"} \subseteq layers /\ stage = "lux_apply" /\ which = None
    \/ "gameplay" \in layers /\ stage = "dispatch_handoff" /\ which = None

LEMMA DueCases ==
    ASSUME NEW layers, NEW of \in MissionAsk, of.selected # None, NEW stage, NEW which
    PROVE  <<stage, which>> \in Due(layers, of) <=> IsDue(layers, of, stage, which)
<1>1. <<stage, which>> \in Due(layers, of) <=>
         \/ <<stage, which>> \in PlanJobs(layers, of) /\ stage \notin CandidateStages \cup Aside
         \/ stage \in {"deli_generate", "lot_assemble"} /\ which = of.selected
  BY DEF Due
<1>2. Chosen(layers, of)
  BY DEF Chosen
<1>3. ASSUME <<stage, which>> \in PlanJobs(layers, of), stage \notin CandidateStages \cup Aside
      PROVE  IsDue(layers, of, stage, which)
  BY <1>2, <1>3, JobCases DEF IsDue, Aside, ArtStages, LitStages
<1>4. ASSUME IsDue(layers, of, stage, which), ~(stage \in {"deli_generate", "lot_assemble"} /\ which = of.selected)
      PROVE  <<stage, which>> \in PlanJobs(layers, of) /\ stage \notin CandidateStages \cup Aside
  <2>1. stage \notin CandidateStages \cup Aside
    BY <1>4 DEF IsDue, CandidateStages, Aside, DressStages
  <2>2. <<stage, which>> \in PlanJobs(layers, of)
    BY <1>2, <1>4, JobCases DEF IsDue, ArtStages, LitStages
  <2> QED BY <2>1, <2>2
<1>5. stage \in {"deli_generate", "lot_assemble"} /\ which = of.selected => IsDue(layers, of, stage, which)
  BY DEF IsDue
<1> QED BY <1>1, <1>3, <1>4, <1>5

\* What a due job waits for is due.
LEMMA DueClosed ==
    ASSUME NEW layers, layers # {}, NEW of \in MissionAsk, ~Refused(layers, of), of.selected # None,
           NEW stage, NEW which, <<stage, which>> \in Due(layers, of)
    PROVE  Needed(layers, of, stage, which) \subseteq Due(layers, of)
<1> DEFINE due == Due(layers, of)
           site == <<"lot_assemble", of.selected>>
<1>1. IsDue(layers, of, stage, which)
  BY DueCases
<1>2. <<"deli_generate", of.selected>> \in due /\ site \in due
  BY DEF Due
<1>3. "art" \in layers =>
         /\ <<"pixelcoat_build", None>> \in due /\ <<"presentation_compose", None>> \in due
         /\ <<"themed_site_assemble", None>> \in due /\ <<"zoo_kit_build", Site>> \in due
         /\ \A b \in Elements(Dressed(of)) :
               /\ <<"zoo_kit_build", b>> \in due /\ <<"patina_apply", b>> \in due
               /\ <<"patina_dressing", b>> \in due /\ <<"zoo_dressing_build", b>> \in due
         /\ \A b \in Elements(Placed(of)) : <<"zoo_fixtures_build", b>> \in due
         /\ \A b \in Elements(of.roofed) : <<"zoo_roof_props_build", b>> \in due
  BY DueCases DEF IsDue, DressStages
<1>4. {"art", "light"} \subseteq layers => <<"lux_apply", None>> \in due
  BY DueCases DEF IsDue
<1> HIDE DEF due
<1>5. CASE stage \in {"deli_generate", "lot_assemble"} /\ which = of.selected
  <2>0. /\ Needed(layers, of, "deli_generate", which) = {}
        /\ Needed(layers, of, "lot_assemble", which) = {<<"deli_generate", which>>}
    BY NeedsOfSite
  <2>1. Needed(layers, of, stage, which) \subseteq {<<"deli_generate", of.selected>>}
    BY <1>5, <2>0
  <2> QED BY <1>2, <2>1 DEF due
<1>6. CASE "gameplay" \in layers /\ stage = "dispatch_handoff" /\ which = None
  <2>1. Needed(layers, of, stage, which) = {DispatchOf(layers, of)}
    BY <1>6, NeedsOfTheWhole
  <2>2. DispatchOf(layers, of) \in due
    BY <1>2, <1>3, <1>4 DEF DispatchOf
  <2> QED BY <2>1, <2>2 DEF due
<1>7. CASE {"art", "light"} \subseteq layers /\ stage = "lux_apply" /\ which = None
  <2>1. Needed(layers, of, stage, which) = {<<"themed_site_assemble", None>>}
    BY <1>7, NeedsOfTheWhole
  <2> QED BY <1>3, <1>7, <2>1 DEF due
<1>8. CASE "art" \in layers /\ stage = "presentation_compose"
  <2>0. Needed(layers, of, "presentation_compose", which) = Elements(Pieces(of))
    BY NeedsOfTheWhole
  <2>1. Needed(layers, of, stage, which) = Elements(Pieces(of))
    BY <1>8, <2>0
  <2>2. Elements(Pieces(of)) \subseteq due
    <3>1. {"zoo_kit_build", "zoo_dressing_build"} \X Elements(Dressed(of)) \subseteq due
      <4>1. \A b \in Elements(Dressed(of)) : <<"zoo_kit_build", b>> \in due /\ <<"zoo_dressing_build", b>> \in due
        BY <1>3, <1>8
      <4>2. ASSUME NEW x \in {"zoo_kit_build", "zoo_dressing_build"} \X Elements(Dressed(of)) PROVE x \in due
        <5>1. x = <<x[1], x[2]>> /\ x[1] \in {"zoo_kit_build", "zoo_dressing_build"} /\ x[2] \in Elements(Dressed(of))
          OBVIOUS
        <5> QED BY <4>1, <5>1
      <4> QED BY <4>2
    <3>2. /\ {"zoo_fixtures_build"} \X Elements(Placed(of)) \subseteq due
          /\ {"zoo_roof_props_build"} \X Elements(of.roofed) \subseteq due
      BY <1>3, <1>8
    <3> QED BY <1>2, <3>1, <3>2, PiecesAre
  <2> QED BY <2>1, <2>2 DEF due
<1>9. CASE "art" \in layers /\ stage \in {"pixelcoat_build", "patina_apply"}
  <2>1. Needed(layers, of, stage, which) = {site}
    BY <1>9, NeedsOfSite, NeedsOfDressings
  <2> QED BY <1>2, <2>1 DEF due
<1>10. CASE "art" \in layers /\ stage \in {"zoo_kit_build", "zoo_roof_props_build"}
  <2>1. Needed(layers, of, stage, which) = {site, <<"pixelcoat_build", None>>}
    BY <1>10, NeedsOfKits
  <2> QED BY <1>2, <1>3, <1>10, <2>1 DEF due
<1>11. CASE "art" \in layers /\ stage \in {"themed_site_assemble", "zoo_fixtures_build"}
  <2>1. Needed(layers, of, stage, which) \subseteq {<<"presentation_compose", None>>, <<"zoo_kit_build", Site>>,
                          <<"deli_generate", of.selected>>, <<"pixelcoat_build", None>>}
    BY <1>11, NeedsOfKits, NeedsOfTheWhole
  <2> QED BY <1>2, <1>3, <1>11, <2>1 DEF due
<1>12. CASE "art" \in layers /\ stage \in {"patina_dressing", "zoo_dressing_build"} /\ which \in Elements(Dressed(of))
  <2>0. /\ Needed(layers, of, "patina_dressing", which) = {<<"patina_apply", which>>}
        /\ Needed(layers, of, "zoo_dressing_build", which) = {<<"patina_dressing", which>>, <<"zoo_kit_build", which>>}
    BY NeedsOfDressings
  <2>1. Needed(layers, of, stage, which) \subseteq {<<"patina_apply", which>>, <<"patina_dressing", which>>, <<"zoo_kit_build", which>>}
    BY <1>12, <2>0
  <2> QED BY <1>3, <1>12, <2>1 DEF due
<1>13. \/ stage \in {"deli_generate", "lot_assemble"} /\ which = of.selected
       \/ "gameplay" \in layers /\ stage = "dispatch_handoff" /\ which = None
       \/ {"art", "light"} \subseteq layers /\ stage = "lux_apply" /\ which = None
       \/ /\ "art" \in layers
          /\ \/ stage \in {"presentation_compose", "pixelcoat_build", "patina_apply", "zoo_kit_build",
                           "zoo_roof_props_build", "themed_site_assemble", "zoo_fixtures_build"}
             \/ stage \in {"patina_dressing", "zoo_dressing_build"} /\ which \in Elements(Dressed(of))
  BY <1>1 DEF IsDue, DressStages
<1> QED BY <1>5, <1>6, <1>7, <1>8, <1>9, <1>10, <1>11, <1>12, <1>13

LEMMA LastIsDue ==
    ASSUME NEW layers, layers # {}, layers \subseteq Layers, NEW of \in MissionAsk, ~Refused(layers, of),
           of.selected # None
    PROVE  /\ LastJob(layers, of) \in Due(layers, of)
           /\ LastJob(layers, of) = <<LastJob(layers, of)[1], LastJob(layers, of)[2]>>
           /\ LastJob(layers, of)[1] # "pixelcoat_build"
<1>1. "gameplay" \in layers \/ "art" \in layers
  BY DEF Refused, Layers
<1>2. LastJob(layers, of) \in {<<"dispatch_handoff", None>>, <<"lux_apply", None>>,
                               <<"themed_site_assemble", None>>}
  BY <1>1 DEF LastJob, DispatchOf
<1>3. CASE "gameplay" \in layers
  BY <1>3, DueCases DEF LastJob, IsDue
<1>4. CASE "gameplay" \notin layers
  BY <1>1, <1>4, DueCases DEF LastJob, DispatchOf, IsDue
<1> QED BY <1>2, <1>3, <1>4

\* From the last job along what is waited for, the shared skins apart, one comes to all
\* that is due.
LEMMA DueReached ==
    ASSUME NEW layers, layers # {}, layers \subseteq Layers, NEW of \in MissionAsk, ~Refused(layers, of),
           of.selected # None,
           NEW X, LastJob(layers, of) \in X,
           \A stage, which : /\ <<stage, which>> \in X /\ <<stage, which>> \in Due(layers, of)
                             /\ stage # "pixelcoat_build"
                             => Needed(layers, of, stage, which) \subseteq X
    PROVE  Due(layers, of) \subseteq X
<1> DEFINE site == <<"lot_assemble", of.selected>>
           deli == <<"deli_generate", of.selected>>
           skins == <<"pixelcoat_build", None>>
           compose == <<"presentation_compose", None>>
           themed == <<"themed_site_assemble", None>>
           kit == <<"zoo_kit_build", Site>>
           dispatch == <<"dispatch_handoff", None>>
           lux == <<"lux_apply", None>>
<1>1. ASSUME NEW stage, NEW which, <<stage, which>> \in X, IsDue(layers, of, stage, which),
             stage # "pixelcoat_build"
      PROVE  Needed(layers, of, stage, which) \subseteq X
  BY <1>1, DueCases
<1>2. "gameplay" \in layers => dispatch \in X /\ DispatchOf(layers, of) \in X
  <2> SUFFICES ASSUME "gameplay" \in layers PROVE dispatch \in X /\ DispatchOf(layers, of) \in X
    OBVIOUS
  <2>1. dispatch \in X
    BY DEF LastJob
  <2>2. IsDue(layers, of, "dispatch_handoff", None)
    BY DEF IsDue
  <2>3. Needed(layers, of, "dispatch_handoff", None) = {DispatchOf(layers, of)}
    BY NeedsOfTheWhole
  <2> QED BY <1>1, <2>1, <2>2, <2>3
<1>3. DispatchOf(layers, of) \in X
  BY <1>2 DEF LastJob
<1>4. CASE "art" \notin layers
  <2>1. site \in X
    BY <1>3, <1>4 DEF DispatchOf
  <2>2. deli \in X
    <3>1. IsDue(layers, of, "lot_assemble", of.selected)
      BY DEF IsDue
    <3>2. Needed(layers, of, "lot_assemble", of.selected) = {deli}
      BY NeedsOfSite
    <3> QED BY <1>1, <2>1, <3>1, <3>2
  <2>3. "gameplay" \in layers
    BY <1>4 DEF Refused, Layers
  <2>4. ASSUME NEW job \in Due(layers, of) PROVE job \in X
    <3>1. job = <<job[1], job[2]>>
      BY DEF Due, PlanJobs, Base, Optional, ArtJobs
    <3>2. IsDue(layers, of, job[1], job[2])
      BY <3>1, DueCases
    <3>3. job \in {deli, site, dispatch}
      BY <1>4, <3>1, <3>2 DEF IsDue
    <3> QED BY <1>2, <2>1, <2>2, <2>3, <3>3
  <2> QED BY <2>4
<1>5. CASE "art" \in layers
  <2>1. /\ IsDue(layers, of, "lot_assemble", of.selected) /\ IsDue(layers, of, "presentation_compose", None)
        /\ IsDue(layers, of, "themed_site_assemble", None) /\ IsDue(layers, of, "zoo_kit_build", Site)
        /\ "light" \in layers => IsDue(layers, of, "lux_apply", None)
        /\ \A b \in Elements(Dressed(of)) :
              IsDue(layers, of, "zoo_dressing_build", b) /\ IsDue(layers, of, "patina_dressing", b)
    BY <1>5 DEF IsDue, DressStages
  <2>2. /\ Needed(layers, of, "lot_assemble", of.selected) = {deli}
        /\ Needed(layers, of, "presentation_compose", None) = Elements(Pieces(of))
        /\ Needed(layers, of, "themed_site_assemble", None) = {compose, kit}
        /\ Needed(layers, of, "zoo_kit_build", Site) = {site, skins}
        /\ Needed(layers, of, "lux_apply", None) = {themed}
    BY NeedsOfSite, NeedsOfKits, NeedsOfTheWhole
  <2>3. "light" \in layers => lux \in X
    BY <1>3, <1>5 DEF DispatchOf
  <2>4. themed \in X
    <3>1. CASE "light" \in layers
      BY <1>1, <2>1, <2>2, <2>3, <3>1
    <3>2. CASE "light" \notin layers
      BY <1>3, <1>5, <3>2 DEF DispatchOf
    <3> QED BY <3>1, <3>2
  <2>5. compose \in X /\ kit \in X
    BY <1>1, <2>1, <2>2, <2>4
  <2>6. site \in X /\ skins \in X
    BY <1>1, <2>1, <2>2, <2>5
  <2>7. deli \in X
    BY <1>1, <2>1, <2>2, <2>6
  <2>8. Elements(Pieces(of)) \subseteq X
    BY <1>1, <2>1, <2>2, <2>5
  <2>9. /\ \A b \in Elements(Dressed(of)) : <<"zoo_kit_build", b>> \in X /\ <<"zoo_dressing_build", b>> \in X
        /\ \A b \in Elements(Placed(of)) : <<"zoo_fixtures_build", b>> \in X
        /\ \A b \in Elements(of.roofed) : <<"zoo_roof_props_build", b>> \in X
    BY <2>8, PiecesAre
  <2>10. \A b \in Elements(Dressed(of)) : <<"patina_dressing", b>> \in X
    <3> SUFFICES ASSUME NEW b \in Elements(Dressed(of)) PROVE <<"patina_dressing", b>> \in X
      OBVIOUS
    <3>1. Needed(layers, of, "zoo_dressing_build", b) = {<<"patina_dressing", b>>, <<"zoo_kit_build", b>>}
      BY NeedsOfDressings
    <3>2. Needed(layers, of, "zoo_dressing_build", b) \subseteq X
      BY <1>1, <2>1, <2>9
    <3> QED BY <3>1, <3>2
  <2>11. \A b \in Elements(Dressed(of)) : <<"patina_apply", b>> \in X
    <3> SUFFICES ASSUME NEW b \in Elements(Dressed(of)) PROVE <<"patina_apply", b>> \in X
      OBVIOUS
    <3>1. Needed(layers, of, "patina_dressing", b) = {<<"patina_apply", b>>}
      BY NeedsOfDressings
    <3>2. Needed(layers, of, "patina_dressing", b) \subseteq X
      BY <1>1, <2>1, <2>10
    <3> QED BY <3>1, <3>2
  <2>12. ASSUME NEW job \in Due(layers, of) PROVE job \in X
    <3>1. job = <<job[1], job[2]>>
      BY DEF Due, PlanJobs, Base, Optional, ArtJobs
    <3>2. IsDue(layers, of, job[1], job[2])
      BY <3>1, DueCases
    <3> DEFINE stage == job[1] which == job[2]
    <3> HIDE DEF stage, which
    <3>3. IsDue(layers, of, stage, which) /\ job = <<stage, which>>
      BY <3>1, <3>2 DEF stage, which
    <3>4. CASE stage \in {"deli_generate", "lot_assemble"} /\ which = of.selected
      BY <2>6, <2>7, <3>3, <3>4
    <3>5. CASE stage \in {"pixelcoat_build", "presentation_compose", "themed_site_assemble"} /\ which = None
      BY <2>4, <2>5, <2>6, <3>3, <3>5
    <3>6. CASE stage \in DressStages /\ which \in Elements(Dressed(of))
      BY <2>9, <2>10, <2>11, <3>3, <3>6 DEF DressStages
    <3>7. CASE stage = "zoo_fixtures_build" /\ which \in Elements(Placed(of))
      BY <2>9, <3>3, <3>7
    <3>8. CASE stage = "zoo_roof_props_build" /\ which \in Elements(of.roofed)
      BY <2>9, <3>3, <3>8
    <3>9. CASE stage = "zoo_kit_build" /\ which = Site
      BY <2>5, <3>3, <3>9
    <3>10. CASE {"art", "light"} \subseteq layers /\ stage = "lux_apply" /\ which = None
      BY <2>3, <3>3, <3>10
    <3>11. CASE "gameplay" \in layers /\ stage = "dispatch_handoff" /\ which = None
      BY <1>2, <3>3, <3>11
    <3> QED BY <3>3, <3>4, <3>5, <3>6, <3>7, <3>8, <3>9, <3>10, <3>11 DEF IsDue
  <2> QED BY <2>12
<1> QED BY <1>4, <1>5

\* A job's id in the plan it is in: a batch shares the skins.
Renamed(ask, m, job) == IF Shares(ask) /\ job[1] = "pixelcoat_build" THEN Skins ELSE Id(m, job)

LEMMA PlannedList ==
    ASSUME NEW ask \in Asks, Answered(ask), NEW m \in Planned(ask), NEW job \in PlanJobs(ask.layers, ask.mission[m]),
           ~(Shares(ask) /\ job[1] = "pixelcoat_build")
    PROVE  /\ Id(m, job) \in DOMAIN PlanOf(ask)
           /\ Elements(PlanOf(ask)[Id(m, job)]) =
                 {Renamed(ask, m, need) : need \in Needed(ask.layers, ask.mission[m], job[1], job[2])}
<1> DEFINE of == ask.mission[m]
           id == Id(m, job)
           needs == Needs(ask.layers, of, job[1], job[2])
           list == PlanOf(ask)[id]
<1>1. /\ of \in MissionAsk /\ Distinct(of.roofed) /\ Elements(of.roofed) \subseteq Buildings \cup {None}
      /\ ~Refused(ask.layers, of)
  BY MissionOf DEF Answered
<1>2. job = <<job[1], job[2]>> /\ job[1] # "pixelcoat_shared"
  BY <1>1, JobPairs
<1>3. id[1] = m /\ id[2] = job[1] /\ id[3] = job[2] /\ id # Skins
  BY <1>2 DEF Id, Skins
<1>4. id \in MissionJobs(ask)
  <2>1. id \in UNION {{Id(n, j) : j \in PlanJobs(ask.layers, ask.mission[n])} : n \in Planned(ask)}
    OBVIOUS
  <2> QED BY <1>3, <2>1 DEF MissionJobs
<1>5. id \in DOMAIN PlanOf(ask) /\ list = Shared(ask, DependsOn(ask.layers, ask.mission[id[1]], id))
  BY <1>3, <1>4 DEF PlanOf
<1>6. Len(needs) \in Nat
  <2>1. Sound(needs, PlanJobs(ask.layers, of), job[1])
    BY <1>1, <1>2, NeedsSound
  <2> QED BY <2>1 DEF Sound
<1>7. DependsOn(ask.layers, ask.mission[id[1]], id) = [i \in 1..Len(needs) |-> Id(m, needs[i])]
  BY <1>3 DEF DependsOn
<1> HIDE DEF needs
<1>8. list = [i \in 1..Len(needs) |-> Renamed(ask, m, needs[i])]
  <2>1. Len([i \in 1..Len(needs) |-> Id(m, needs[i])]) = Len(needs)
    BY <1>6
  <2>2. \A i \in 1..Len(needs) : Id(m, needs[i])[2] = needs[i][1]
    BY DEF Id
  <2> QED BY <1>5, <1>7, <2>1, <2>2 DEF Shared, Renamed
<1>9. Elements(list) = {Renamed(ask, m, needs[i]) : i \in 1..Len(needs)}
  <2>1. Len(list) = Len(needs) /\ \A i \in 1..Len(needs) : list[i] = Renamed(ask, m, needs[i])
    BY <1>6, <1>8
  <2> HIDE DEF list
  <2> QED BY <2>1 DEF Elements
<1>10. Elements(list) = {Renamed(ask, m, need) : need \in Elements(needs)}
  BY <1>9 DEF Elements
<1> QED BY <1>5, <1>10 DEF Needed, needs

\* What is due, under the ids of the plan.
LEMMA DueIsPlanned ==
    ASSUME NEW ask \in Asks, Answered(ask), graph = PlanOf(ask), NEW m \in Planned(ask),
           ask.layers # {}, ask.mission[m].selected # None
    PROVE  LET of == ask.mission[m]
               pieces == {id \in Jobs : id[1] = m /\ id[2] \notin CandidateStages \cup Aside}
               chosen == {<<m, "deli_generate", of.selected>>, <<m, "lot_assemble", of.selected>>}
           IN  pieces \cup chosen \cup (IF Shares(ask) THEN {Skins} ELSE {})
                  = {Renamed(ask, m, job) : job \in Due(ask.layers, of)}
<1> DEFINE of == ask.mission[m]
           pieces == {id \in Jobs : id[1] = m /\ id[2] \notin CandidateStages \cup Aside}
           chosen == {<<m, "deli_generate", of.selected>>, <<m, "lot_assemble", of.selected>>}
           skins == IF Shares(ask) THEN {Skins} ELSE {}
           due == Due(ask.layers, of)
<1>1. Jobs = MissionJobs(ask) \cup skins
  BY DEF Jobs, PlanOf
<1>2. of \in MissionAsk
  BY MissionOf
<1>3. chosen \subseteq {Renamed(ask, m, job) : job \in due}
  <2>1. <<"deli_generate", of.selected>> \in due /\ <<"lot_assemble", of.selected>> \in due
    BY DEF Due
  <2>2. /\ Renamed(ask, m, <<"deli_generate", of.selected>>) = <<m, "deli_generate", of.selected>>
        /\ Renamed(ask, m, <<"lot_assemble", of.selected>>) = <<m, "lot_assemble", of.selected>>
    BY DEF Renamed, Id
  <2> HIDE DEF due
  <2> QED BY <2>1, <2>2
<1>4. skins \subseteq {Renamed(ask, m, job) : job \in due}
  <2> SUFFICES ASSUME Shares(ask) PROVE Skins \in {Renamed(ask, m, job) : job \in due}
    OBVIOUS
  <2>1. <<"pixelcoat_build", None>> \in due
    BY <1>2, DueCases DEF IsDue, Shares
  <2>2. Renamed(ask, m, <<"pixelcoat_build", None>>) = Skins
    BY DEF Renamed
  <2> HIDE DEF due
  <2> QED BY <2>1, <2>2
<1>5. pieces \subseteq {Renamed(ask, m, job) : job \in due}
  <2> SUFFICES ASSUME NEW id \in MissionJobs(ask), id[1] = m, id[2] \notin CandidateStages \cup Aside
               PROVE  id \in {Renamed(ask, m, job) : job \in due}
    BY <1>1, <1>4
  <2>1. PICK n \in Planned(ask) : \E job \in PlanJobs(ask.layers, ask.mission[n]) : id = Id(n, job)
    BY DEF MissionJobs
  <2>2. n = m
    BY <2>1 DEF Id
  <2>3. PICK job \in PlanJobs(ask.layers, of) : id = Id(m, job)
    BY <2>1, <2>2
  <2>4. id[2] = job[1]
    BY <2>3 DEF Id
  <2>5. job \in due
    BY <2>4 DEF Due
  <2>6. Renamed(ask, m, job) = id
    BY <2>3, <2>4 DEF Renamed, MissionJobs
  <2> HIDE DEF due
  <2> QED BY <2>5, <2>6
<1>6. ASSUME NEW job \in due PROVE Renamed(ask, m, job) \in pieces \cup chosen \cup skins
  <2>1. CASE Shares(ask) /\ job[1] = "pixelcoat_build"
    BY <2>1 DEF Renamed
  <2>2. CASE job \in {<<"deli_generate", of.selected>>, <<"lot_assemble", of.selected>>}
    <3>1. Renamed(ask, m, job) = <<m, job[1], job[2]>>
      BY <2>2 DEF Renamed, Id
    <3> QED BY <2>2, <3>1
  <2>3. CASE /\ job \in PlanJobs(ask.layers, of) /\ job[1] \notin CandidateStages \cup Aside
             /\ ~(Shares(ask) /\ job[1] = "pixelcoat_build")
    <3>1. Renamed(ask, m, job) = Id(m, job) /\ Id(m, job)[1] = m /\ Id(m, job)[2] = job[1]
      BY <2>3 DEF Renamed, Id
    <3>2. Id(m, job) \in Jobs
      BY <2>3, PlannedList DEF Jobs
    <3> QED BY <2>3, <3>1, <3>2
  <2> QED BY <2>1, <2>2, <2>3 DEF Due
<1> HIDE DEF pieces, chosen, skins, due
<1>7. pieces \cup chosen \cup skins = {Renamed(ask, m, job) : job \in due}
  BY <1>3, <1>4, <1>5, <1>6
<1> QED BY <1>7 DEF pieces, chosen, skins, due

\* What is behind a deliverable is what is due, and nothing else.
LEMMA DeliverableWaits ==
    ASSUME NEW ask \in Asks, Answered(ask), graph = PlanOf(ask), NEW m \in Planned(ask),
           ask.layers # {}, ask.mission[m].selected # None
    PROVE  Behind(Deliverable(ask, m)) \cup {Deliverable(ask, m)} = {Renamed(ask, m, job) : job \in Due(ask.layers, ask.mission[m])}
<1> DEFINE of == ask.mission[m]
           layers == ask.layers
           due == Due(layers, of)
           W == {Renamed(ask, m, job) : job \in due}
           lastJob == LastJob(layers, of)
           last == Deliverable(ask, m)
           X == {job \in due : Renamed(ask, m, job) \in Behind(last) \cup {last}}
           kept(job) == ~(Shares(ask) /\ job[1] = "pixelcoat_build")
<1>1. WellPlanned(graph)
  BY PlanWellPlanned
<1>2. of \in MissionAsk /\ ~Refused(layers, of) /\ layers \subseteq Layers
  BY MissionOf, PlanAssumption DEF Answered, AskOK
<1>3. due \subseteq PlanJobs(layers, of)
  <2>1. of.selected \in of.candidates
    BY <1>2 DEF Refused
  <2>2. /\ <<"deli_generate", of.selected>> \in PlanJobs(layers, of)
        /\ <<"lot_assemble", of.selected>> \in PlanJobs(layers, of)
    BY <2>1, JobCases DEF CandidateStages
  <2> QED BY <2>2 DEF Due
<1>4. \A job \in due : job = <<job[1], job[2]>>
  BY DEF Due, PlanJobs, Base, Optional, ArtJobs
<1>5. lastJob \in due /\ lastJob[1] # "pixelcoat_build"
  BY <1>2, LastIsDue
<1>6. last = Renamed(ask, m, lastJob)
  <2>1. Renamed(ask, m, lastJob) = Id(m, lastJob)
    BY <1>5 DEF Renamed
  <2>2. Id(m, <<"dispatch_handoff", None>>) = <<m, "dispatch_handoff", None>>
    BY DEF Id
  <2> QED BY <2>1, <2>2 DEF LastJob, Deliverable
<1>7. ASSUME NEW job \in due, kept(job)
      PROVE  /\ Renamed(ask, m, job) = Id(m, job) /\ Id(m, job) \in Jobs
             /\ Elements(graph[Id(m, job)]) = {Renamed(ask, m, need) : need \in Needed(layers, of, job[1], job[2])}
  <2>1. Renamed(ask, m, job) = Id(m, job)
    BY <1>7 DEF Renamed
  <2> QED BY <1>3, <1>7, <2>1, PlannedList DEF Jobs
<1>8. ASSUME NEW job \in due, ~kept(job)
      PROVE  Renamed(ask, m, job) = Skins /\ Skins \in Jobs /\ Elements(graph[Skins]) = {}
  <2>1. Skins \in DOMAIN PlanOf(ask) /\ PlanOf(ask)[Skins] = <<>>
    BY <1>8 DEF PlanOf
  <2> QED BY <1>8, <2>1, ElementsOfFew DEF Renamed, Jobs
<1>9. ASSUME NEW job \in due PROVE Needed(layers, of, job[1], job[2]) \subseteq due
  BY <1>2, <1>4, <1>9, DueClosed
<1> HIDE DEF due, lastJob, last, layers, kept
<1>10. W \subseteq Jobs /\ \A id \in W : Elements(graph[id]) \subseteq W
  <2> SUFFICES ASSUME NEW job \in due
               PROVE  Renamed(ask, m, job) \in Jobs /\ Elements(graph[Renamed(ask, m, job)]) \subseteq W
    OBVIOUS
  <2>1. CASE kept(job)
    BY <1>7, <1>9, <2>1
  <2>2. CASE ~kept(job)
    BY <1>8, <2>2
  <2> QED BY <2>1, <2>2
<1>11. last \in W /\ last \in Jobs
  BY <1>5, <1>6, <1>10
<1>12. Behind(last) \subseteq W
  BY <1>1, <1>10, <1>11, BehindFacts
<1>13. lastJob \in X
  BY <1>5, <1>6
<1>14. ASSUME NEW job \in X, job[1] # "pixelcoat_build"
       PROVE  Needed(layers, of, job[1], job[2]) \subseteq X
  <2>1. Elements(graph[Renamed(ask, m, job)]) = {Renamed(ask, m, need) : need \in Needed(layers, of, job[1], job[2])}
    BY <1>7, <1>14 DEF kept
  <2>2. Elements(graph[Renamed(ask, m, job)]) \subseteq Behind(last)
    BY <1>1, <1>11, <1>14, BehindFacts
  <2>3. \A need \in Needed(layers, of, job[1], job[2]) : Renamed(ask, m, need) \in Behind(last)
    BY <2>1, <2>2
  <2> QED BY <1>9, <1>14, <2>3
<1>15. due \subseteq X
  <2> HIDE DEF X
  <2>1. \A stage, which : /\ <<stage, which>> \in X /\ <<stage, which>> \in due /\ stage # "pixelcoat_build"
                          => Needed(layers, of, stage, which) \subseteq X
    <3> SUFFICES ASSUME NEW stage, NEW which, <<stage, which>> \in X, stage # "pixelcoat_build"
                 PROVE  Needed(layers, of, stage, which) \subseteq X
      OBVIOUS
    <3> DEFINE job == <<stage, which>>
    <3>1. job \in X /\ job[1] = stage /\ job[2] = which
      OBVIOUS
    <3> HIDE DEF job
    <3> QED BY <1>14, <3>1
  <2>2. layers # {}
    BY DEF layers
  <2> QED BY <1>2, <1>13, <2>1, <2>2, DueReached DEF due, lastJob
<1>16. W \subseteq Behind(last) \cup {last}
  BY <1>15
<1> QED BY <1>11, <1>12, <1>16 DEF last, due, layers

\* What a mission delivers waits for every piece planned for it and, of its candidates, for
\* the selected one alone, whatever is planned beside it.
THEOREM DeliverablesAreWhole == Spec => []DeliverableHasItAll
<1>1. PlanInv => DeliverableHasItAll
  <2> SUFFICES ASSUME PlanInv, verdict = "ordered", asked # NoAsk,
                      NEW m \in Planned(asked), asked.layers # {}, asked.mission[m].selected # None
               PROVE  LET of == asked.mission[m]
                          last == Deliverable(asked, m)
                          behind == Behind(last) \cup {last}
                          pieces == {id \in Jobs : id[1] = m /\ id[2] \notin CandidateStages \cup Aside}
                          chosen == {<<m, "deli_generate", of.selected>>, <<m, "lot_assemble", of.selected>>}
                      IN  behind = pieces \cup chosen \cup (IF Shares(asked) THEN {Skins} ELSE {})
    BY DEF DeliverableHasItAll
  <2>1. asked \in Asks /\ Answered(asked) /\ graph = PlanOf(asked)
    BY DEF PlanInv
  <2>2. PICK ask \in Asks : ask = asked
    BY <2>1
  <2>3. Answered(ask) /\ graph = PlanOf(ask) /\ m \in Planned(ask) /\ ask.layers # {} /\ ask.mission[m].selected # None
    BY <2>1, <2>2
  <2> QED BY <2>2, <2>3, DueIsPlanned, DeliverableWaits
<1> QED BY <1>1, PlanInductive, PTL

------------------------------------------------------------------------------
(* Lots, from libraries of any size.                                       *)

OneEach == \A i, j \in 1..Len(lot) : FamilyOf[lot[i]] = FamilyOf[lot[j]] => i = j
NoneAgain == \A i, j \in 1..Len(lot) : lot[i] = lot[j] => i = j

LotType ==
    /\ brief \in Briefs
    /\ lot \in Seq(Entries)
    /\ wanted \in BOOLEAN
    /\ next \in Nat \ {0}
    /\ at \in {"begin", "refused", "anchor", "preferred", "families", "spare", "holes", "done"}

\* What the draw keeps: a family comes twice only when all have come, a building only when
\* all have, and until the spares no family that is left has.
DrawInv ==
    /\ at \in {"begin", "refused", "anchor"} => lot = <<>>
    /\ at = "anchor" => Places > 0
    /\ at \in {"anchor", "preferred", "families"} => pool = Families(Entries) \ Families(Of(lot)) /\ OneEach
    /\ at \in {"preferred", "families", "spare"} => Len(lot) <= Places
    /\ at = "spare" => Len(lot) = Places \/ Families(Of(lot)) = Families(Entries)
    /\ at = "holes" \/ (at = "done" /\ lot # <<>>) => Len(lot) = Places
    /\ Families(Of(lot)) = Families(Entries) \/ OneEach
    /\ Of(lot) = Entries \/ NoneAgain
    /\ at \notin {"begin", "refused", "done"} \/ lot # <<>> =>
          (Themed(brief) => Places <= Cardinality(Families(Entries)))
    /\ at \notin {"begin", "refused", "anchor", "done"} \/ lot # <<>> =>
          (brief.anchors \cap Families(Entries) # {} => lot # <<>> /\ FamilyOf[lot[1]] \in brief.anchors)

\* What the rule for holes keeps: what is still to be visited is as it was drawn, and what
\* was visited cannot be any better.
HoleInv ==
    /\ at = "holes" \/ (at = "done" /\ lot # <<>>) =>
          /\ Len(drawn) = Len(lot)
          /\ \A i \in 1..Len(lot) : FamilyOf[lot[i]] = FamilyOf[drawn[i]]
    /\ at = "holes" =>
          /\ \A i \in 1..Len(lot) : next <= i => lot[i] = drawn[i]
          /\ wanted => Of(lot) \cap brief.holed = {} /\ \A i \in 1..Len(lot) : lot[i] = drawn[i]
          /\ \A i \in 1..Len(lot) : i < next /\ (lot[i] \in brief.holed \/ wanted) => Alternatives(i) = {}
    /\ HolesAsWanted

LotInv == LotType /\ DrawInv /\ HoleInv

LEMMA EntriesFinite ==
    ASSUME brief \in Briefs
    PROVE  /\ IsFiniteSet(Entries) /\ Places \in Nat
           /\ IsFiniteSet(Families(Entries))
           /\ Cardinality(Entries) \in Nat /\ Cardinality(Families(Entries)) \in Nat
<1>1. BriefOK(brief)
  BY BriefsAssumption
<1>2. IsFiniteSet(Entries) /\ Places \in Nat
  BY <1>1, FS_Subset DEF BriefOK, Entries, Narrowed, Places
<1> DEFINE f == [row \in Entries |-> FamilyOf[row]]
<1>3. f \in Surjection(Entries, Families(Entries))
  BY DEF Surjection, Families
<1>4. IsFiniteSet(Families(Entries))
  BY <1>2, <1>3, FS_Surjection
<1> QED BY <1>2, <1>4, FS_CardinalityType

\* What there is, once a building more is drawn.
LEMMA Drawn ==
    ASSUME LotType, NEW row \in Entries, Draw(row), Entries' = Entries
    PROVE  /\ lot' \in Seq(Entries) /\ Len(lot') = Len(lot) + 1 /\ lot' # <<>>
           /\ \A i \in 1..Len(lot) : lot'[i] = lot[i]
           /\ lot'[Len(lot')] = row
           /\ \A i \in 1..Len(lot') : i \in 1..Len(lot) \/ i = Len(lot')
           /\ Of(lot)' = Of(lot) \cup {row}
           /\ Families(Of(lot))' = Families(Of(lot)) \cup {FamilyOf[row]}
<1>1. lot \in Seq(Entries) /\ lot' = Append(lot, row) /\ Len(lot) \in Nat
  BY DEF LotType, Draw
<1>2. /\ lot' \in Seq(Entries) /\ Len(lot') = Len(lot) + 1 /\ lot' # <<>>
      /\ \A i \in 1..Len(lot) : lot'[i] = lot[i]
      /\ lot'[Len(lot')] = row
  BY <1>1
<1>3. \A i \in 1..Len(lot') : i \in 1..Len(lot) \/ i = Len(lot')
  BY <1>1, <1>2
<1>4. 1..Len(lot') = 1..Len(lot) \cup {Len(lot')}
  BY <1>1, <1>2
<1>5. Of(lot)' = Of(lot) \cup {row}
  BY <1>2, <1>4 DEF Of
<1>6. Families(Of(lot))' = Families(Of(lot)) \cup {FamilyOf[row]}
  BY <1>5 DEF Families
<1> QED BY <1>2, <1>3, <1>5, <1>6

\* The buildings drawn are the library's.
LEMMA LotOfEntries ==
    ASSUME LotType
    PROVE  /\ Of(lot) \subseteq Entries /\ Families(Of(lot)) \subseteq Families(Entries)
           /\ \A i \in 1..Len(lot) : lot[i] \in Entries /\ lot[i] \in Of(lot)
                                     /\ FamilyOf[lot[i]] \in Families(Of(lot))
BY DEF LotType, Of, Families
LEMMA LotBegins == LotInit => LotInv
<1> SUFFICES ASSUME LotInit PROVE LotInv
  OBVIOUS
<1>1. brief \in Briefs /\ lot = <<>> /\ wanted = FALSE /\ next = 1 /\ at = "begin" /\ Len(lot) = 0
  BY DEF LotInit
<1>2. LotType
  <2>1. <<>> \in Seq(Entries) /\ 1 \in Nat \ {0} /\ FALSE \in BOOLEAN
    OBVIOUS
  <2> QED BY <1>1, <2>1 DEF LotType
<1>3. OneEach /\ NoneAgain
  BY <1>1 DEF OneEach, NoneAgain
<1> QED BY <1>1, <1>2, <1>3 DEF LotInv, DrawInv, HoleInv, HolesAsWanted

LEMMA BeginKeepsLot ==
    ASSUME LotInv, Begin
    PROVE  LotInv'
<1>1. /\ at = "begin" /\ lot = <<>> /\ pool' = Families(Entries)
      /\ UNCHANGED <<brief, lot, drawn, wanted, next>>
      /\ at' \in {"done", "refused", "anchor"}
      /\ at' = "anchor" => Places # 0 /\ (Themed(brief) => ~(Cardinality(Families(Entries)) < Places))
  BY DEF Begin, LotInv, DrawInv
<1>2. /\ Entries' = Entries /\ Places' = Places /\ Themed(brief)' = Themed(brief) /\ Of(lot)' = Of(lot)
      /\ Of(lot) = {} /\ Families(Of(lot)) = {} /\ Len(lot) = 0
  BY <1>1 DEF Entries, Places, Of, Families
<1>3. OneEach' /\ NoneAgain'
  BY <1>1, <1>2 DEF OneEach, NoneAgain
<1>4. LotType'
  BY <1>1, <1>2 DEF LotInv, LotType
<1>5. Places \in Nat /\ Cardinality(Families(Entries)) \in Nat
  BY EntriesFinite DEF LotInv, LotType
<1>6. DrawInv'
  BY <1>1, <1>2, <1>3, <1>5 DEF DrawInv
<1> QED BY <1>1, <1>4, <1>6 DEF LotInv, HoleInv, HolesAsWanted

\* A family that has not come yet.
LEMMA FreshFamily ==
    ASSUME LotInv, at \in {"anchor", "preferred", "families"}, brief' = brief,
           NEW fam \in pool, DrawFrom(fam)
    PROVE  /\ lot' \in Seq(Entries) /\ Len(lot') = Len(lot) + 1 /\ lot' # <<>>
           /\ pool' = Families(Entries) \ Families(Of(lot))'
           /\ OneEach' /\ NoneAgain'
           /\ FamilyOf[lot'[1]] = IF lot = <<>> THEN fam ELSE FamilyOf[lot[1]]
<1>1. PICK row \in Entries : FamilyOf[row] = fam /\ Draw(row)
  BY DEF DrawFrom, Variants
<1>2. Entries' = Entries /\ LotType /\ pool' = pool \ {fam}
  BY DEF Entries, LotInv, DrawFrom
<1>3. /\ lot' \in Seq(Entries) /\ Len(lot') = Len(lot) + 1 /\ lot' # <<>>
      /\ \A i \in 1..Len(lot) : lot'[i] = lot[i]
      /\ lot'[Len(lot')] = row
      /\ \A i \in 1..Len(lot') : i \in 1..Len(lot) \/ i = Len(lot')
      /\ Families(Of(lot))' = Families(Of(lot)) \cup {fam}
  BY <1>1, <1>2, Drawn
<1>4. pool = Families(Entries) \ Families(Of(lot)) /\ OneEach
  BY DEF LotInv, DrawInv
<1>5. pool' = Families(Entries) \ Families(Of(lot))'
  BY <1>2, <1>3, <1>4
<1>6. \A i \in 1..Len(lot) : FamilyOf[lot[i]] # fam
  BY <1>2, <1>4, LotOfEntries
<1>7. OneEach'
  BY <1>1, <1>3, <1>4, <1>6 DEF OneEach
<1>8. NoneAgain'
  BY <1>7 DEF OneEach, NoneAgain
<1>9. FamilyOf[lot'[1]] = IF lot = <<>> THEN fam ELSE FamilyOf[lot[1]]
  <2>1. CASE lot = <<>>
    BY <1>1, <1>3, <2>1
  <2>2. CASE lot # <<>>
    <3>1. 1 \in 1..Len(lot)
      BY <1>2, <2>2 DEF LotType
    <3> QED BY <1>3, <2>2, <3>1
  <2> QED BY <2>1, <2>2
<1> QED BY <1>3, <1>5, <1>7, <1>8, <1>9

\* The rule for holes has nothing to say before it is asked.
LEMMA BeforeHoles ==
    ASSUME at' \notin {"holes", "done"}
    PROVE  HoleInv'
BY DEF HoleInv, HolesAsWanted

LEMMA DrawKeepsLot ==
    ASSUME LotInv, DrawAnchor \/ DrawPreferred \/ DrawFamily
    PROVE  LotInv'
<1>1. /\ at \in {"anchor", "preferred", "families"} /\ UNCHANGED <<brief, drawn, wanted>>
      /\ Entries' = Entries /\ Places' = Places /\ Themed(brief)' = Themed(brief)
      /\ next \in Nat \ {0} /\ next' \in Nat \ {0}
  BY DEF DrawAnchor, DrawPreferred, DrawFamily, Entries, Places, LotInv, LotType
<1>2. LotType /\ DrawInv /\ OneEach /\ Len(lot) \in Nat /\ Places \in Nat /\ Len(lot) <= Places
  <2>1. LotType /\ DrawInv
    BY DEF LotInv
  <2>2. Len(lot) \in Nat /\ Places \in Nat
    BY <2>1, EntriesFinite DEF LotType
  <2>3. at = "anchor" => Len(lot) = 0
    BY <2>1 DEF DrawInv
  <2> QED BY <1>1, <2>1, <2>2, <2>3 DEF DrawInv
<1>3. ASSUME NEW fam \in pool, DrawFrom(fam), at' \in {"preferred", "families"}, Len(lot) < Places,
             at = "anchor" /\ brief.anchors \cap pool # {} => fam \in brief.anchors,
             at = "anchor" => brief.anchors \cap pool # {}
      PROVE  LotInv'
  <2>1. /\ lot' \in Seq(Entries) /\ Len(lot') = Len(lot) + 1 /\ lot' # <<>>
        /\ pool' = Families(Entries) \ Families(Of(lot))'
        /\ OneEach' /\ NoneAgain'
        /\ FamilyOf[lot'[1]] = IF lot = <<>> THEN fam ELSE FamilyOf[lot[1]]
    BY <1>1, <1>3, FreshFamily
  <2>2. brief.anchors \cap Families(Entries) # {} => FamilyOf[lot'[1]] \in brief.anchors
    <3>1. CASE at = "anchor"
      BY <1>2, <1>3, <2>1, <3>1 DEF DrawInv
    <3>2. CASE at # "anchor"
      BY <1>1, <1>2, <2>1, <3>2 DEF DrawInv
    <3> QED BY <3>1, <3>2
  <2>3. LotType'
    BY <1>1, <1>2, <1>3, <2>1 DEF LotType
  <2>4. Themed(brief) => Places <= Cardinality(Families(Entries))
    BY <1>1, <1>2 DEF DrawInv
  <2>5. DrawInv'
    BY <1>1, <1>2, <1>3, <2>1, <2>2, <2>4 DEF DrawInv
  <2>6. HoleInv'
    BY <1>3, BeforeHoles
  <2> QED BY <2>3, <2>5, <2>6 DEF LotInv
<1>4. ASSUME UNCHANGED <<pool, lot>>, at' \in {"preferred", "families", "spare"},
             at = "anchor" => brief.anchors \cap pool = {},
             at' = "spare" => Len(lot) >= Places \/ pool = {}
      PROVE  LotInv'
  <2>1. /\ Of(lot)' = Of(lot) /\ (OneEach <=> OneEach') /\ (NoneAgain <=> NoneAgain')
        /\ Families(Of(lot))' = Families(Of(lot))
    BY <1>4 DEF OneEach, NoneAgain
  <2>2. at = "anchor" => brief.anchors \cap Families(Entries) = {}
    <3>1. at = "anchor" => Families(Of(lot)) = {}
      BY <1>2 DEF DrawInv, Of, Families
    <3> QED BY <1>2, <1>4, <3>1 DEF DrawInv
  <2>3. pool = Families(Entries) \ Families(Of(lot)) /\ Families(Of(lot)) \subseteq Families(Entries)
    <3>1. pool = Families(Entries) \ Families(Of(lot))
      BY <1>1, <1>2 DEF DrawInv
    <3>2. Families(Of(lot)) \subseteq Families(Entries)
      BY <1>2, LotOfEntries
    <3> QED BY <3>1, <3>2
  <2>4. at' = "spare" => Len(lot) = Places \/ Families(Of(lot)) = Families(Entries)
    <3>1. Len(lot) >= Places => Len(lot) = Places
      BY <1>2
    <3>2. pool = {} => Families(Of(lot)) = Families(Entries)
      BY <2>3
    <3> QED BY <1>4, <3>1, <3>2
  <2>5. LotType'
    BY <1>1, <1>2, <1>4 DEF LotType
  <2>6. DrawInv'
    BY <1>1, <1>2, <1>4, <2>1, <2>2, <2>3, <2>4 DEF DrawInv
  <2>7. HoleInv'
    BY <1>4, BeforeHoles
  <2> QED BY <2>5, <2>6, <2>7 DEF LotInv
<1>5. CASE DrawAnchor
  <2>1. at = "anchor" /\ at' = "preferred" /\ Len(lot) < Places
    BY <1>2, <1>5 DEF DrawAnchor, DrawInv
  <2>2. CASE brief.anchors \cap pool = {}
    BY <1>4, <1>5, <2>1, <2>2 DEF DrawAnchor
  <2>3. CASE brief.anchors \cap pool # {}
    BY <1>3, <1>5, <2>1, <2>3 DEF DrawAnchor
  <2> QED BY <2>2, <2>3
<1>6. CASE DrawPreferred
  <2>1. at = "preferred"
    BY <1>6 DEF DrawPreferred
  <2>2. CASE next <= Len(brief.preferred) /\ Len(lot) < Places /\ brief.preferred[next] \in pool
    BY <1>3, <1>6, <2>1, <2>2 DEF DrawPreferred
  <2>3. CASE next <= Len(brief.preferred) /\ Len(lot) < Places /\ brief.preferred[next] \notin pool
    BY <1>4, <1>6, <2>1, <2>3 DEF DrawPreferred
  <2>4. CASE ~(next <= Len(brief.preferred) /\ Len(lot) < Places)
    BY <1>4, <1>6, <2>1, <2>4 DEF DrawPreferred
  <2> QED BY <2>2, <2>3, <2>4
<1>7. CASE DrawFamily
  <2>1. at = "families"
    BY <1>7 DEF DrawFamily
  <2>2. CASE Len(lot) < Places /\ pool # {}
    BY <1>3, <1>7, <2>1, <2>2 DEF DrawFamily
  <2>3. CASE ~(Len(lot) < Places /\ pool # {})
    BY <1>2, <1>4, <1>7, <2>1, <2>3 DEF DrawFamily
  <2> QED BY <2>2, <2>3
<1> QED BY <1>5, <1>6, <1>7
\* A spare is of no family that is left, and placed again only when there is no other.
LEMMA SpareKeeps ==
    ASSUME LotInv, DrawSpare
    PROVE  LotInv'
<1>1. /\ at = "spare" /\ UNCHANGED <<brief, pool>>
      /\ Entries' = Entries /\ Places' = Places /\ Themed(brief)' = Themed(brief)
      /\ LotType /\ DrawInv
  BY DEF DrawSpare, Entries, Places, LotInv
<1>2. Len(lot) \in Nat /\ Places \in Nat /\ Len(lot) <= Places
  BY <1>1, EntriesFinite DEF LotType, DrawInv
<1>3. CASE Len(lot) < Places
  <2>1. PICK row : row \in (IF Spare # {} THEN Spare ELSE Entries) /\ Draw(row) /\ UNCHANGED <<at, drawn, wanted, next>>
    BY <1>1, <1>3 DEF DrawSpare
  <2>2. row \in Entries
    BY <2>1 DEF Spare
  <2>3. /\ lot' \in Seq(Entries) /\ Len(lot') = Len(lot) + 1 /\ lot' # <<>>
        /\ \A i \in 1..Len(lot) : lot'[i] = lot[i]
        /\ lot'[Len(lot')] = row
        /\ \A i \in 1..Len(lot') : i \in 1..Len(lot) \/ i = Len(lot')
        /\ Of(lot)' = Of(lot) \cup {row}
        /\ Families(Of(lot))' = Families(Of(lot)) \cup {FamilyOf[row]}
    BY <1>1, <2>1, <2>2, Drawn
  <2>4. Families(Of(lot)) = Families(Entries)
    BY <1>1, <1>2, <1>3 DEF DrawInv
  <2>5. Families(Of(lot))' = Families(Entries)
    BY <2>2, <2>3, <2>4 DEF Families
  <2>6. Of(lot)' = Entries \/ NoneAgain'
    <3>1. CASE Spare # {}
      <4>1. NoneAgain /\ row \notin Of(lot)
        BY <1>1, <2>1, <3>1 DEF Spare, DrawInv
      <4>2. \A i \in 1..Len(lot) : lot[i] # row
        BY <1>1, <4>1, LotOfEntries
      <4> QED BY <2>3, <4>1, <4>2 DEF NoneAgain
    <3>2. CASE Spare = {}
      <4>1. Of(lot) = Entries
        BY <1>1, <3>2, LotOfEntries DEF Spare
      <4> QED BY <2>2, <2>3, <4>1
    <3> QED BY <3>1, <3>2
  <2>7. brief.anchors \cap Families(Entries) # {} => FamilyOf[lot'[1]] \in brief.anchors
    <3>1. SUFFICES ASSUME brief.anchors \cap Families(Entries) # {} PROVE FamilyOf[lot'[1]] \in brief.anchors
      OBVIOUS
    <3>2. lot # <<>> /\ FamilyOf[lot[1]] \in brief.anchors
      BY <1>1, <3>1 DEF DrawInv
    <3>3. 1 \in 1..Len(lot)
      BY <1>1, <3>2 DEF LotType
    <3> QED BY <2>3, <3>2, <3>3
  <2>8. at' = "spare" /\ Len(lot') <= Places
    BY <1>1, <1>2, <1>3, <2>1, <2>3
  <2>9. LotType'
    BY <1>1, <2>1, <2>3 DEF LotType
  <2>10. DrawInv'
    BY <1>1, <2>3, <2>5, <2>6, <2>7, <2>8 DEF DrawInv
  <2> QED BY <2>8, <2>9, <2>10, BeforeHoles DEF LotInv
<1>4. CASE ~(Len(lot) < Places)
  <2>1. /\ wanted' \in BOOLEAN /\ drawn' = lot /\ next' = 1 /\ lot' = lot
        /\ at' = IF wanted' /\ Of(lot) \cap brief.holed # {} THEN "done" ELSE "holes"
    BY <1>1, <1>4 DEF DrawSpare
  <2>2. /\ Len(lot) = Places /\ Of(lot)' = Of(lot) /\ Families(Of(lot))' = Families(Of(lot))
        /\ (OneEach <=> OneEach') /\ (NoneAgain <=> NoneAgain')
    BY <1>2, <1>4, <2>1 DEF OneEach, NoneAgain
  <2>3. LotType'
    BY <1>1, <2>1 DEF LotType
  <2>4. at' \in {"holes", "done"} /\ DrawInv'
    BY <1>1, <2>1, <2>2 DEF DrawInv
  <2>5. HoleInv'
    <3>1. \A i \in 1..Len(lot) : lot[i] \in Of(lot)
      BY <1>1, LotOfEntries
    <3>2. \A i \in 1..Len(lot) : ~(i < 1)
      OBVIOUS
    <3> QED BY <1>1, <2>1, <2>4, <3>1, <3>2 DEF HoleInv, HolesAsWanted
  <2> QED BY <2>3, <2>4, <2>5 DEF LotInv
<1> QED BY <1>3, <1>4
\* A lot of as many places with the same families in them, none of its buildings new to it
\* unless it had none twice.
LEMMA SameFamilies ==
    ASSUME LotInv, at = "holes", at' \in {"holes", "done"}, brief' = brief, lot' \in Seq(Entries), Len(lot') = Len(lot),
           \A i \in 1..Len(lot) : FamilyOf[lot'[i]] = FamilyOf[lot[i]],
           NoneAgain' \/ (lot' = lot)
    PROVE  DrawInv'
<1>1. /\ Entries' = Entries /\ Places' = Places /\ Themed(brief)' = Themed(brief)
      /\ LotType /\ DrawInv /\ Len(lot) = Places /\ Len(lot) \in Nat
  BY DEF Entries, Places, LotInv, LotType, DrawInv
<1>2. Families(Of(lot))' = Families(Of(lot))
  <2>1. Families(Of(lot)) = {FamilyOf[lot[i]] : i \in 1..Len(lot)}
    BY DEF Families, Of
  <2>2. Families(Of(lot))' = {FamilyOf[lot'[i]] : i \in 1..Len(lot')}
    BY DEF Families, Of
  <2>3. {FamilyOf[lot'[i]] : i \in 1..Len(lot')} = {FamilyOf[lot[i]] : i \in 1..Len(lot)}
    OBVIOUS
  <2> QED BY <2>1, <2>2, <2>3
<1>3. OneEach <=> OneEach'
  BY DEF OneEach
<1>4. (Of(lot) = Entries \/ NoneAgain) => (Of(lot)' = Entries \/ NoneAgain')
  BY DEF Of, NoneAgain
<1>5. lot' # <<>> => lot # <<>> /\ 1 \in 1..Len(lot)
  BY <1>1
<1>6. lot # <<>> => lot' # <<>> /\ 1 \in 1..Len(lot)
  <2>1. lot # <<>> => Len(lot) # 0
    BY <1>1 DEF LotType
  <2> QED BY <1>1, <2>1
<1>7. Themed(brief) => Places <= Cardinality(Families(Entries))
  BY <1>1 DEF DrawInv
<1>8. brief.anchors \cap Families(Entries) # {} => lot' # <<>> /\ FamilyOf[lot'[1]] \in brief.anchors
  <2>1. brief.anchors \cap Families(Entries) # {} => lot # <<>> /\ FamilyOf[lot[1]] \in brief.anchors
    BY <1>1 DEF DrawInv
  <2>2. lot # <<>> => FamilyOf[lot'[1]] = FamilyOf[lot[1]]
    <3>1. lot # <<>> => 1 \in 1..Len(lot)
      BY <1>6
    <3> QED BY <3>1
  <2> QED BY <1>6, <2>1, <2>2
<1> QED BY <1>1, <1>2, <1>3, <1>4, <1>7, <1>8 DEF DrawInv

LEMMA SwapKeeps ==
    ASSUME LotInv, Swap
    PROVE  LotInv'
<1>1. /\ at = "holes" /\ UNCHANGED <<brief, pool, drawn, wanted>>
      /\ Entries' = Entries /\ Places' = Places
      /\ LotType /\ DrawInv /\ HoleInv
      /\ lot \in Seq(Entries) /\ Len(lot) \in Nat /\ next \in Nat \ {0} /\ wanted \in BOOLEAN
  BY DEF Swap, Entries, Places, LotInv, LotType
<1>2. /\ Len(drawn) = Len(lot)
      /\ \A i \in 1..Len(lot) : FamilyOf[lot[i]] = FamilyOf[drawn[i]]
      /\ \A i \in 1..Len(lot) : next <= i => lot[i] = drawn[i]
      /\ wanted => Of(lot) \cap brief.holed = {} /\ \A i \in 1..Len(lot) : lot[i] = drawn[i]
      /\ \A i \in 1..Len(lot) : i < next /\ (lot[i] \in brief.holed \/ wanted) => Alternatives(i) = {}
  BY <1>1 DEF HoleInv
<1>3. \A i \in 1..Len(lot) : lot[i] \in Of(lot)
  BY <1>1, LotOfEntries
<1>4. lot' = lot => \A i \in 1..Len(lot) : Alternatives(i)' = Alternatives(i)
  BY <1>1 DEF Alternatives, Of
<1>5. CASE next > Len(lot)
  <2>1. at' = "done" /\ UNCHANGED <<lot, next>>
    BY <1>5 DEF Swap
  <2>2. \A i \in 1..Len(lot) : i < next
    BY <1>1, <1>5
  <2>3. DrawInv'
    BY <1>1, <2>1, SameFamilies
  <2>4. HolesAsWanted'
    BY <1>1, <1>2, <1>4, <2>1, <2>2 DEF HolesAsWanted
  <2>5. HoleInv'
    BY <1>1, <1>2, <2>1, <2>4 DEF HoleInv
  <2> QED BY <1>1, <2>1, <2>3, <2>5 DEF LotInv, LotType
<1>6. CASE next <= Len(lot) /\ ((drawn[next] \in brief.holed) = wanted \/ Alternatives(next) = {})
  <2>1. UNCHANGED <<lot, at>> /\ next' = next + 1
    BY <1>1, <1>6 DEF Swap
  <2>2. next \in 1..Len(lot) /\ lot[next] = drawn[next]
    BY <1>1, <1>2, <1>6
  <2>3. lot[next] \in brief.holed \/ wanted => Alternatives(next) = {}
    <3>1. wanted => lot[next] \notin brief.holed
      BY <1>2, <1>3, <2>2
    <3> QED BY <1>1, <1>6, <2>2, <3>1
  <2>4. \A i \in 1..Len(lot) : i < next' => i < next \/ i = next
    BY <1>1, <2>1
  <2>5. \A i \in 1..Len(lot) : i < next' /\ (lot[i] \in brief.holed \/ wanted) => Alternatives(i) = {}
    BY <1>2, <2>3, <2>4
  <2>6. \A i \in 1..Len(lot) : next' <= i => next <= i
    BY <1>1, <2>1
  <2>7. HoleInv'
    <3>1. \A i \in 1..Len(lot) : i < next' /\ (lot[i] \in brief.holed \/ wanted) => Alternatives(i)' = {}
      BY <1>4, <2>1, <2>5
    <3>2. Of(lot)' = Of(lot)
      BY <2>1
    <3> QED BY <1>1, <1>2, <2>1, <2>6, <3>1, <3>2 DEF HoleInv, HolesAsWanted
  <2>8. next' \in Nat \ {0}
    BY <1>1, <2>1
  <2>9. DrawInv'
    BY <1>1, <2>1, SameFamilies
  <2> QED BY <1>1, <2>1, <2>7, <2>8, <2>9 DEF LotInv, LotType
<1>7. CASE next <= Len(lot) /\ (drawn[next] \in brief.holed) # wanted /\ Alternatives(next) # {}
  <2>1. PICK row \in Alternatives(next) : lot' = [lot EXCEPT ![next] = row]
    BY <1>1, <1>7 DEF Swap
  <2>2. at' = (IF wanted THEN "done" ELSE "holes") /\ next' = next + 1
    BY <1>1, <1>7 DEF Swap
  <2>3. next \in 1..Len(lot) /\ lot[next] = drawn[next]
    BY <1>1, <1>2, <1>7
  <2>4. row \in Entries /\ row \notin Of(lot) /\ FamilyOf[row] = FamilyOf[lot[next]] /\ (row \in brief.holed) = wanted
    BY <2>1 DEF Alternatives, Variants
  <2>5. /\ lot' \in Seq(Entries) /\ Len(lot') = Len(lot) /\ lot'[next] = row
        /\ \A i \in 1..Len(lot) : i # next => lot'[i] = lot[i]
    BY <1>1, <2>1, <2>3, <2>4
  <2>6. \A i \in 1..Len(lot) : FamilyOf[lot'[i]] = FamilyOf[lot[i]]
    BY <2>4, <2>5
  <2>7. NoneAgain'
    <3>1. NoneAgain
      BY <1>1, <2>4 DEF DrawInv
    <3>2. \A i \in 1..Len(lot) : lot[i] # row
      BY <1>3, <2>4
    <3> QED BY <2>5, <3>1, <3>2 DEF NoneAgain
  <2>8. DrawInv'
    BY <1>1, <2>2, <2>5, <2>6, <2>7, SameFamilies
  <2>9. CASE wanted
    <3>1. row \in Of(lot)' /\ row \in brief.holed
      BY <2>3, <2>4, <2>5, <2>9 DEF Of
    <3>2. HolesAsWanted'
      BY <1>1, <1>2, <2>5, <2>6, <2>9, <3>1 DEF HolesAsWanted
    <3>3. HoleInv'
      BY <1>1, <1>2, <2>2, <2>5, <2>6, <2>9, <3>2 DEF HoleInv
    <3>4. next' \in Nat \ {0}
      BY <1>1, <2>2
    <3> QED BY <1>1, <2>2, <2>5, <2>8, <2>9, <3>3, <3>4 DEF LotInv, LotType
  <2>10. CASE ~wanted
    <3>1. lot[next] \in brief.holed /\ row \notin brief.holed
      BY <1>1, <1>7, <2>3, <2>4, <2>10
    <3>2. ASSUME NEW i \in 1..Len(lot), i < next', lot'[i] \in brief.holed
          PROVE  Alternatives(i)' = {}
      <4>1. i # next /\ i < next /\ lot'[i] = lot[i]
        BY <1>1, <2>2, <2>5, <3>1, <3>2
      <4>2. Alternatives(i) = {}
        BY <1>2, <3>2, <4>1
      <4>3. \A other : other \in Of(lot) => other \in Of(lot)' \/ other \in brief.holed
        BY <2>5, <3>1 DEF Of
      <4> QED BY <1>1, <2>10, <4>1, <4>2, <4>3 DEF Alternatives
    <3>3. \A i \in 1..Len(lot) : next' <= i => lot'[i] = drawn[i]
      BY <1>1, <1>2, <2>2, <2>5
    <3>4. HoleInv'
      BY <1>1, <1>2, <2>2, <2>5, <2>6, <2>10, <3>2, <3>3 DEF HoleInv, HolesAsWanted
    <3>5. next' \in Nat \ {0}
      BY <1>1, <2>2
    <3> QED BY <1>1, <2>2, <2>5, <2>8, <2>10, <3>4, <3>5 DEF LotInv, LotType
  <2> QED BY <1>1, <2>9, <2>10
<1> QED BY <1>1, <1>5, <1>6, <1>7

LEMMA LotAlways == LotSpec => []LotInv
<1>1. LotInv /\ UNCHANGED lotVars => LotInv'
  <2> SUFFICES ASSUME LotInv, UNCHANGED lotVars PROVE LotInv'
    OBVIOUS
  <2>1. UNCHANGED <<brief, pool, lot, drawn, wanted, next, at>>
    BY DEF lotVars
  <2> QED BY <2>1 DEF LotInv, LotType, DrawInv, HoleInv, HolesAsWanted, OneEach, NoneAgain, Entries, Places, Alternatives
<1>2. LotInv /\ [LotNext]_lotVars => LotInv'
  BY <1>1, BeginKeepsLot, DrawKeepsLot, SpareKeeps, SwapKeeps DEF LotNext
<1> QED BY <1>2, LotBegins, PTL DEF LotSpec

\* A lot is as varied as its library allows, for any library, brief and number of places,
\* and whatever the stream of the candidate draws (pick_lot, require_themed_shells).
THEOREM LotsAreVaried == LotSpec => []AsVariedAsCanBe
<1>1. LotInv => AsVariedAsCanBe
  <2> SUFFICES ASSUME LotInv, at = "done", lot # <<>> PROVE AsVariedAsCanBe
    BY DEF AsVariedAsCanBe
  <2> DEFINE sorts == [i \in 1..Len(lot) |-> FamilyOf[lot[i]]]
  <2>1. LotType /\ DrawInv /\ Len(lot) = Places /\ lot \in Seq(Entries)
    BY DEF LotInv, DrawInv, LotType
  <2>2. /\ IsFiniteSet(Entries) /\ IsFiniteSet(Families(Entries)) /\ Places \in Nat
        /\ Cardinality(Entries) \in Nat /\ Cardinality(Families(Entries)) \in Nat
    BY <2>1, EntriesFinite DEF LotType
  <2>3. /\ sorts \in Seq(Families(Entries)) /\ Len(sorts) = Places
        /\ Elements(sorts) = Families(Of(lot)) /\ Elements(lot) = Of(lot)
    <3>1. \A i \in 1..Len(lot) : FamilyOf[lot[i]] \in Families(Entries)
      BY <2>1 DEF Families
    <3>2. sorts \in Seq(Families(Entries)) /\ Len(sorts) = Places
      BY <2>1, <3>1
    <3> QED BY <2>1, <3>2 DEF Elements, Families, Of
  <2>4. /\ Cardinality(Of(lot)) <= Places
        /\ NoneAgain => Cardinality(Of(lot)) = Places
    BY <2>1, <2>3, ElementsFinite DEF NoneAgain
  <2>5. /\ Cardinality(Families(Of(lot))) <= Places
        /\ OneEach => Cardinality(Families(Of(lot))) = Places
    <3>1. OneEach => \A i, k \in 1..Len(sorts) : sorts[i] = sorts[k] => i = k
      BY <2>1, <2>3 DEF OneEach
    <3> HIDE DEF sorts
    <3> QED BY <2>3, <3>1, ElementsFinite
  <2>6. /\ Of(lot) \subseteq Entries /\ Families(Of(lot)) \subseteq Families(Entries)
        /\ Cardinality(Of(lot)) <= Cardinality(Entries)
        /\ Cardinality(Families(Of(lot))) <= Cardinality(Families(Entries))
    BY <2>1, <2>2, LotOfEntries, FS_Subset
  <2>7. Cardinality(Of(lot)) = Least(Places, Cardinality(Entries))
    BY <2>1, <2>2, <2>4, <2>6 DEF DrawInv, Least
  <2>8. Cardinality(Families(Of(lot))) = Least(Places, Cardinality(Families(Entries)))
    BY <2>1, <2>2, <2>5, <2>6 DEF DrawInv, Least
  <2>9. Themed(brief) => Cardinality(Families(Of(lot))) = Places
    BY <2>1, <2>2, <2>8 DEF DrawInv, Least
  <2>10. brief.anchors \cap Families(Entries) # {} => FamilyOf[lot[1]] \in brief.anchors
    BY <2>1 DEF DrawInv
  <2> QED BY <2>1, <2>7, <2>8, <2>9, <2>10 DEF AsVariedAsCanBe
<1> QED BY <1>1, LotAlways, PTL

\* Whatever was drawn, the rule for holes moves no family and leaves no hole it could have
\* filled, nor a level without the one it was to have (apply_hole_rule).
THEOREM HolesAreAsWanted == LotSpec => []HolesAsWanted
<1>1. LotInv => HolesAsWanted
  BY DEF LotInv, HoleInv
<1> QED BY <1>1, LotAlways, PTL
==============================================================================
