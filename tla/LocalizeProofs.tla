--------------------------- MODULE LocalizeProofs ---------------------------
(***************************************************************************)
(* What Localize promises, for any package, any files outside it and any   *)
(* scripts of the tools, whatever order the passes visit the files in.     *)
(***************************************************************************)
EXTENDS Localize, TLAPS, FiniteSetTheorems, WellFoundedInduction

-----------------------------------------------------------------------------
(* Numbers and sweeps.                                                     *)

\* A non-empty set of numbers has a least one.
LEMMA LeastOf ==
    ASSUME NEW T \in SUBSET Nat, T # {}
    PROVE  \E x \in T : \A y \in T : x <= y
<1> DEFINE R == OpToRel(<, Nat)
<1>1. \E x \in T : \A y \in T : ~(<<y, x>> \in R)
  BY WFMin, NatLessThanWellFounded
<1>2. R = {ss \in Nat \X Nat : ss[1] < ss[2]}
  BY DEF OpToRel
<1> HIDE DEF R
<1>3. PICK x \in T : \A y \in T : <<y, x>> \notin R
  BY <1>1
<1>4. ASSUME NEW y \in T PROVE x <= y
  <2>1. x \in Nat /\ y \in Nat /\ <<y, x>> \in Nat \X Nat
    OBVIOUS
  <2>2. ~(y < x)
    BY <1>2, <1>3, <2>1
  <2> QED BY <2>1, <2>2
<1> QED BY <1>3, <1>4

\* A set of numbers up to n has a greatest one, and Max is it.
LEMMA MaxOf ==
    ASSUME NEW n \in Nat, NEW s \in SUBSET (1..n), s # {}
    PROVE  Max(s) \in s /\ (\A y \in s : Max(s) >= y) /\ (n \in s => Max(s) = n)
<1> DEFINE T == {m \in 0..n : \A y \in s : y <= m}
<1>1. T \in SUBSET Nat /\ n \in T
  OBVIOUS
<1>2. PICK x \in T : \A y \in T : x <= y
  BY <1>1, LeastOf
<1>3. x \in s
  <2>1. SUFFICES ASSUME x \notin s PROVE FALSE
    OBVIOUS
  <2>2. PICK y \in s : TRUE
    OBVIOUS
  <2>3. x - 1 \in T
    BY <2>1, <2>2
  <2> QED BY <1>2, <2>3
<1>4. \E m \in s : \A y \in s : m >= y
  BY <1>2, <1>3
<1>5. Max(s) \in s /\ \A y \in s : Max(s) >= y
  BY <1>4, Zenon DEF Max
<1>6. n \in s => Max(s) = n
  <2> DEFINE m == Max(s)
  <2>1. m \in s /\ \A y \in s : m >= y
    BY <1>5
  <2> HIDE DEF m
  <2>2. m \in Nat /\ m <= n
    BY <2>1
  <2>3. n \in s => m = n
    BY <2>1, <2>2
  <2> QED BY <2>3 DEF m
<1> QED BY <1>5, <1>6

\* What a sweep folds with, over any of the first n references.
IsSweep(f, n, what, name, base, seq) ==
    f = [s \in SUBSET (1..n) |->
            IF s = {} THEN base ELSE Mended(what, name, f[s \ {Max(s)}], seq[Max(s)])]

LEMMA IterIs ==
    ASSUME NEW n \in Nat, NEW what, NEW name, NEW base, NEW seq
    PROVE  \E f : IsSweep(f, n, what, name, base, seq)
<1> USE DEF IsSweep
<1> DEFINE Iter(f, k) == IsSweep(f, k, what, name, base, seq)
           Bad == {k \in Nat : ~\E f : Iter(f, k)}
<1>1. SUFFICES ASSUME Bad # {} PROVE FALSE
  OBVIOUS
<1>2. PICK k \in Bad : \A j \in Bad : k <= j
  <2>1. Bad \in SUBSET Nat
    OBVIOUS
  <2> HIDE DEF Bad
  <2> QED BY <1>1, <2>1, LeastOf
<1>3. k # 0
  <2>1. SUFFICES ASSUME k = 0 PROVE FALSE
    OBVIOUS
  <2> DEFINE h == [s \in SUBSET (1..0) |-> base]
  <2>2. \A s \in SUBSET (1..0) : s = {}
    OBVIOUS
  <2>3. Iter(h, 0)
    BY <2>2
  <2> QED BY <2>1, <2>3
<1>4. k \in Nat /\ k - 1 \in Nat /\ k - 1 \notin Bad
  <2>1. k \in Nat
    OBVIOUS
  <2> HIDE DEF Bad
  <2> QED BY <1>2, <1>3, <2>1
<1>5. PICK f : Iter(f, k - 1)
  <2>1. \E f : Iter(f, k - 1)
    <3> HIDE DEF Iter
    <3> QED BY <1>4
  <2> QED BY <2>1, Zenon
<1> DEFINE g == [s \in SUBSET (1..k) |->
                    IF k \in s THEN Mended(what, name, f[s \ {k}], seq[k]) ELSE f[s]]
<1>6. ASSUME NEW s \in SUBSET (1..k)
      PROVE g[s] = IF s = {} THEN base ELSE Mended(what, name, g[s \ {Max(s)}], seq[Max(s)])
  <2>0. \A y \in s : y \in Nat /\ y >= 1 /\ y <= k
    <3> HIDE DEF g
    <3> QED BY <1>4
  <2>1. CASE k \in s
    <3>2. Max(s) = k
      <4> HIDE DEF g, Bad, Iter
      <4> QED BY <1>4, <2>1, MaxOf
    <3>3. s \ {k} \in SUBSET (1..k) /\ k \notin s \ {k}
      OBVIOUS
    <3>4. g[s \ {k}] = f[s \ {k}]
      BY <3>3, Zenon
    <3>5. g[s] = Mended(what, name, f[s \ {k}], seq[k])
      BY <2>1, Zenon
    <3> HIDE DEF g
    <3> QED BY <2>1, <3>2, <3>4, <3>5, Zenon
  <2>2. CASE k \notin s /\ s # {}
    <3>1. Max(s) \in s
      BY <1>4, <2>2, MaxOf
    <3>2. s \in SUBSET (1..(k - 1)) /\ s \ {Max(s)} \in SUBSET (1..(k - 1))
      <4>1. \A y \in s : y \in 1..(k - 1)
        <5> HIDE DEF g
        <5> QED BY <1>4, <2>0, <2>2
      <4> QED BY <4>1, Zenon
    <3>3. f[s] = Mended(what, name, f[s \ {Max(s)}], seq[Max(s)])
      BY <1>5, <2>2, <3>2, Zenon
    <3>4. s \ {Max(s)} \in SUBSET (1..k) /\ k \notin s \ {Max(s)}
      BY <2>2
    <3>5. g[s] = f[s] /\ g[s \ {Max(s)}] = f[s \ {Max(s)}]
      BY <2>2, <3>4, Zenon
    <3> HIDE DEF g
    <3> QED BY <2>2, <3>3, <3>5, Zenon
  <2>3. CASE s = {}
    <3>1. s \in SUBSET (1..(k - 1)) /\ k \notin s
      BY <2>3
    <3>2. f[s] = base
      BY <1>5, <2>3, <3>1, Zenon
    <3>3. g[s] = f[s]
      BY <3>1, Zenon
    <3> HIDE DEF g
    <3> QED BY <2>3, <3>2, <3>3, Zenon
  <2> QED BY <2>1, <2>2, <2>3
<1>7. g = [s \in SUBSET (1..k) |->
            IF s = {} THEN base ELSE Mended(what, name, g[s \ {Max(s)}], seq[Max(s)])]
  <2>1. g = [s \in SUBSET (1..k) |-> g[s]]
    OBVIOUS
  <2> HIDE DEF g
  <2> QED BY <1>6, <2>1, Zenon
<1>8. Iter(g, k)
  <2> HIDE DEF g
  <2> QED BY <1>7, Zenon
<1> QED BY <1>2, <1>8

\* A sweep is a walk: from the work it starts with, one reference after the other.
LEMMA SweepWalks ==
    ASSUME NEW what, NEW name, NEW base, NEW seq, Len(seq) \in Nat, DOMAIN seq = 1..Len(seq)
    PROVE  \E W : /\ W[0] = base
                  /\ \A k \in 1..Len(seq) : W[k] = Mended(what, name, W[k - 1], seq[k])
                  /\ Swept(what, name, base, seq) = W[Len(seq)]
<1> DEFINE n == Len(seq)
           Iter(f) == IsSweep(f, n, what, name, base, seq)
<1> DEFINE f == CHOOSE h : Iter(h)
<1>1. Iter(f)
  <2>1. n \in Nat
    OBVIOUS
  <2>2. \E h : Iter(h)
    <3> HIDE DEF n
    <3> QED BY <2>1, IterIs
  <2> QED BY <2>2, Zenon
<1>2. Swept(what, name, base, seq) = f[1..n]
  BY Zenon DEF Swept, FoldLeft, MapThenFoldSet, IsSweep
<1> HIDE DEF f
<1>0. n \in Nat
  OBVIOUS
<1> HIDE DEF n
<1> DEFINE W == [k \in 0..n |-> f[1..k]]
<1>3. W[0] = base
  <2>1. 1..0 = {} /\ {} \in SUBSET (1..n)
    OBVIOUS
  <2>2. f[{}] = base
    BY <1>1, <2>1, Zenon DEF IsSweep
  <2>3. 0 \in 0..n
    BY <1>0
  <2>4. W[0] = f[1..0]
    BY <2>3, Zenon
  <2> HIDE DEF W
  <2> QED BY <2>1, <2>2, <2>4, Zenon
<1>4. ASSUME NEW k \in 1..n PROVE W[k] = Mended(what, name, W[k - 1], seq[k])
  <2>1. 1..k \in SUBSET (1..n) /\ 1..k # {} /\ k \in 1..k /\ k \in Nat
    <3>1. k \in Nat /\ 1 <= k /\ k <= n
      BY ONLY <1>0, k \in 1..n
    <3>2. k \in 1..k
      BY ONLY <3>1
    <3>3. \A i \in 1..k : i \in 1..n
      BY ONLY <1>0, <3>1
    <3> QED BY ONLY <3>1, <3>2, <3>3
  <2>2. Max(1..k) \in 1..k /\ Max(1..k) >= k
    BY <2>1, MaxOf
  <2>3. Max(1..k) = k
    BY <2>2
  <2>4. (1..k) \ {k} = 1..(k - 1)
    OBVIOUS
  <2>5. f[1..k] = Mended(what, name, f[(1..k) \ {k}], seq[k])
    BY <1>1, <2>1, <2>3, Zenon DEF IsSweep
  <2>6. k - 1 \in 0..n /\ k \in 0..n
    BY <1>0
  <2>7. W[k] = f[1..k] /\ W[k - 1] = f[1..(k - 1)]
    BY <2>6, Zenon
  <2> HIDE DEF W
  <2> QED BY <2>4, <2>5, <2>7, Zenon
<1>5. W[n] = f[1..n]
  <2>1. n \in 0..n
    BY <1>0
  <2> QED BY <2>1, Zenon
<1> HIDE DEF W
<1> QED
  <2> USE DEF n
  <2> QED BY <1>2, <1>3, <1>4, <1>5

\* What holds of the start and is handed on by every step holds to the end.
LEMMA Upto ==
    ASSUME NEW n \in Nat, NEW G, 0 \in G, \A k \in 1..n : k - 1 \in G => k \in G
    PROVE  \A k \in 0..n : k \in G
<1> DEFINE Bad == {k \in 0..n : k \notin G}
<1>1. SUFFICES ASSUME Bad # {} PROVE FALSE
  OBVIOUS
<1>2. Bad \in SUBSET Nat
  OBVIOUS
<1>3. PICK k \in Bad : \A j \in Bad : k <= j
  <2> HIDE DEF Bad
  <2> QED BY <1>1, <1>2, LeastOf
<1>4. k \in 1..n /\ k - 1 \in 0..n
  OBVIOUS
<1>5. k - 1 \in Bad
  BY <1>4
<1>6. ~(k <= k - 1)
  BY <1>4
<1> QED BY <1>3, <1>5, <1>6

-----------------------------------------------------------------------------
(* The shapes.                                                             *)

\* A reference or a name of its own makes a path.
LEMMA PathsAre ==
    /\ \A name \in Name : <<name>> \in Path
    /\ \A a, b \in Name : <<a, b>> \in Path
    /\ \A a \in Name, p \in Path : <<a>> \o p \in Path
    /\ \A p \in Path : /\ Len(p) \in Nat \ {0} /\ Head(p) = p[1] /\ p[1] \in Name
                       /\ Last(p) = p[Len(p)] /\ Last(p) \in Name
    /\ \A p, q \in Path : p \o q \in Path
<1>1. \A p, q \in Path : p \o q \in Path
  <2> TAKE p, q \in Path
  <2>1. p \in Seq(Name) /\ q \in Seq(Name) /\ Len(p) # 0
    BY DEF Path
  <2>2. p \o q \in Seq(Name) /\ Len(p \o q) = Len(p) + Len(q)
    BY <2>1
  <2>3. p \o q # <<>>
    BY <2>1, <2>2
  <2> QED BY <2>2, <2>3 DEF Path
<1>2. \A p \in Path : /\ Len(p) \in Nat \ {0} /\ Head(p) = p[1] /\ p[1] \in Name
                     /\ Last(p) = p[Len(p)] /\ Last(p) \in Name
  BY DEF Path, Last
<1>3. \A S : \A a, b \in S : /\ <<a>> \in Seq(S) \ {<<>>}
                             /\ <<a, b>> \in Seq(S) \ {<<>>}
  OBVIOUS
<1>4. \A name \in Name : <<name>> \in Path
  BY <1>3, Zenon DEF Path
<1>5. \A a, b \in Name : <<a, b>> \in Path
  BY <1>3, Zenon DEF Path
<1>6. \A a \in Name, p \in Path : <<a>> \o p \in Path
  BY <1>1, <1>4
<1> QED BY <1>1, <1>2, <1>4, <1>5, <1>6

\* A name before a path.
LEMMA Conses ==
    \A S : \A c \in S, q \in Seq(S) :
        Len(<<c>> \o q) = Len(q) + 1 /\ (<<c>> \o q)[1] = c /\ \A i \in 1..Len(q) : (<<c>> \o q)[i + 1] = q[i]
OBVIOUS

\* One more at the end.
LEMMA Appended ==
    ASSUME NEW S, NEW seq \in Seq(S), NEW x \in S
    PROVE  /\ Len(Append(seq, x)) = Len(seq) + 1 /\ Append(seq, x)[Len(seq) + 1] = x
           /\ \A i \in 1..Len(seq) : Append(seq, x)[i] = seq[i]
           /\ Range(Append(seq, x)) = Range(seq) \cup {x}
<1> DEFINE t == Append(seq, x)
<1>1. /\ Len(t) = Len(seq) + 1 /\ t[Len(seq) + 1] = x /\ \A i \in 1..Len(seq) : t[i] = seq[i]
      /\ DOMAIN t = 1..(Len(seq) + 1) /\ DOMAIN seq = 1..Len(seq) /\ Len(seq) \in Nat
  OBVIOUS
<1> HIDE DEF t
<1>2. Range(t) = Range(seq) \cup {x}
  <2>1. \A i \in 1..(Len(seq) + 1) : i \in 1..Len(seq) \/ i = Len(seq) + 1
    BY <1>1
  <2>2. 1..Len(seq) \subseteq 1..(Len(seq) + 1) /\ Len(seq) + 1 \in 1..(Len(seq) + 1)
    BY <1>1
  <2> QED BY <1>1, <2>1, <2>2 DEF Range
<1> QED BY <1>1, <1>2 DEF t

\* What laying one package over another gives.
LEMMA OverIs ==
    ASSUME NEW a, NEW b, IsPackage(a), IsPackage(b)
    PROVE  /\ IsPackage(Over(a, b))
           /\ DOMAIN Over(a, b) = DOMAIN a \cup DOMAIN b
           /\ \A p \in DOMAIN a : Over(a, b)[p] = a[p]
           /\ \A p \in DOMAIN b \ DOMAIN a : Over(a, b)[p] = b[p]
<1>1. IsFiniteSet(DOMAIN a \cup DOMAIN b)
  BY FS_Union DEF IsPackage
<1> QED BY <1>1 DEF Over, IsPackage

\* A package with one file more, or another.
HasPut(old, path, file, new) ==
    /\ IsPackage(new) /\ DOMAIN new = DOMAIN old \cup {path} /\ new[path] = file
    /\ \A p \in DOMAIN old \ {path} : new[p] = old[p]

LEMMA PutIs ==
    ASSUME NEW pkg, IsPackage(pkg), NEW path \in Path, NEW file \in File
    PROVE  HasPut(pkg, path, file, Put(pkg, path, file))
<1> DEFINE one == [p \in {path} |-> file]
<1>1. IsFiniteSet({path})
  BY FS_Singleton
<1>2. DOMAIN one = {path} /\ one[path] = file /\ IsPackage(one)
  BY <1>1 DEF IsPackage
<1>3. Put(pkg, path, file) = Over(one, pkg)
  BY DEF Put
<1> HIDE DEF one
<1>4. /\ IsPackage(Over(one, pkg))
      /\ DOMAIN Over(one, pkg) = DOMAIN one \cup DOMAIN pkg
      /\ \A p \in DOMAIN one : Over(one, pkg)[p] = one[p]
      /\ \A p \in DOMAIN pkg \ DOMAIN one : Over(one, pkg)[p] = pkg[p]
  BY <1>2, OverIs
<1> QED BY <1>2, <1>3, <1>4 DEF HasPut

LEMMA WithoutIs ==
    ASSUME NEW pkg, IsPackage(pkg), NEW gone
    PROVE  /\ IsPackage(Without(pkg, gone))
           /\ DOMAIN Without(pkg, gone) = DOMAIN pkg \ gone
           /\ \A p \in DOMAIN pkg \ gone : Without(pkg, gone)[p] = pkg[p]
<1>1. IsFiniteSet(DOMAIN pkg \ gone)
  BY FS_Subset DEF IsPackage
<1> QED BY <1>1 DEF Without, IsPackage

LEMMA NothingIs == IsPackage(<<>>)
<1>1. IsFiniteSet({})
  BY FS_EmptySet
<1>2. DOMAIN <<>> = {}
  OBVIOUS
<1> QED BY <1>1, <1>2 DEF IsPackage

\* A file with other references of its own.
LEMMA FileWith ==
    ASSUME NEW file \in File, NEW refs \in Seq(Ref), Scanned(file)
    PROVE  [file EXCEPT !.refs = refs] \in File
BY DEF File, Scanned, Text

-----------------------------------------------------------------------------
(* What the fixer brings into the package.                                 *)

Copies(src) == {<<"assets", Last(src)>>, <<"assets", HashedOf(given, src)>>}

\* The package is as it was but for scripts of the tools, and for copies of outside
\* files where there was nothing.
Brought(old, new) ==
    /\ DOMAIN old \subseteq DOMAIN new
    /\ \A p \in DOMAIN new :
          \/ p \in DOMAIN old /\ new[p] = old[p]
          \/ \E q \in DOMAIN given.addons : p = Runtime(q) /\ new[p] = given.addons[q]
          \/ p \notin DOMAIN old /\ \E src \in DOMAIN given.disk : p \in Copies(src) /\ new[p] = given.disk[src]

LEMMA GivenIs ==
    ASSUME given \in Inputs
    PROVE  Given(given) /\ Placed(given) /\ Distinct(given)
BY InputsAssumption

LEMMA RuntimeIs ==
    ASSUME NEW q \in Path
    PROVE  /\ Runtime(q) \in Path /\ Len(Runtime(q)) = Len(q) + 1 /\ Runtime(q)[1] = "runtime"
           /\ Tail(Runtime(q)) = q /\ Below(Runtime(q)) = Range(q) /\ Last(Runtime(q)) = Last(q)
<1>1. Runtime(q) \in Path
  BY NamesAssumption, PathsAre DEF Runtime, OfTheTop
<1>2. q \in Seq(Name) /\ Len(q) \in Nat \ {0}
  BY PathsAre DEF Path
<1> DEFINE t == <<"runtime">> \o q
<1>3. Len(t) = Len(q) + 1 /\ t[1] = "runtime" /\ \A i \in 1..Len(q) : t[i + 1] = q[i]
  <2>1. "runtime" \in Name
    BY NamesAssumption DEF OfTheTop
  <2> QED BY <1>2, <2>1, Conses
<1>4. t \in Seq(Name)
  BY <1>1 DEF Runtime, Path
<1> HIDE DEF t
<1>5. Tail(t) = q
  <2>1. Tail(t) \in Seq(Name) /\ Len(Tail(t)) = Len(q)
    BY <1>2, <1>3, <1>4
  <2>2. \A i \in 1..Len(q) : Tail(t)[i] = q[i]
    BY <1>2, <1>3, <1>4
  <2> QED BY <1>2, <2>1, <2>2
<1>6. Below(t) = Range(q)
  <2>1. ASSUME NEW x \in Below(t) PROVE x \in Range(q)
    <3>1. PICK i \in 2..Len(t) : x = t[i]
      BY DEF Below
    <3>2. i - 1 \in 1..Len(q) /\ (i - 1) + 1 = i
      BY <1>2, <1>3, <3>1
    <3>3. t[(i - 1) + 1] = q[i - 1]
      BY <1>3, <3>2
    <3>4. DOMAIN q = 1..Len(q)
      BY <1>2
    <3> QED BY <3>1, <3>2, <3>3, <3>4 DEF Range
  <2>2. ASSUME NEW x \in Range(q) PROVE x \in Below(t)
    <3>1. PICK i \in 1..Len(q) : x = q[i]
      BY <1>2 DEF Range
    <3>2. i + 1 \in 2..Len(t) /\ t[i + 1] = q[i]
      BY <1>2, <1>3, <3>1
    <3> QED BY <3>1, <3>2 DEF Below
  <2> QED BY <2>1, <2>2
<1>7. Last(t) = Last(q)
  <2>1. t[Len(q) + 1] = q[Len(q)]
    BY <1>2, <1>3
  <2> QED BY <1>3, <2>1 DEF Last
<1>8. Runtime(q) = t
  BY DEF Runtime, t
<1> QED BY <1>1, <1>3, <1>5, <1>6, <1>7, <1>8

LEMMA AssetIs ==
    ASSUME NEW name \in Name
    PROVE  LET t == <<"assets", name>> IN
           t \in Path /\ Len(t) = 2 /\ t[1] = "assets" /\ Below(t) = {name} /\ Last(t) = name
<1> DEFINE t == <<"assets", name>>
<1>1. t \in Path
  <2>1. "assets" \in Name
    BY NamesAssumption DEF OfTheTop
  <2> QED BY <2>1, PathsAre, Zenon
<1>2. Len(t) = 2 /\ t[1] = "assets" /\ t[2] = name
  <2>1. \A a, b : Len(<<a, b>>) = 2 /\ <<a, b>>[1] = a /\ <<a, b>>[2] = b
    OBVIOUS
  <2> QED BY <2>1, Zenon
<1> HIDE DEF t
<1>3. Below(t) = {t[2]}
  <2>1. 2..2 = {2}
    OBVIOUS
  <2> QED BY <1>2, <2>1 DEF Below
<1>4. Last(t) = t[2]
  BY <1>2 DEF Last
<1>5. t \in Path /\ Len(t) = 2 /\ t[1] = "assets" /\ Below(t) = {name} /\ Last(t) = name
  BY <1>1, <1>2, <1>3, <1>4
<1> QED BY <1>5 DEF t

LEMMA DiskIs ==
    ASSUME given \in Inputs, NEW src \in DOMAIN given.disk
    PROVE  /\ src \in Path /\ given.disk[src] \in File /\ Absolute(src) /\ Len(src) > 1
           /\ Last(src) \in Name /\ HashedOf(given, src) \in Name /\ Copies(src) \subseteq Path
<1>1. src \in Path /\ given.disk[src] \in File
  BY GivenIs DEF Given, IsPackage
<1>2. Absolute(src) /\ Len(src) > 1 /\ HashedOf(given, src) \in Name
  BY GivenIs DEF Given
<1>3. Last(src) \in Name
  BY <1>1, PathsAre
<1>4. Copies(src) \subseteq Path
  BY <1>2, <1>3, AssetIs DEF Copies
<1> QED BY <1>1, <1>2, <1>3, <1>4

LEMMA AddonsAre ==
    ASSUME given \in Inputs, NEW q \in DOMAIN given.addons
    PROVE  q \in Path /\ given.addons[q] \in File
BY GivenIs DEF Given, IsPackage

LEMMA CopiedIs ==
    ASSUME given \in Inputs, NEW pkg, IsPackage(pkg), NEW script \in Path
    PROVE  /\ IsPackage(Copied(pkg, script)) /\ Brought(pkg, Copied(pkg, script))
           /\ script \in DOMAIN given.addons /\ Brings(script) \cap given.unreadable = {}
                => Runtime(script) \in DOMAIN Copied(pkg, script)
<1> DEFINE those == Brings(script) \ given.unreadable
           fresh == IF script \in those THEN {q \in those : Runtime(q) \notin DOMAIN pkg} ELSE those
           there == {Runtime(q) : q \in fresh}
           copies == [p \in there |-> given.addons[Tail(p)]]
<1>1. fresh \subseteq DOMAIN given.addons
  BY DEF Brings
<1>2. IsFiniteSet(DOMAIN given.addons)
  BY GivenIs DEF Given, IsPackage
<1>3. IsFiniteSet(there)
  <2> HIDE DEF fresh
  <2> DEFINE f == [q \in fresh |-> Runtime(q)]
  <2>1. f \in Surjection(fresh, there)
    BY DEF Surjection
  <2>2. IsFiniteSet(fresh)
    BY <1>1, <1>2, FS_Subset
  <2> HIDE DEF f, there
  <2> QED BY <2>1, <2>2, FS_Surjection
<1>4. Copied(pkg, script) = Over(copies, pkg)
  BY DEF Copied
<1>5. \A p \in there : \E q \in fresh : p = Runtime(q) /\ p \in Path /\ copies[p] = given.addons[q]
                                        /\ given.addons[q] \in File
  <2> HIDE DEF fresh
  <2> TAKE p \in there
  <2>1. PICK q \in fresh : p = Runtime(q)
    OBVIOUS
  <2>2. q \in Path /\ given.addons[q] \in File
    BY <1>1, AddonsAre
  <2>3. p \in Path /\ Tail(p) = q
    BY <2>1, <2>2, RuntimeIs
  <2>4. copies[p] = given.addons[q]
    BY <2>3
  <2> QED BY <2>1, <2>2, <2>3, <2>4
<1>6. DOMAIN copies = there
  OBVIOUS
<1>7. script \in DOMAIN given.addons /\ Brings(script) \cap given.unreadable = {}
        => Runtime(script) \in DOMAIN pkg \cup there
  <2>1. IsPrefix(script, script)
    BY PathsAre DEF IsPrefix, Path
  <2>2. ASSUME script \in DOMAIN given.addons, Brings(script) \cap given.unreadable = {} PROVE script \in those
    BY <2>1, <2>2 DEF Brings
  <2> HIDE DEF those
  <2> QED BY <2>2
<1>8. IsPackage(copies)
  <2>1. copies = [p \in there |-> copies[p]]
    OBVIOUS
  <2> HIDE DEF copies, there, fresh
  <2> QED BY <1>3, <1>5, <1>6, <2>1 DEF IsPackage
<1>9. fresh \subseteq DOMAIN given.addons
  BY <1>1
<1> HIDE DEF copies, there, fresh, those
<1>10. /\ IsPackage(Over(copies, pkg))
       /\ DOMAIN Over(copies, pkg) = DOMAIN copies \cup DOMAIN pkg
       /\ \A p \in DOMAIN copies : Over(copies, pkg)[p] = copies[p]
       /\ \A p \in DOMAIN pkg \ DOMAIN copies : Over(copies, pkg)[p] = pkg[p]
  BY <1>8, OverIs
<1>11. Brought(pkg, Over(copies, pkg))
  BY <1>5, <1>6, <1>9, <1>10 DEF Brought
<1> QED BY <1>4, <1>6, <1>7, <1>10, <1>11

LEMMA PutNewIs ==
    ASSUME NEW pkg, IsPackage(pkg), NEW path \in Path, NEW file \in File
    PROVE  /\ IsPackage(PutNew(pkg, path, file)) /\ DOMAIN PutNew(pkg, path, file) = DOMAIN pkg \cup {path}
           /\ path \notin DOMAIN pkg => PutNew(pkg, path, file)[path] = file
           /\ \A p \in DOMAIN pkg : PutNew(pkg, path, file)[p] = pkg[p]
<1>1. CASE path \in DOMAIN pkg
  BY <1>1 DEF PutNew
<1>2. CASE path \notin DOMAIN pkg
  <2>1. PutNew(pkg, path, file) = Put(pkg, path, file)
    BY <1>2 DEF PutNew
  <2>2. HasPut(pkg, path, file, Put(pkg, path, file))
    BY PutIs
  <2> QED BY <1>2, <2>1, <2>2 DEF HasPut
<1> QED BY <1>1, <1>2

LEMMA BundledIs ==
    ASSUME given \in Inputs, NEW pkg, IsPackage(pkg), NEW src \in DOMAIN given.disk
    PROVE  LET target == Bundled(pkg, src)
               new == PutNew(pkg, target, given.disk[src])
           IN  /\ target \in Copies(src) /\ IsPackage(new) /\ Brought(pkg, new) /\ target \in DOMAIN new
               /\ target \in DOMAIN pkg /\ target # <<"assets", HashedOf(given, src)>> => pkg[target] = given.disk[src]
<1> DEFINE target == Bundled(pkg, src)
           new == PutNew(pkg, target, given.disk[src])
<1>1. target \in Copies(src)
  BY DEF Bundled, Copies, HashedOf
<1>2. target \in DOMAIN pkg /\ target # <<"assets", HashedOf(given, src)>> => pkg[target] = given.disk[src]
  BY DEF Bundled, HashedOf
<1>3. target \in Path /\ given.disk[src] \in File
  BY <1>1, DiskIs
<1> HIDE DEF target
<1>4. /\ IsPackage(new) /\ DOMAIN new = DOMAIN pkg \cup {target}
      /\ target \notin DOMAIN pkg => new[target] = given.disk[src]
      /\ \A p \in DOMAIN pkg : new[p] = pkg[p]
  BY <1>3, PutNewIs
<1> HIDE DEF new
<1>5. Brought(pkg, new)
  BY <1>1, <1>4 DEF Brought
<1> QED BY <1>1, <1>2, <1>4, <1>5 DEF target, new

\* Copies with a hash, and scripts, are what they are copies of.
Genuine(pkg) ==
    /\ \A src \in DOMAIN given.disk : <<"assets", HashedOf(given, src)>> \in DOMAIN pkg =>
          Same(pkg[<<"assets", HashedOf(given, src)>>], given.disk[src])
    /\ \A q \in DOMAIN given.addons : Runtime(q) \in DOMAIN pkg => Same(pkg[Runtime(q)], given.addons[q])

\* Nothing is under a drive or addons/, and no folder has a name of the top's.
InPlace(pkg) == \A p \in DOMAIN pkg : p[1] \notin Drives \cup {"addons"} /\ Below(p) \cap Reserved = {}

\* All that was there is there, and holds what it held.
Grown(old, new) == DOMAIN old \subseteq DOMAIN new /\ \A p \in DOMAIN old : Same(new[p], old[p])

\* A reference is as it was written, or of a copy that is what was meant.
Honest(pkg, r) ==
    r.kind = "res" =>
        \/ r.path = r.was
        \/ /\ r.path[1] \in {"assets", "runtime"} /\ Len(r.path) > 1
           /\ IsFile(r.was) => r.path \in DOMAIN pkg /\ pkg[r.path].is = Meant(r.was).is

HonestTexts(pkg) == \A p \in TextFiles(pkg) : \A r \in RefsOf(pkg[p]) : Honest(pkg, r)

LEMMA Pairs ==
    \A a, b, c, d : <<a, b>> = <<c, d>> => a = c /\ b = d
OBVIOUS

LEMMA CopiesAre ==
    ASSUME given \in Inputs, NEW src \in DOMAIN given.disk, NEW p \in Copies(src)
    PROVE  /\ p \in Path /\ Len(p) = 2 /\ p[1] = "assets" /\ p \in {<<"assets", Last(src)>>, <<"assets", HashedOf(given, src)>>}
           /\ Below(p) \cap Reserved = {}
<1>1. Last(src) \in Name /\ HashedOf(given, src) \in Name
  BY DiskIs
<1>2. {Last(src), HashedOf(given, src)} \cap Reserved = {}
  BY GivenIs DEF Placed
<1>3. CASE p = <<"assets", Last(src)>>
  BY <1>1, <1>2, <1>3, AssetIs
<1>4. CASE p = <<"assets", HashedOf(given, src)>>
  BY <1>1, <1>2, <1>4, AssetIs
<1> QED BY <1>3, <1>4 DEF Copies

LEMMA GenuineKept ==
    ASSUME given \in Inputs, NEW old, NEW new, IsPackage(old), IsPackage(new), Genuine(old), Brought(old, new)
    PROVE  Genuine(new) /\ Grown(old, new)
<1>1. \A q \in DOMAIN given.addons : Runtime(q)[1] = "runtime" /\ Tail(Runtime(q)) = q
  BY AddonsAre, RuntimeIs
<1>2. \A src \in DOMAIN given.disk : \A p \in Copies(src) : p[1] = "assets"
  BY CopiesAre
<1>3. \A src \in DOMAIN given.disk : <<"assets", HashedOf(given, src)>> \in Copies(src)
  BY DEF Copies
<1>4. \A src, other \in DOMAIN given.disk : <<"assets", HashedOf(given, src)>> \in Copies(other) =>
          Same(given.disk[src], given.disk[other])
  <2> TAKE src, other \in DOMAIN given.disk
  <2> HAVE <<"assets", HashedOf(given, src)>> \in Copies(other)
  <2>1. HashedOf(given, src) \in {Last(other), HashedOf(given, other)}
    BY Pairs DEF Copies
  <2> QED BY <2>1, GivenIs DEF Distinct
<1>5. ASSUME NEW src \in DOMAIN given.disk, NEW p \in DOMAIN new, p = <<"assets", HashedOf(given, src)>>
      PROVE Same(new[p], given.disk[src])
  <2>1. p[1] = "assets"
    BY <1>2, <1>3, <1>5
  <2>2. CASE p \in DOMAIN old /\ new[p] = old[p]
    BY <1>5, <2>2 DEF Genuine
  <2>3. CASE \E q \in DOMAIN given.addons : p = Runtime(q) /\ new[p] = given.addons[q]
    BY <1>1, <2>1, <2>3
  <2>4. CASE \E other \in DOMAIN given.disk : p \in Copies(other) /\ new[p] = given.disk[other]
    BY <1>4, <1>5, <2>4 DEF Same
  <2> QED BY <2>2, <2>3, <2>4 DEF Brought
<1>6. ASSUME NEW q \in DOMAIN given.addons, NEW p \in DOMAIN new, p = Runtime(q)
      PROVE Same(new[p], given.addons[q])
  <2>1. p[1] = "runtime" /\ Tail(p) = q
    BY <1>1, <1>6
  <2>2. CASE p \in DOMAIN old /\ new[p] = old[p]
    BY <1>6, <2>2 DEF Genuine
  <2>3. CASE \E other \in DOMAIN given.addons : p = Runtime(other) /\ new[p] = given.addons[other]
    BY <1>1, <2>1, <2>3 DEF Same
  <2>4. CASE \E other \in DOMAIN given.disk : p \in Copies(other) /\ new[p] = given.disk[other]
    BY <1>2, <2>1, <2>4
  <2> QED BY <2>2, <2>3, <2>4 DEF Brought
<1>7. Genuine(new)
  BY <1>5, <1>6 DEF Genuine
<1>8. ASSUME NEW p \in DOMAIN old PROVE p \in DOMAIN new /\ Same(new[p], old[p])
  <2>1. p \in DOMAIN new
    BY DEF Brought
  <2>2. CASE \E q \in DOMAIN given.addons : p = Runtime(q) /\ new[p] = given.addons[q]
    BY <2>1, <2>2 DEF Genuine, Same
  <2> QED BY <2>1, <2>2 DEF Brought, Same
<1> QED BY <1>7, <1>8 DEF Grown

LEMMA InPlaceKept ==
    ASSUME given \in Inputs, NEW old, NEW new, InPlace(old), Brought(old, new)
    PROVE  InPlace(new)
<1>1. \A q \in DOMAIN given.addons : Runtime(q)[1] = "runtime" /\ Below(Runtime(q)) \cap Reserved = {}
  BY AddonsAre, RuntimeIs, GivenIs DEF Placed
<1>2. \A src \in DOMAIN given.disk : \A p \in Copies(src) : p[1] = "assets" /\ Below(p) \cap Reserved = {}
  BY CopiesAre
<1>3. "assets" \notin Drives \cup {"addons"} /\ "runtime" \notin Drives \cup {"addons"}
  BY DrivesAssumption DEF OfTheTop
<1> QED BY <1>1, <1>2, <1>3 DEF InPlace, Brought

LEMMA HonestKept ==
    ASSUME NEW old, NEW new, Grown(old, new), NEW r, Honest(old, r)
    PROVE  Honest(new, r)
BY DEF Honest, Grown, Same

LEMMA HonestTextsKept ==
    ASSUME given \in Inputs, NEW old, NEW new, IsPackage(old), IsPackage(new),
           HonestTexts(old), Brought(old, new), Grown(old, new)
    PROVE  HonestTexts(new)
<1>1. \A file \in Files(given.disk) \cup Files(given.addons) : \A r \in RefsOf(file) : r.was = r.path
  BY GivenIs DEF Given
<1>2. SUFFICES ASSUME NEW p \in TextFiles(new), NEW r \in RefsOf(new[p]) PROVE Honest(new, r)
  BY DEF HonestTexts
<1>3. p \in DOMAIN new
  BY DEF TextFiles
<1>4. CASE p \in DOMAIN old /\ new[p] = old[p]
  BY <1>4, HonestKept DEF HonestTexts, TextFiles
<1>5. CASE new[p] \in Files(given.disk) \cup Files(given.addons)
  BY <1>1, <1>5 DEF Honest
<1> QED BY <1>3, <1>4, <1>5 DEF Brought, Files

\* The work on a text.
IsWork(w) ==
    /\ w = [package |-> w.package, refs |-> w.refs, changed |-> w.changed,
            unresolved |-> w.unresolved, failed |-> w.failed]
    /\ IsPackage(w.package) /\ w.refs \in Seq(Ref)
    /\ w.changed \in BOOLEAN /\ w.failed \in BOOLEAN /\ w.unresolved \subseteq Name \X Path

\* Nothing was done and nothing was wrong.
Quiet(w) == ~w.changed /\ ~w.failed /\ w.unresolved = {}

\* What a reference is not when a sweep over it was quiet.
Foreign(what, r) ==
    r.kind = "res" /\ ((what = "absolute" /\ SeenByFixer(r.path)) \/ (what = "addons" /\ OfAddon(r.path)))

\* A copy's path, and one that no name of the top's begins.
Aside(path) == path[1] \in {"assets", "runtime"}
Domestic(path) == path[1] \notin Reserved

\* The same reference, unless it was foreign and is of a copy now.
Stands(r, new) ==
    new.kind = r.kind /\ new.was = r.was /\ (new = r \/ (r.kind = "res" /\ ~Domestic(r.path) /\ Aside(new.path)))

\* The package is as it was but for copies.
Apart(old, new) == \A p \in DOMAIN new : Aside(p) \/ (p \in DOMAIN old /\ new[p] = old[p])

\* What one reference does to the work on its text.
Step(what, w, m, r) ==
    /\ IsWork(m) /\ Brought(w.package, m.package)
    /\ w.failed => m.failed
    /\ \/ m.refs = w.refs /\ (what = "classes" \/ m.failed)
       \/ /\ what # "classes"
          /\ \E new \in Ref : /\ m.refs = Append(w.refs, new) /\ Stands(r, new)
                              /\ Honest(w.package, r) => Honest(m.package, new)
    /\ Quiet(m) => /\ Quiet(w) /\ m.package = w.package /\ ~Foreign(what, r)
                   /\ what # "classes" => m.refs = Append(w.refs, r)

LEMMA WorkIs ==
    ASSUME NEW w, IsWork(w), NEW m, DOMAIN m = DOMAIN w, m = [x \in DOMAIN m |-> m[x]],
           IsPackage(m.package), m.refs \in Seq(Ref), m.changed \in BOOLEAN, m.failed \in BOOLEAN,
           m.unresolved \subseteq Name \X Path
    PROVE  IsWork(m)
<1>1. DOMAIN w = {"package", "refs", "changed", "unresolved", "failed"}
  BY DEF IsWork
<1>2. m = [x \in {"package", "refs", "changed", "unresolved", "failed"} |-> m[x]]
  BY <1>1, Zenon
<1>3. m = [package |-> m.package, refs |-> m.refs, changed |-> m.changed,
           unresolved |-> m.unresolved, failed |-> m.failed]
  BY <1>2
<1> QED BY <1>3 DEF IsWork

LEMMA ApartKept ==
    ASSUME given \in Inputs, NEW old, NEW new, Brought(old, new)
    PROVE  Apart(old, new)
<1>1. \A q \in DOMAIN given.addons : Runtime(q)[1] = "runtime"
  BY AddonsAre, RuntimeIs
<1>2. \A src \in DOMAIN given.disk : \A p \in Copies(src) : p[1] = "assets"
  BY CopiesAre
<1> QED BY <1>1, <1>2 DEF Brought, Apart, Aside

LEMMA BroughtItself == \A pkg : Brought(pkg, pkg)
BY DEF Brought

LEMMA MendsAbsolute ==
    ASSUME given \in Inputs, NEW name \in Name, NEW w, IsWork(w), Genuine(w.package), NEW r \in Ref
    PROVE  Step("absolute", w, BundleRef(name, w, r), r)
<1> DEFINE m == BundleRef(name, w, r)
<1>0. r.path \in Path
  BY DEF Ref
<1>1. CASE w.failed \/ r.kind # "res" \/ ~SeenByFixer(r.path)
  <2>1. m = [w EXCEPT !.refs = Append(@, r)]
    BY <1>1 DEF BundleRef
  <2> HIDE DEF m
  <2>2. m.refs = Append(w.refs, r) /\ m.package = w.package /\ m.changed = w.changed
        /\ m.failed = w.failed /\ m.unresolved = w.unresolved
    BY <2>1 DEF IsWork
  <2>3. IsWork(m)
    <3>1. DOMAIN m = DOMAIN w /\ m = [x \in DOMAIN m |-> m[x]]
      BY <2>1
    <3> QED BY <2>2, <3>1, WorkIs DEF IsWork
  <2>4. Step("absolute", w, m, r)
    BY <1>1, <2>2, <2>3, BroughtItself DEF Step, Quiet, Stands, Foreign
  <2> QED BY <2>4 DEF m
<1>2. CASE ~w.failed /\ r.kind = "res" /\ SeenByFixer(r.path) /\ r.path \notin DOMAIN given.disk
  <2>1. m = [w EXCEPT !.unresolved = @ \cup {<<name, r.path>>}, !.refs = Append(@, r)]
    BY <1>2 DEF BundleRef, Unrepaired
  <2> HIDE DEF m
  <2>2. m.refs = Append(w.refs, r) /\ m.package = w.package /\ m.changed = w.changed
        /\ m.failed = w.failed /\ m.unresolved = w.unresolved \cup {<<name, r.path>>}
    BY <2>1 DEF IsWork
  <2>3. IsWork(m)
    <3>1. DOMAIN m = DOMAIN w /\ m = [x \in DOMAIN m |-> m[x]]
      BY <2>1
    <3> QED BY <1>0, <2>2, <3>1, WorkIs DEF IsWork
  <2>4. Step("absolute", w, m, r)
    BY <2>2, <2>3, BroughtItself DEF Step, Quiet, Stands
  <2> QED BY <2>4 DEF m
<1>3. CASE ~w.failed /\ r.kind = "res" /\ SeenByFixer(r.path) /\ r.path \in DOMAIN given.disk /\ r.path \in given.unreadable
  <2>1. m = [w EXCEPT !.failed = TRUE]
    BY <1>3 DEF BundleRef
  <2> HIDE DEF m
  <2>2. m.refs = w.refs /\ m.package = w.package /\ m.changed = w.changed
        /\ m.failed = TRUE /\ m.unresolved = w.unresolved
    BY <2>1 DEF IsWork
  <2>3. IsWork(m)
    <3>1. DOMAIN m = DOMAIN w /\ m = [x \in DOMAIN m |-> m[x]]
      BY <2>1
    <3> QED BY <2>2, <3>1, WorkIs DEF IsWork
  <2>4. Step("absolute", w, m, r)
    BY <2>2, <2>3, BroughtItself DEF Step, Quiet, Stands
  <2> QED BY <2>4 DEF m
<1>4. CASE ~w.failed /\ r.kind = "res" /\ SeenByFixer(r.path) /\ r.path \in DOMAIN given.disk /\ r.path \notin given.unreadable
  <2> DEFINE target == Bundled(w.package, r.path)
             pkg == PutNew(w.package, target, given.disk[r.path])
             new == [r EXCEPT !.path = target]
  <2>1. m = [w EXCEPT !.package = pkg, !.refs = Append(@, new), !.changed = TRUE]
    BY <1>4 DEF BundleRef, Repaired
  <2>2. /\ target \in Copies(r.path) /\ IsPackage(pkg) /\ Brought(w.package, pkg) /\ target \in DOMAIN pkg
        /\ target \in DOMAIN w.package /\ target # <<"assets", HashedOf(given, r.path)>>
              => w.package[target] = given.disk[r.path]
    BY <1>4, BundledIs DEF IsWork
  <2>3. target \in Path /\ target[1] = "assets" /\ Len(target) > 1
    BY <1>4, <2>2, CopiesAre
  <2>4. Genuine(pkg)
    BY <2>2, GenuineKept DEF IsWork
  <2>5. pkg[target].is = given.disk[r.path].is
    <3>1. CASE target = <<"assets", HashedOf(given, r.path)>>
      BY <1>4, <2>2, <2>4, <3>1 DEF Genuine, Same
    <3>2. CASE target # <<"assets", HashedOf(given, r.path)>> /\ target \in DOMAIN w.package
      <4>1. w.package[target] = given.disk[r.path]
        BY <2>2, <3>2
      <4>2. pkg = w.package
        BY <3>2 DEF PutNew
      <4> QED BY <4>1, <4>2
    <3>3. CASE target \notin DOMAIN w.package
      <4>1. given.disk[r.path] \in File /\ IsPackage(w.package)
        BY <1>4, DiskIs DEF IsWork
      <4> QED BY <2>3, <3>3, <4>1, PutNewIs
    <3> QED BY <3>1, <3>2, <3>3
  <2> HIDE DEF target, pkg
  <2>6. new \in Ref /\ new.kind = "res" /\ new.path = target /\ new.was = r.was
    BY <1>4, <2>3 DEF Ref
  <2> HIDE DEF new, m
  <2>7. m.refs = Append(w.refs, new) /\ m.package = pkg /\ m.changed = TRUE
        /\ m.failed = w.failed /\ m.unresolved = w.unresolved
    BY <2>1 DEF IsWork
  <2>8. IsWork(m)
    <3>1. DOMAIN m = DOMAIN w /\ m = [x \in DOMAIN m |-> m[x]]
      BY <2>1
    <3>2. Append(w.refs, new) \in Seq(Ref) /\ w.failed \in BOOLEAN /\ w.unresolved \subseteq Name \X Path
      BY <2>6 DEF IsWork
    <3> HIDE DEF pkg
    <3> QED BY <2>2, <2>7, <3>1, <3>2, WorkIs
  <2>11. Stands(r, new)
    BY <1>4, <2>3, <2>6, <1>0, DrivesAssumption, PathsAre DEF Stands, SeenByFixer, Domestic, Reserved, Aside
  <2>9. Honest(w.package, r) => Honest(pkg, new)
    <3> HAVE Honest(w.package, r)
    <3>1. Absolute(r.path) /\ r.path[1] \notin {"assets", "runtime"}
      BY <1>0, <1>4, DrivesAssumption, PathsAre DEF Absolute, SeenByFixer, OfTheTop
    <3>2. r.was = r.path
      BY <1>4, <3>1 DEF Honest
    <3>3. Meant(r.was) = given.disk[r.path]
      BY <3>1, <3>2 DEF Meant
    <3> QED BY <2>2, <2>3, <2>5, <2>6, <3>3 DEF Honest
  <2>10. Step("absolute", w, m, r)
    BY <2>2, <2>6, <2>7, <2>8, <2>9, <2>11 DEF Step, Quiet
  <2> QED BY <2>10 DEF m
<1> QED BY <1>1, <1>2, <1>3, <1>4

LEMMA MendsAddons ==
    ASSUME given \in Inputs, NEW name \in Name, NEW w, IsWork(w), Genuine(w.package), NEW r \in Ref
    PROVE  Step("addons", w, LocalizeRef(name, w, r), r)
<1> DEFINE m == LocalizeRef(name, w, r)
           script == Tail(r.path)
           pkg == Copied(w.package, script)
           there == script \in DOMAIN given.addons /\ Runtime(script) \in DOMAIN w.package
           brought == Brings(script) # {} /\ (there \/ Brings(script) \cap given.unreadable = {})
<1>0. r.path \in Path
  BY DEF Ref
<1>1. CASE r.kind # "res" \/ ~OfAddon(r.path)
  <2>1. m = [w EXCEPT !.refs = Append(@, r)]
    BY <1>1 DEF LocalizeRef
  <2> HIDE DEF m
  <2>2. m.refs = Append(w.refs, r) /\ m.package = w.package /\ m.changed = w.changed
        /\ m.failed = w.failed /\ m.unresolved = w.unresolved
    BY <2>1 DEF IsWork
  <2>3. IsWork(m)
    <3>1. DOMAIN m = DOMAIN w /\ m = [x \in DOMAIN m |-> m[x]]
      BY <2>1
    <3> QED BY <2>2, <3>1, WorkIs DEF IsWork
  <2>4. Step("addons", w, m, r)
    BY <1>1, <2>2, <2>3, BroughtItself DEF Step, Quiet, Stands, Foreign
  <2> QED BY <2>4 DEF m
<1>2. ASSUME r.kind = "res", OfAddon(r.path)
      PROVE  /\ script \in Path /\ IsPackage(pkg) /\ Brought(w.package, pkg) /\ Genuine(pkg)
             /\ script \in DOMAIN given.addons /\ brought => Runtime(script) \in DOMAIN pkg
             /\ r.path[1] = "addons" /\ Len(r.path) > 2
  <2>1. r.path[1] = "addons" /\ Len(r.path) > 2
    BY <1>0, <1>2, PathsAre DEF OfAddon
  <2>2. script \in Path
    <3>1. r.path \in Seq(Name)
      BY <1>0 DEF Path
    <3>2. script \in Seq(Name) /\ Len(script) = Len(r.path) - 1
      BY <2>1, <3>1
    <3>3. script # <<>>
      <4> HIDE DEF script
      <4> QED BY <2>1, <3>2
    <3> QED BY <3>2, <3>3 DEF Path
  <2> HIDE DEF script
  <2>3. /\ IsPackage(pkg) /\ Brought(w.package, pkg)
        /\ script \in DOMAIN given.addons /\ Brings(script) \cap given.unreadable = {} => Runtime(script) \in DOMAIN pkg
    BY <2>2, CopiedIs DEF IsWork
  <2>4. Genuine(pkg)
    BY <2>3, GenuineKept DEF IsWork
  <2>5. script \in DOMAIN given.addons /\ brought => Runtime(script) \in DOMAIN pkg
    BY <2>3 DEF Brought
  <2> QED BY <2>1, <2>2, <2>3, <2>4, <2>5
<1>3. CASE r.kind = "res" /\ OfAddon(r.path) /\ ~brought
  <2>1. m = [Unrepaired(w, name, r) EXCEPT !.package = pkg]
    BY <1>3 DEF LocalizeRef
  <2> HIDE DEF m, pkg, brought, script, there
  <2>2. m = [w EXCEPT !.unresolved = @ \cup {<<name, r.path>>}, !.refs = Append(@, r), !.package = pkg]
    BY <2>1 DEF Unrepaired, IsWork
  <2>3. m.refs = Append(w.refs, r) /\ m.package = pkg /\ m.changed = w.changed
        /\ m.failed = w.failed /\ m.unresolved = w.unresolved \cup {<<name, r.path>>}
    BY <2>2 DEF IsWork
  <2>4. IsWork(m)
    <3>1. DOMAIN m = DOMAIN w /\ m = [x \in DOMAIN m |-> m[x]]
      BY <2>2
    <3> QED BY <1>0, <1>2, <1>3, <2>3, <3>1, WorkIs DEF IsWork
  <2>5. Honest(w.package, r) => Honest(pkg, r)
    BY <1>2, <1>3, HonestKept, GenuineKept DEF IsWork
  <2>6. Step("addons", w, m, r)
    BY <1>2, <1>3, <2>3, <2>4, <2>5 DEF Step, Quiet, Stands
  <2> QED BY <2>6 DEF m
<1>4. CASE r.kind = "res" /\ OfAddon(r.path) /\ brought
  <2> DEFINE new == [r EXCEPT !.path = Runtime(script)]
  <2>1. m = [w EXCEPT !.package = pkg, !.refs = Append(@, new), !.changed = TRUE]
    BY <1>4 DEF LocalizeRef, Repaired
  <2>2. Meant(r.path) = given.addons[script]
    <3>1. ~Absolute(r.path)
      BY <1>0, <1>2, <1>4, DrivesAssumption, PathsAre DEF Absolute, OfTheTop
    <3> QED BY <3>1 DEF Meant
  <2>3. IsFile(r.path) => script \in DOMAIN given.addons
    <3>1. ~Absolute(r.path)
      BY <1>0, <1>2, <1>4, DrivesAssumption, PathsAre DEF Absolute, OfTheTop
    <3> QED BY <3>1, DiskIs DEF IsFile
  <2> HIDE DEF m, pkg, brought, script, there
  <2>4. Runtime(script) \in Path /\ Runtime(script)[1] = "runtime" /\ Len(Runtime(script)) > 1
    BY <1>2, <1>4, RuntimeIs, PathsAre
  <2>5. new \in Ref /\ new.kind = "res" /\ new.path = Runtime(script) /\ new.was = r.was
    BY <1>4, <2>4 DEF Ref
  <2> HIDE DEF new
  <2>6. m.refs = Append(w.refs, new) /\ m.package = pkg /\ m.changed = TRUE
        /\ m.failed = w.failed /\ m.unresolved = w.unresolved
    BY <2>1 DEF IsWork
  <2>7. IsWork(m)
    <3>1. DOMAIN m = DOMAIN w /\ m = [x \in DOMAIN m |-> m[x]]
      BY <2>1
    <3>2. Append(w.refs, new) \in Seq(Ref) /\ w.failed \in BOOLEAN /\ w.unresolved \subseteq Name \X Path
      BY <2>5 DEF IsWork
    <3>3. IsPackage(pkg)
      BY <1>2, <1>4
    <3> QED BY <2>6, <3>1, <3>2, <3>3, WorkIs
  <2>10. Stands(r, new)
    BY <1>2, <1>4, <2>4, <2>5 DEF Stands, Domestic, Reserved, Aside
  <2>8. Honest(w.package, r) => Honest(pkg, new)
    <3> HAVE Honest(w.package, r)
    <3>1. r.was = r.path
      BY <1>2, <1>4 DEF Honest
    <3>2. IsFile(r.was) => Runtime(script) \in DOMAIN pkg /\ pkg[Runtime(script)].is = Meant(r.was).is
      BY <1>2, <1>4, <2>2, <2>3, <3>1 DEF Genuine, Same
    <3> QED BY <2>4, <2>5, <3>2 DEF Honest
  <2>9. Step("addons", w, m, r)
    BY <1>2, <1>4, <2>5, <2>6, <2>7, <2>8, <2>10 DEF Step, Quiet
  <2> QED BY <2>9 DEF m
<1> QED BY <1>1, <1>3, <1>4

LEMMA MendsClasses ==
    ASSUME given \in Inputs, NEW w, IsWork(w), NEW r \in Ref
    PROVE  Step("classes", w, ClassRef(w, r), r)
<1> DEFINE m == ClassRef(w, r)
           script == ClassOf[r.path[1]]
           brings == r.kind = "class" /\ Declared(r.path[1]) /\ Runtime(script) \notin DOMAIN w.package
<1>1. CASE ~brings
  <2>1. m = w
    BY <1>1 DEF ClassRef
  <2> QED BY <2>1, BroughtItself DEF Step, Quiet, Stands, Foreign
<1>2. CASE brings
  <2> DEFINE pkg == Put(w.package, Runtime(script), given.addons[script])
  <2>1. m = [w EXCEPT !.package = pkg, !.changed = TRUE]
    BY <1>2 DEF ClassRef
  <2>2. script \in DOMAIN given.addons
    BY <1>2 DEF Declared
  <2>3. Runtime(script) \in Path /\ given.addons[script] \in File
    BY <2>2, AddonsAre, RuntimeIs
  <2>4. IsPackage(w.package)
    BY DEF IsWork
  <2>5. /\ IsPackage(pkg) /\ DOMAIN pkg = DOMAIN w.package \cup {Runtime(script)}
        /\ pkg[Runtime(script)] = given.addons[script]
        /\ \A p \in DOMAIN w.package \ {Runtime(script)} : pkg[p] = w.package[p]
    <3>1. HasPut(w.package, Runtime(script), given.addons[script], pkg)
      BY <2>3, <2>4, PutIs
    <3> QED BY <3>1 DEF HasPut
  <2> HIDE DEF pkg, m
  <2>6. Brought(w.package, pkg)
    BY <2>2, <2>5 DEF Brought
  <2>7. m.refs = w.refs /\ m.package = pkg /\ m.changed = TRUE
        /\ m.failed = w.failed /\ m.unresolved = w.unresolved
    BY <2>1 DEF IsWork
  <2>8. IsWork(m)
    <3>1. DOMAIN m = DOMAIN w /\ m = [x \in DOMAIN m |-> m[x]]
      BY <2>1
    <3> QED BY <2>5, <2>7, <3>1, WorkIs DEF IsWork
  <2>9. Step("classes", w, m, r)
    BY <2>6, <2>7, <2>8 DEF Step, Quiet
  <2> QED BY <2>9 DEF m
<1> QED BY <1>1, <1>2

LEMMA Mends ==
    ASSUME given \in Inputs, NEW what \in {"absolute", "addons", "classes"}, NEW name \in Name,
           NEW w, IsWork(w), Genuine(w.package), NEW r \in Ref
    PROVE  Step(what, w, Mended(what, name, w, r), r)
<1>1. CASE what = "absolute"
  BY <1>1, MendsAbsolute DEF Mended
<1>2. CASE what = "addons"
  <2>1. Mended(what, name, w, r) = LocalizeRef(name, w, r)
    BY <1>2 DEF Mended
  <2> QED BY <1>2, <2>1, MendsAddons
<1>3. CASE what = "classes"
  <2>1. Mended(what, name, w, r) = ClassRef(w, r)
    BY <1>3 DEF Mended
  <2> QED BY <1>3, <2>1, MendsClasses
<1> QED BY <1>1, <1>2, <1>3

\* What holds of the work however far it got.
Sure(base, w) ==
    /\ IsWork(w) /\ Genuine(w.package) /\ InPlace(w.package) /\ HonestTexts(w.package)
    /\ Grown(base.package, w.package) /\ Apart(base.package, w.package)
    /\ \A i \in DOMAIN w.refs : Honest(w.package, w.refs[i])

\* What a sweep that is quiet so far has seen.
Seen(what, base, w, seq, k) ==
    Quiet(w) =>
        /\ Quiet(base) /\ w.package = base.package
        /\ \A i \in 1..k : ~Foreign(what, seq[i])
        /\ what # "classes" => Len(w.refs) = k /\ \A i \in 1..k : w.refs[i] = seq[i]

\* The references swept over stand for those there were.
StandsAll(w, seq, k) == ~w.failed => Len(w.refs) = k /\ \A i \in 1..k : Stands(seq[i], w.refs[i])

LEMMA SweptIs ==
    ASSUME given \in Inputs, NEW what \in {"absolute", "addons", "classes"}, NEW name \in Name,
           NEW base, Sure(base, base), what = "classes" \/ base.refs = <<>>,
           NEW seq \in Seq(Ref), \A i \in DOMAIN seq : Honest(base.package, seq[i])
    PROVE  LET w == Swept(what, name, base, seq)
           IN  /\ Sure(base, w) /\ Seen(what, base, w, seq, Len(seq))
               /\ what = "classes" => w.refs = base.refs
               /\ what # "classes" => StandsAll(w, seq, Len(seq))
               /\ base.failed => w.failed
<1> DEFINE n == Len(seq)
<1>1. n \in Nat /\ DOMAIN seq = 1..n
  OBVIOUS
<1>2. PICK W : /\ W[0] = base
               /\ \A k \in 1..n : W[k] = Mended(what, name, W[k - 1], seq[k])
               /\ Swept(what, name, base, seq) = W[n]
  BY <1>1, SweepWalks
<1> HIDE DEF n
<1> DEFINE Good(k) == /\ Sure(base, W[k]) /\ Seen(what, base, W[k], seq, k) /\ (what = "classes" => W[k].refs = base.refs)
                      /\ what # "classes" => StandsAll(W[k], seq, k)
                      /\ base.failed => W[k].failed
           G == {k \in 0..n : Good(k)}
<1>3. 0 \in G
  <2>1. Seen(what, base, base, seq, 0)
    BY DEF Seen
  <2>3. what # "classes" => StandsAll(base, seq, 0)
    BY DEF StandsAll
  <2>2. Good(0)
    BY <1>2, <2>1, <2>3
  <2> QED BY <1>1, <2>2
<1>4. ASSUME NEW k \in 1..n, k - 1 \in G PROVE k \in G
  <2> DEFINE w == W[k - 1]
             m == W[k]
             r == seq[k]
  <2>1. k - 1 \in Nat /\ k \in Nat /\ k = (k - 1) + 1 /\ k \in 0..n
    BY <1>1
  <2>2. /\ Sure(base, w) /\ Seen(what, base, w, seq, k - 1) /\ (what = "classes" => w.refs = base.refs)
        /\ what # "classes" => StandsAll(w, seq, k - 1)
        /\ base.failed => w.failed
    BY <1>4
  <2>3. r \in Ref /\ Honest(base.package, r)
    BY <1>1
  <2>4. m = Mended(what, name, w, r)
    BY <1>2
  <2> HIDE DEF w, m, r
  <2>5. Step(what, w, m, r)
    BY <2>2, <2>3, <2>4, Mends DEF Sure
  <2>6. IsWork(m) /\ IsWork(w) /\ Brought(w.package, m.package) /\ IsPackage(w.package) /\ IsPackage(m.package)
        /\ w.refs \in Seq(Ref) /\ m.refs \in Seq(Ref)
    BY <2>2, <2>5 DEF Step, Sure, IsWork
  <2>7. Genuine(m.package) /\ Grown(w.package, m.package)
    BY <2>2, <2>6, GenuineKept DEF Sure
  <2>8. InPlace(m.package)
    BY <2>2, <2>6, InPlaceKept DEF Sure
  <2>9. HonestTexts(m.package)
    BY <2>2, <2>6, <2>7, HonestTextsKept DEF Sure
  <2>10. Grown(base.package, m.package)
    BY <2>2, <2>7 DEF Sure, Grown, Same
  <2>11. ASSUME NEW i \in DOMAIN w.refs PROVE Honest(m.package, w.refs[i])
    BY <2>2, <2>7, HonestKept DEF Sure
  <2>12. Honest(w.package, r)
    BY <2>2, <2>3, HonestKept DEF Sure
  <2>21. \/ m.refs = w.refs /\ (what = "classes" \/ m.failed)
         \/ /\ what # "classes"
            /\ \E new \in Ref : m.refs = Append(w.refs, new) /\ Stands(r, new) /\ (Honest(w.package, r) => Honest(m.package, new))
    BY <2>5 DEF Step
  <2>13. \A i \in DOMAIN m.refs : Honest(m.package, m.refs[i])
    <3>1. CASE m.refs = w.refs
      BY <2>11, <3>1
    <3>2. CASE what # "classes" /\ \E new \in Ref : m.refs = Append(w.refs, new) /\ Honest(m.package, new)
      <4>1. PICK new \in Ref : m.refs = Append(w.refs, new) /\ Honest(m.package, new)
        BY <3>2
      <4> QED BY <2>6, <2>11, <4>1
    <3> QED BY <2>12, <2>21, <3>1, <3>2
  <2>18. Apart(base.package, m.package)
    <3>1. Apart(base.package, w.package) /\ Apart(w.package, m.package)
      BY <2>2, <2>6, ApartKept DEF Sure
    <3> QED BY <3>1 DEF Apart
  <2>14. Sure(base, m)
    BY <2>6, <2>7, <2>8, <2>9, <2>10, <2>13, <2>18 DEF Sure
  <2>19. what # "classes" => StandsAll(m, seq, k)
    <3> SUFFICES ASSUME what # "classes", ~m.failed PROVE Len(m.refs) = k /\ \A i \in 1..k : Stands(seq[i], m.refs[i])
      BY DEF StandsAll
    <3>0. what # "classes" /\ ~m.failed
      OBVIOUS
    <3>1. ~w.failed
      BY <2>5, <3>0, Zenon DEF Step
    <3>2. PICK new \in Ref : m.refs = Append(w.refs, new) /\ Stands(r, new)
      BY <2>21, <3>0
    <3>3. Len(w.refs) = k - 1 /\ \A i \in 1..(k - 1) : Stands(seq[i], w.refs[i])
      BY <2>2, <3>1 DEF StandsAll
    <3>4. Len(m.refs) = k /\ m.refs[k] = new /\ \A i \in 1..(k - 1) : m.refs[i] = w.refs[i]
      BY <2>1, <2>6, <3>2, <3>3
    <3>5. \A i \in 1..k : i \in 1..(k - 1) \/ i = k
      BY <2>1
    <3> QED BY <3>2, <3>3, <3>4, <3>5 DEF r
  <2>20. base.failed => m.failed
    BY <2>2, <2>5 DEF Step
  <2>15. what = "classes" => m.refs = base.refs
    BY <2>2, <2>5 DEF Step
  <2>16. ASSUME Quiet(m)
         PROVE  /\ Quiet(base) /\ m.package = base.package
                /\ \A i \in 1..k : ~Foreign(what, seq[i])
                /\ what # "classes" => Len(m.refs) = k /\ \A i \in 1..k : m.refs[i] = seq[i]
    <3>1. Quiet(w) /\ m.package = w.package /\ ~Foreign(what, r) /\ (what # "classes" => m.refs = Append(w.refs, r))
      BY <2>5, <2>16 DEF Step
    <3>2. /\ Quiet(base) /\ w.package = base.package
          /\ \A i \in 1..(k - 1) : ~Foreign(what, seq[i])
          /\ what # "classes" => Len(w.refs) = k - 1 /\ \A i \in 1..(k - 1) : w.refs[i] = seq[i]
      BY <2>2, <3>1 DEF Seen
    <3>3. \A i \in 1..k : i \in 1..(k - 1) \/ i = k
      BY <2>1
    <3>4. \A i \in 1..k : ~Foreign(what, seq[i])
      BY <3>1, <3>2, <3>3 DEF r
    <3>5. what # "classes" => Len(m.refs) = k /\ m.refs[k] = r /\ \A i \in 1..(k - 1) : m.refs[i] = w.refs[i]
      <4> SUFFICES ASSUME what # "classes"
                   PROVE  Len(m.refs) = k /\ m.refs[k] = r /\ \A i \in 1..(k - 1) : m.refs[i] = w.refs[i]
        OBVIOUS
      <4>1. w.refs \in Seq(Ref) /\ r \in Ref
        BY <2>2, <2>3 DEF Sure, IsWork
      <4>2. m.refs = Append(w.refs, r) /\ Len(w.refs) = k - 1
        BY <3>1, <3>2
      <4>3. /\ Len(Append(w.refs, r)) = Len(w.refs) + 1 /\ Append(w.refs, r)[Len(w.refs) + 1] = r
            /\ \A i \in 1..Len(w.refs) : Append(w.refs, r)[i] = w.refs[i]
        BY ONLY <4>1, Appended
      <4> QED BY ONLY <2>1, <4>2, <4>3
    <3>6. what # "classes" => \A i \in 1..k : m.refs[i] = seq[i]
      BY <3>2, <3>3, <3>5 DEF r
    <3> QED BY <3>1, <3>2, <3>4, <3>5, <3>6
  <2>17. Seen(what, base, m, seq, k)
    BY <2>16 DEF Seen
  <2> QED BY <2>1, <2>14, <2>15, <2>17, <2>19, <2>20 DEF m
<1>5. \A k \in 0..n : k \in G
  <2> HIDE DEF G
  <2> QED BY <1>1, <1>3, <1>4, Upto
<1>6. n \in 0..n
  BY <1>1
<1>7. Good(n)
  BY <1>5, <1>6
<1> QED BY <1>2, <1>7 DEF n

-----------------------------------------------------------------------------
(* One file of a pass.                                                     *)

\* What the fixer has for a reference of the package's own.
Store(pkg) == Genuine(pkg) /\ InPlace(pkg) /\ HonestTexts(pkg)

CleanRef(r) == r.kind = "res" => ~SeenByFixer(r.path) /\ ~OfAddon(r.path)
CleanText(file) == \A r \in RefsOf(file) : CleanRef(r)

LEMMA RewrittenIs ==
    ASSUME given \in Inputs, IsPackage(package), unresolved \subseteq Name \X Path, Store(package),
           NEW p \in TextFiles(package)
    PROVE  LET w == Rewritten(p)
           IN  /\ IsWork(w) /\ Store(w.package) /\ Grown(package, w.package)
               /\ \A i \in DOMAIN w.refs : Honest(w.package, w.refs[i])
               /\ Apart(package, w.package) /\ StandsAll(w, package[p].refs, Len(package[p].refs))
               /\ Quiet(w) => w.package = package /\ unresolved = {} /\ CleanText(package[p])
<1> DEFINE refs    == package[p].refs
           start   == [package |-> package, refs |-> <<>>, changed |-> FALSE,
                       unresolved |-> unresolved, failed |-> FALSE]
           bundled == Swept("absolute", Last(p), start, refs)
           swept   == [bundled EXCEPT !.refs = <<>>]
           addons  == Swept("addons", Last(p), swept, bundled.refs)
           classes == Swept("classes", Last(p), addons, addons.refs)
<1>1. p \in DOMAIN package /\ p \in Path /\ package[p] \in File /\ refs \in Seq(Ref) /\ Last(p) \in Name
  <2>1. p \in DOMAIN package /\ p \in Path /\ package[p] \in File
    BY DEF TextFiles, IsPackage
  <2> QED BY <2>1, PathsAre DEF File
<1>2. Rewritten(p) = IF bundled.failed THEN bundled
                     ELSE IF package[p].type = "script" THEN classes ELSE addons
  BY DEF Rewritten
<1>3. \A i \in DOMAIN refs : refs[i] \in RefsOf(package[p])
  BY DEF RefsOf, Range
<1>4. \A i \in DOMAIN refs : Honest(package, refs[i])
  BY <1>3 DEF Store, HonestTexts
<1>5. Grown(package, package) /\ Apart(package, package)
  BY DEF Grown, Same, Apart
<1> HIDE DEF refs
<1>6. Sure(start, start) /\ start.refs = <<>> /\ start.package = package /\ start.unresolved = unresolved
  BY <1>5 DEF Sure, IsWork, Store
<1> HIDE DEF start
<1>7. Sure(start, bundled) /\ Seen("absolute", start, bundled, refs, Len(refs)) /\ StandsAll(bundled, refs, Len(refs))
  BY <1>1, <1>4, <1>6, SweptIs
<1> HIDE DEF bundled
<1>8. IsWork(bundled) /\ bundled.refs \in Seq(Ref) /\ \A i \in DOMAIN bundled.refs : Honest(bundled.package, bundled.refs[i])
  BY <1>7 DEF Sure, IsWork
<1>9. /\ IsWork(swept) /\ swept.refs = <<>> /\ swept.package = bundled.package /\ swept.changed = bundled.changed
      /\ swept.unresolved = bundled.unresolved /\ swept.failed = bundled.failed
  BY <1>8 DEF IsWork
<1> HIDE DEF swept
<1>10. Sure(swept, swept)
  <2>1. Grown(swept.package, swept.package) /\ Apart(swept.package, swept.package)
    BY DEF Grown, Same, Apart
  <2>2. DOMAIN swept.refs = {}
    BY <1>9
  <2> QED BY <1>7, <1>9, <2>1, <2>2 DEF Sure
<1>11. /\ Sure(swept, addons) /\ Seen("addons", swept, addons, bundled.refs, Len(bundled.refs))
       /\ StandsAll(addons, bundled.refs, Len(bundled.refs)) /\ (swept.failed => addons.failed)
  BY <1>1, <1>8, <1>9, <1>10, SweptIs
<1> HIDE DEF addons
<1>12. IsWork(addons) /\ addons.refs \in Seq(Ref) /\ \A i \in DOMAIN addons.refs : Honest(addons.package, addons.refs[i])
  BY <1>11 DEF Sure, IsWork
<1>13. Sure(addons, addons)
  <2>1. Grown(addons.package, addons.package) /\ Apart(addons.package, addons.package)
    BY DEF Grown, Same, Apart
  <2> QED BY <1>11, <2>1 DEF Sure
<1>14. /\ Sure(addons, classes) /\ Seen("classes", addons, classes, addons.refs, Len(addons.refs))
       /\ classes.refs = addons.refs /\ (addons.failed => classes.failed)
  BY <1>1, <1>12, <1>13, SweptIs
<1> HIDE DEF classes
<1> DEFINE w == Rewritten(p)
<1>15. IsWork(w) /\ Store(w.package) /\ Grown(package, w.package)
       /\ \A i \in DOMAIN w.refs : Honest(w.package, w.refs[i])
  <2>1. Sure(start, bundled) /\ Sure(swept, addons) /\ Sure(addons, classes)
    BY <1>7, <1>11, <1>14
  <2>2. Grown(package, bundled.package) /\ Grown(package, addons.package) /\ Grown(package, classes.package)
    BY <1>6, <1>9, <2>1 DEF Sure, Grown, Same
  <2>3. w \in {bundled, addons, classes}
    BY <1>2
  <2> QED BY <2>1, <2>2, <2>3 DEF Sure, Store
<1>16. ASSUME Quiet(w)
       PROVE  w.package = package /\ unresolved = {} /\ CleanText(package[p])
  <2>1. Quiet(addons) /\ w.package = addons.package
    <3>1. CASE w = bundled /\ bundled.failed
      BY <1>16, <3>1 DEF Quiet
    <3>2. CASE w = addons
      BY <1>16, <3>2
    <3>3. CASE w = classes
      BY <1>14, <1>16, <3>3 DEF Seen
    <3> QED BY <1>2, <3>1, <3>2, <3>3
  <2>2. Quiet(swept) /\ addons.package = swept.package /\ \A i \in 1..Len(bundled.refs) : ~Foreign("addons", bundled.refs[i])
    BY <1>11, <2>1 DEF Seen
  <2>3. Quiet(bundled) /\ bundled.package = addons.package
    BY <1>9, <2>2 DEF Quiet
  <2>4. /\ Quiet(start) /\ bundled.package = package
        /\ \A i \in 1..Len(refs) : ~Foreign("absolute", refs[i])
        /\ Len(bundled.refs) = Len(refs) /\ \A i \in 1..Len(refs) : bundled.refs[i] = refs[i]
    BY <1>6, <1>7, <2>3 DEF Seen
  <2>5. \A i \in 1..Len(refs) : CleanRef(refs[i])
    BY <2>2, <2>4 DEF Foreign, CleanRef
  <2>6. CleanText(package[p])
    BY <1>1, <2>5 DEF CleanText, RefsOf, Range, refs
  <2>7. unresolved = {}
    BY <1>6, <2>4 DEF Quiet
  <2> QED BY <2>1, <2>3, <2>4, <2>6, <2>7
<1>17. Apart(package, w.package)
  <2>1. Apart(start.package, bundled.package) /\ Apart(swept.package, addons.package) /\ Apart(addons.package, classes.package)
    BY <1>7, <1>11, <1>14 DEF Sure
  <2>2. Apart(package, bundled.package) /\ Apart(package, addons.package) /\ Apart(package, classes.package)
    BY <1>6, <1>9, <2>1 DEF Apart
  <2>3. w \in {bundled, addons, classes}
    BY <1>2
  <2> QED BY <2>2, <2>3
<1>18. StandsAll(w, refs, Len(refs))
  <2> SUFFICES ASSUME ~w.failed PROVE Len(w.refs) = Len(refs) /\ \A i \in 1..Len(refs) : Stands(refs[i], w.refs[i])
    BY DEF StandsAll
  <2>1. ~bundled.failed /\ ~addons.failed /\ w.refs = addons.refs
    BY <1>2, <1>9, <1>11, <1>14
  <2>2. Len(bundled.refs) = Len(refs) /\ \A i \in 1..Len(refs) : Stands(refs[i], bundled.refs[i])
    BY <1>7, <2>1 DEF StandsAll
  <2>3. Len(addons.refs) = Len(refs) /\ \A i \in 1..Len(refs) : Stands(bundled.refs[i], addons.refs[i])
    BY <1>11, <2>1, <2>2 DEF StandsAll
  <2> QED BY <2>1, <2>2, <2>3 DEF Stands
<1> QED BY <1>15, <1>16, <1>17, <1>18 DEF refs

-----------------------------------------------------------------------------
(* Paths within paths.                                                     *)

LEMMA JoinedIs ==
    ASSUME NEW a \in Path, NEW b \in Path
    PROVE  /\ a \o b \in Path /\ Len(a \o b) = Len(a) + Len(b) /\ (a \o b)[1] = a[1]
           /\ (a \o b)[Len(a) + 1] = b[1] /\ Last(a \o b) = Last(b)
           /\ \A i \in 1..Len(a) : (a \o b)[i] = a[i]
           /\ \A i \in 1..Len(b) : (a \o b)[Len(a) + i] = b[i]
<1>1. a \in Seq(Name) /\ b \in Seq(Name) /\ Len(a) \in Nat \ {0} /\ Len(b) \in Nat \ {0}
  BY PathsAre DEF Path
<1>2. a \o b \in Path
  BY PathsAre
<1>3. Len(a \o b) = Len(a) + Len(b) /\ \A i \in 1..Len(a) : (a \o b)[i] = a[i]
  BY <1>1
<1>4. \A i \in 1..Len(b) : (a \o b)[Len(a) + i] = b[i]
  BY <1>1
<1> DEFINE c == a \o b
<1> HIDE DEF c
<1>5. c[Len(a) + Len(b)] = b[Len(b)] /\ c[Len(a) + 1] = b[1] /\ c[1] = a[1]
  BY <1>1, <1>3, <1>4 DEF c
<1>6. Last(c) = Last(b)
  BY <1>3, <1>5 DEF Last, c
<1> QED BY <1>2, <1>3, <1>4, <1>5, <1>6 DEF c

LEMMA PrefixIs ==
    ASSUME NEW a \in Path, NEW p \in Path, IsPrefix(a, p)
    PROVE  Len(a) <= Len(p) /\ \A i \in 1..Len(a) : p[i] = a[i]
<1>1. a \in Seq(Name) /\ p \in Seq(Name) /\ Len(a) \in Nat /\ Len(p) \in Nat
  BY DEF Path
<1>2. Len(a) <= Len(p) /\ SubSeq(a, 1, Len(a)) = SubSeq(p, 1, Len(a))
  BY DEF IsPrefix
<1>3. ASSUME NEW i \in 1..Len(a) PROVE p[i] = a[i]
  <2>1. SubSeq(a, 1, Len(a))[i] = a[i]
    BY <1>1
  <2>2. SubSeq(p, 1, Len(a))[i] = p[i]
    BY <1>1, <1>2
  <2> QED BY <1>2, <2>1, <2>2
<1> QED BY <1>2, <1>3

LEMMA AboveIs ==
    ASSUME NEW p \in Path, NEW root \in Above(p)
    PROVE  root \in Path /\ Len(root) < Len(p) /\ root[1] = p[1] /\ Len(root) \in Nat
<1>1. p \in Seq(Name) /\ Len(p) \in Nat
  BY DEF Path
<1>2. PICK n \in 1..(Len(p) - 1) : root = SubSeq(p, 1, n)
  BY DEF Above
<1>3. n \in Nat /\ 1 <= n /\ n < Len(p)
  BY <1>1
<1>4. root \in Seq(Name) /\ Len(root) = n /\ root[1] = p[1]
  BY <1>1, <1>2, <1>3
<1>5. root # <<>>
  BY <1>3, <1>4
<1> QED BY <1>3, <1>4, <1>5 DEF Path

\* Of the directories above a file that are any good one is the deepest.
LEMMA DeepestIs ==
    ASSUME NEW p \in Path, NEW roots \in SUBSET Above(p), roots # {}
    PROVE  Deepest(roots) \in roots /\ \A other \in roots : Len(other) <= Len(Deepest(roots))
<1> DEFINE T == {n \in Nat : \A root \in roots : Len(root) <= n}
<1>1. Len(p) \in Nat /\ \A root \in roots : Len(root) \in Nat /\ Len(root) <= Len(p)
  BY AboveIs, PathsAre
<1>2. T \in SUBSET Nat /\ Len(p) \in T
  BY <1>1
<1>3. PICK n \in T : \A m \in T : n <= m
  <2> HIDE DEF T
  <2> QED BY <1>2, LeastOf
<1>4. \E root \in roots : Len(root) = n
  <2>1. SUFFICES ASSUME \A root \in roots : Len(root) # n PROVE FALSE
    OBVIOUS
  <2>2. PICK root \in roots : TRUE
    OBVIOUS
  <2>3. n # 0 /\ n \in Nat
    BY <1>1, <1>3, <2>1, <2>2
  <2>4. n - 1 \in T
    BY <1>1, <1>3, <2>1, <2>3
  <2> HIDE DEF T
  <2>5. n <= n - 1
    BY <1>3, <2>4
  <2> QED BY <2>3, <2>5
<1>5. \E root \in roots : \A other \in roots : Len(other) <= Len(root)
  BY <1>3, <1>4
<1> QED BY <1>5, Zenon DEF Deepest

\* A rerooted reference is the same from a directory above its file, and there.
LEMMA RerootedIs ==
    ASSUME NEW pkg, NEW p \in Path, NEW r \in Ref
    PROVE  LET new == Rerooted(pkg, p, r)
           IN  /\ new \in Ref /\ new.kind = r.kind /\ new.was = r.was
               /\ \/ new = r
                  \/ /\ r.kind = "res"
                     /\ \E root \in Above(p) : new.path = root \o r.path /\ There(pkg, root, r.path)
<1> DEFINE new == Rerooted(pkg, p, r)
<1>1. CASE new = r
  BY <1>1
<1>2. CASE new # r
  <2> DEFINE root == Deepest(Better(pkg, p))
  <2>1. r.kind = "res" /\ Better(pkg, p) # {} /\ There(pkg, root, r.path) /\ new = [r EXCEPT !.path = root \o @]
    BY <1>2 DEF Rerooted
  <2>2. Better(pkg, p) \in SUBSET Above(p)
    BY DEF Better
  <2>3. root \in Above(p)
    BY <2>1, <2>2, DeepestIs
  <2>4. root \o r.path \in Path
    BY <2>3, AboveIs, PathsAre DEF Ref
  <2> HIDE DEF root, new
  <2>5. new \in Ref /\ new.kind = r.kind /\ new.was = r.was /\ new.path = root \o r.path
    BY <2>1, <2>4 DEF Ref
  <2> QED BY <2>1, <2>3, <2>5 DEF new
<1> QED BY <1>1, <1>2

\* No directory is of the top either.
InPlaceFolders == \A d \in folders : d \in Path /\ d[1] \notin Drives \cup {"addons"} /\ Below(d) \cap Reserved = {}

\* With nothing of the top's inside, what is there from a directory is no name of the top's.
LEMMA NothingOfTheTop ==
    ASSUME NEW pkg, IsPackage(pkg), InPlace(pkg), InPlaceFolders,
           NEW root \in Path, NEW path \in Path, Exists(pkg, root \o path)
    PROVE  path[1] \notin Reserved
<1> DEFINE x == root \o path
<1>1. x \in DOMAIN pkg \cup folders
  BY DEF Exists
<1>2. x \in Path /\ Below(x) \cap Reserved = {}
  BY <1>1 DEF IsPackage, InPlace, InPlaceFolders
<1>3. Len(root) \in Nat \ {0} /\ Len(path) \in Nat \ {0}
  BY PathsAre
<1>4. Len(x) = Len(root) + Len(path) /\ x[Len(root) + 1] = path[1]
  BY JoinedIs
<1> HIDE DEF x
<1>5. Len(root) + 1 \in 2..Len(x)
  BY <1>3, <1>4
<1>6. path[1] \in Below(x)
  BY <1>4, <1>5 DEF Below
<1> QED BY <1>2, <1>6

-----------------------------------------------------------------------------
(* The inductive invariant of the fixer.                                   *)

Ahead == Repairing \ {"rewrite"}

\* TypeOK but for the directories, which no step takes away.
FilesOK ==
    /\ given \in Inputs
    /\ IsPackage(package) /\ IsPackage(judged)
    /\ phase \in DOMAIN Then \cup {"guard", "shipped", "refused"}
    /\ todo \subseteq DOMAIN package /\ listed \subseteq Path
    /\ changed \in BOOLEAN /\ closed \in BOOLEAN
    /\ passes \in 0..MaxPasses
    /\ unresolved \subseteq Name \X Path

\* No resource has been changed yet.
Untouched(pkg) == \A p \in TextFiles(pkg) : \A r \in RefsOf(pkg[p]) : r.was = r.path

\* What KeepsItsFile says of a package.
Shown(pkg) ==
    \A p \in TextFiles(pkg) : \A r \in RefsOf(pkg[p]) :
        r.kind = "res" /\ r.path # r.was /\ IsFile(r.was) /\ ~Moved(p, r) =>
            /\ r.path[1] \in {"assets", "runtime"} /\ Len(r.path) > 1
            /\ r.path \in DOMAIN pkg /\ pkg[r.path].is = Meant(r.was).is

\* What the passes changed is a reference to a copy.
OnlyMended(pkg) ==
    \A p \in TextFiles(pkg) : \A r \in RefsOf(pkg[p]) :
        r.kind = "res" /\ r.path # r.was => r.path[1] \in {"assets", "runtime"}

Clean(pkg, files) == \A p \in files : CleanText(pkg[p])

\* Nothing was wrong, and the last pass changed nothing.
Reported == unresolved = {} /\ (passes < MaxPasses \/ ~changed)

\* From the entry scene on there is one.
Written == {"occluders", "merge", "warmup", "judge", "describe", "guard", "shipped"}
HasEntry(pkg) == Entry \in DOMAIN pkg /\ pkg[Entry].type = "scene"

FixerInv ==
    /\ FilesOK
    /\ phase \in Repairing \cup {"reroot", "bare", "entry"} => InPlace(package)
    /\ phase \in Repairing => Genuine(package)
    /\ phase \in Ahead => Untouched(package)
    /\ phase # "rewrite" => todo = {}
    /\ phase = "rewrite" => /\ HonestTexts(package) /\ todo \subseteq TextFiles(package)
                            /\ ~changed /\ unresolved = {} => Clean(package, TextFiles(package) \ todo)
    /\ phase \notin Repairing => Shown(package) /\ (Reported => Clean(package, TextFiles(package)))
    /\ phase = "reroot" => OnlyMended(package)
    /\ phase \in Written => HasEntry(package)

LEMMA PhasesAre ==
    /\ Then["walk"] = "qa" /\ Then["qa"] = "player" /\ Then["player"] = "setup" /\ Then["setup"] = "scrub"
    /\ Then["scrub"] = "rewrite" /\ Then["rewrite"] = "reroot" /\ Then["reroot"] = "bare" /\ Then["bare"] = "entry"
    /\ Then["entry"] = "occluders" /\ Then["occluders"] = "merge" /\ Then["merge"] = "warmup"
    /\ Then["warmup"] = "judge" /\ Then["judge"] = "describe" /\ Then["describe"] = "guard"
    /\ DOMAIN Then = {"walk", "qa", "player", "setup", "scrub", "rewrite", "reroot", "bare", "entry",
                      "occluders", "merge", "warmup", "judge", "describe"}
BY DEF Then

LEMMA FixerStart == Init => FixerInv
<1> SUFFICES ASSUME Init PROVE FixerInv
  OBVIOUS
<1>1. given \in Inputs /\ package = given.package /\ phase = "walk"
  BY DEF Init
<1>2. Given(given) /\ Placed(given) /\ Distinct(given)
  BY <1>1, GivenIs
<1>3. FilesOK
  <2>1. IsPackage(package) /\ IsPackage(judged)
    BY <1>1, <1>2, NothingIs DEF Init, Given
  <2>2. phase \in DOMAIN Then /\ 0 \in 0..MaxPasses
    BY <1>1, PhasesAre, PassesAssumption
  <2> QED BY <1>1, <2>1, <2>2 DEF Init, FilesOK
<1>4. InPlace(package)
  BY <1>1, <1>2 DEF Placed, InPlace
<1>5. Genuine(package)
  BY <1>1, <1>2 DEF Distinct, Genuine, Runtime
<1>6. Untouched(package)
  BY <1>1, <1>2 DEF Given, Untouched, TextFiles, Files
<1> QED BY <1>1, <1>3, <1>4, <1>5, <1>6 DEF FixerInv, Repairing, Init, Written

\* What is left when something is removed.
LEMMA LessIs ==
    ASSUME NEW pkg, IsPackage(pkg), NEW gone, InPlace(pkg), Genuine(pkg), Untouched(pkg)
    PROVE  LET new == Without(pkg, gone)
           IN  IsPackage(new) /\ InPlace(new) /\ Genuine(new) /\ Untouched(new)
<1> DEFINE new == Without(pkg, gone)
<1>1. /\ IsPackage(new) /\ DOMAIN new = DOMAIN pkg \ gone
      /\ \A p \in DOMAIN pkg \ gone : new[p] = pkg[p]
  BY WithoutIs
<1> HIDE DEF new
<1>2. InPlace(new)
  BY <1>1 DEF InPlace
<1>3. Genuine(new)
  BY <1>1 DEF Genuine
<1>4. Untouched(new)
  BY <1>1 DEF Untouched, TextFiles
<1> QED BY <1>1, <1>2, <1>3, <1>4 DEF new

LEMMA FixerStrips ==
    ASSUME FixerInv, Strip
    PROVE  FixerInv'
<1>1. phase \in {"walk", "qa", "player", "setup"} /\ phase' \in {"qa", "player", "setup", "scrub"} /\ Fixed
  BY PhasesAre DEF Strip, StripWalk, StripQaHarness, StripChrome
<1>2. package' = package \/ \E gone : package' = Without(package, gone)
  BY DEF Strip, StripWalk, StripQaHarness, StripChrome
<1>3. IsPackage(package) /\ InPlace(package) /\ Genuine(package) /\ Untouched(package) /\ FilesOK /\ todo = {}
  BY <1>1 DEF FixerInv, FilesOK, Repairing, Ahead
<1>4. IsPackage(package') /\ InPlace(package') /\ Genuine(package') /\ Untouched(package')
  BY <1>2, <1>3, LessIs
<1>5. Genuine(package)' /\ Untouched(package)' /\ InPlace(package)'
  BY <1>1, <1>4 DEF Fixed, Genuine, InPlace, Untouched, Runtime, HashedOf
<1>6. FilesOK'
  BY <1>1, <1>3, <1>4, PhasesAre DEF FilesOK, Fixed
<1> QED BY <1>1, <1>3, <1>5, <1>6 DEF FixerInv, Fixed, Repairing, Ahead, Written

\* One file rewritten.
LEMMA RewriteIs ==
    ASSUME FixerInv, NEW p \in todo, RewriteFile(p)
    PROVE  /\ IsPackage(package') /\ Genuine(package') /\ InPlace(package') /\ HonestTexts(package')
           /\ Grown(package, package') /\ unresolved' \subseteq Name \X Path /\ changed' \in BOOLEAN
           /\ ~changed' /\ unresolved' = {} => ~changed /\ unresolved = {} /\ package' = package /\ CleanText(package[p])
<1> DEFINE w == Rewritten(p)
           file == [package[p] EXCEPT !.refs = w.refs]
           new == [w.package EXCEPT ![p] = file]
<1>1. /\ given \in Inputs /\ IsPackage(package) /\ unresolved \subseteq Name \X Path /\ Store(package)
      /\ p \in TextFiles(package) /\ changed \in BOOLEAN
  BY DEF FixerInv, FilesOK, Repairing, RewriteFile, Store
<1>2. /\ package' = IF w.changed /\ ~w.failed THEN new ELSE w.package
      /\ changed' = (changed \/ (w.changed /\ ~w.failed))
      /\ unresolved' = IF w.failed THEN w.unresolved \cup {<<Last(p), <<"rewrite failed">>>>} ELSE w.unresolved
  BY DEF RewriteFile
<1>3. /\ IsWork(w) /\ Store(w.package) /\ Grown(package, w.package)
      /\ \A i \in DOMAIN w.refs : Honest(w.package, w.refs[i])
      /\ Quiet(w) => w.package = package /\ unresolved = {} /\ CleanText(package[p])
  BY <1>1, RewrittenIs
<1> HIDE DEF w
<1>4. p \in DOMAIN package /\ p \in Path /\ package[p] \in File /\ Text(package[p]) /\ p \in DOMAIN w.package
  BY <1>1, <1>3 DEF TextFiles, IsPackage, Grown
<1>5. IsPackage(w.package) /\ w.refs \in Seq(Ref) /\ w.changed \in BOOLEAN /\ w.failed \in BOOLEAN
      /\ w.unresolved \subseteq Name \X Path
  BY <1>3 DEF IsWork
<1>6. file \in File /\ Same(file, package[p]) /\ file.refs = w.refs
  BY <1>4, <1>5, FileWith DEF Same, File, Scanned
<1> HIDE DEF file
<1>7. DOMAIN new = DOMAIN w.package /\ new[p] = file /\ \A x \in DOMAIN w.package \ {p} : new[x] = w.package[x]
  BY <1>4
<1>8. IsPackage(new)
  <2>1. new = [x \in DOMAIN new |-> new[x]]
    BY <1>5 DEF IsPackage
  <2>2. \A x \in DOMAIN new : new[x] \in File
    BY <1>5, <1>6, <1>7 DEF IsPackage
  <2> HIDE DEF new
  <2> QED BY <1>5, <1>7, <2>1, <2>2, Zenon DEF IsPackage
<1> HIDE DEF new
<1>9. Grown(w.package, new) /\ \A x \in DOMAIN w.package : Same(new[x], w.package[x])
  BY <1>3, <1>4, <1>6, <1>7 DEF Grown, Same
<1>10. Genuine(new)
  BY <1>3, <1>7, <1>9 DEF Store, Genuine, Same
<1>11. InPlace(new)
  BY <1>3, <1>7 DEF Store, InPlace
<1>12. HonestTexts(new)
  <2>1. ASSUME NEW x \in TextFiles(new), NEW r \in RefsOf(new[x]) PROVE Honest(new, r)
    <3>1. CASE x = p
      <4>1. \E i \in DOMAIN w.refs : r = w.refs[i]
        BY <1>6, <1>7, <2>1, <3>1 DEF RefsOf, Range
      <4> QED BY <1>3, <1>9, <4>1, HonestKept
    <3>2. CASE x # p
      <4>1. x \in TextFiles(w.package) /\ r \in RefsOf(w.package[x])
        BY <1>7, <2>1, <3>2 DEF TextFiles
      <4> QED BY <1>3, <1>9, <4>1, HonestKept DEF Store, HonestTexts
    <3> QED BY <3>1, <3>2
  <2> QED BY <2>1 DEF HonestTexts
<1>13. Grown(package, new)
  BY <1>3, <1>9 DEF Grown, Same
<1>14. IsPackage(package') /\ Genuine(package') /\ InPlace(package') /\ HonestTexts(package') /\ Grown(package, package')
  BY <1>2, <1>3, <1>5, <1>8, <1>10, <1>11, <1>12, <1>13 DEF Store
<1>15. unresolved' \subseteq Name \X Path
  <2>1. <<"rewrite failed">> \in Path /\ Last(p) \in Name
    BY <1>4, PathsAre, NamesAssumption
  <2> DEFINE entry == <<Last(p), <<"rewrite failed">>>>
  <2>2. entry \in Name \X Path
    BY <2>1, Zenon
  <2>3. unresolved' \in {w.unresolved, w.unresolved \cup {entry}}
    BY <1>2
  <2> HIDE DEF entry
  <2> QED BY <1>5, <2>2, <2>3
<1>16. ~changed' /\ unresolved' = {} => Quiet(w) /\ ~changed /\ package' = w.package
  BY <1>1, <1>2, <1>5 DEF Quiet
<1> QED BY <1>1, <1>2, <1>3, <1>5, <1>14, <1>15, <1>16

LEMMA FixerRewrites ==
    ASSUME FixerInv, NEW p \in todo, RewriteFile(p)
    PROVE  FixerInv'
<1>1. /\ IsPackage(package') /\ Genuine(package') /\ InPlace(package') /\ HonestTexts(package')
      /\ Grown(package, package') /\ unresolved' \subseteq Name \X Path /\ changed' \in BOOLEAN
      /\ ~changed' /\ unresolved' = {} => ~changed /\ unresolved = {} /\ package' = package /\ CleanText(package[p])
  BY RewriteIs
<1>2. phase = "rewrite" /\ phase' = phase /\ given' = given /\ todo' = todo \ {p}
      /\ UNCHANGED <<passes, judged, listed, closed>>
  BY DEF RewriteFile
<1>3. FilesOK /\ todo \subseteq TextFiles(package) /\ todo \subseteq DOMAIN package
  BY <1>2 DEF FixerInv, TextFiles
<1>4. TextFiles(package) \subseteq TextFiles(package)' /\ TextFiles(package') = TextFiles(package)'
  BY <1>1 DEF Grown, Same, TextFiles, Text
<1>5. FilesOK'
  BY <1>1, <1>2, <1>3 DEF FilesOK, Grown
<1>6. Genuine(package)' /\ InPlace(package)' /\ HonestTexts(package)'
  BY <1>1, <1>2 DEF Genuine, InPlace, HonestTexts, TextFiles, Honest, IsFile, Meant, Runtime, HashedOf, OfAddon, Absolute
<1>7. ~changed' /\ unresolved' = {} => Clean(package, TextFiles(package) \ todo)'
  <2> HAVE ~changed' /\ unresolved' = {}
  <2>1. Clean(package, TextFiles(package) \ todo) /\ package' = package /\ CleanText(package[p])
    BY <1>1, <1>2 DEF FixerInv
  <2> QED BY <1>2, <2>1 DEF Clean, TextFiles
<1> QED BY <1>2, <1>3, <1>4, <1>5, <1>6, <1>7 DEF FixerInv, Repairing, Ahead, Written

LEMMA FixerScrubs ==
    ASSUME FixerInv, ScrubData
    PROVE  FixerInv'
<1> DEFINE Scrub(file) == [file EXCEPT !.refs = [i \in DOMAIN @ |-> Scrubbed(@[i])]]
<1>1. /\ phase = "scrub" /\ phase' = "rewrite" /\ given' = given /\ todo' = TextFiles(package) /\ changed' = FALSE
      /\ passes' = 1 /\ UNCHANGED <<unresolved, judged, listed, closed>>
  BY PhasesAre DEF ScrubData
<1>2. package' = [p \in DOMAIN package |-> IF package[p].type = "data" THEN Scrub(package[p]) ELSE package[p]]
  BY DEF ScrubData
<1>3. FilesOK /\ IsPackage(package) /\ InPlace(package) /\ Genuine(package) /\ Untouched(package)
  BY <1>1 DEF FixerInv, FilesOK, Repairing, Ahead
<1>4. ASSUME NEW r \in Ref PROVE Scrubbed(r) \in Ref
  <2>1. r.path \in Path /\ <<Last(r.path)>> \in Path
    BY PathsAre DEF Ref
  <2> QED BY <2>1 DEF Scrubbed, Ref
<1>5. ASSUME NEW p \in DOMAIN package, package[p].type = "data"
      PROVE  Scrub(package[p]) \in File /\ Same(Scrub(package[p]), package[p])
  <2> DEFINE file == package[p]
             refs == [i \in DOMAIN file.refs |-> Scrubbed(file.refs[i])]
  <2>1. file \in File /\ file.refs \in Seq(Ref)
    BY <1>3 DEF IsPackage, File
  <2>2. refs \in Seq(Ref)
    BY <1>4, <2>1
  <2>3. Scrub(file) = [file EXCEPT !.refs = refs]
    BY <2>1 DEF File
  <2>4. [file EXCEPT !.refs = refs] \in File
    <3> HIDE DEF refs
    <3> QED BY <1>5, <2>1, <2>2, FileWith DEF Scanned
  <2>5. Same([file EXCEPT !.refs = refs], file)
    <3> HIDE DEF refs
    <3> QED BY <2>1 DEF Same, File
  <2> QED BY <2>3, <2>4, <2>5
<1> HIDE DEF Scrub
<1>6. DOMAIN package' = DOMAIN package /\ \A p \in DOMAIN package : Same(package'[p], package[p]) /\ package'[p] \in File
      /\ (package[p].type # "data" => package'[p] = package[p])
  BY <1>2, <1>3, <1>5 DEF Same, IsPackage
<1>7. IsPackage(package')
  <2>1. package' = [p \in DOMAIN package' |-> package'[p]]
    BY <1>2
  <2> QED BY <1>3, <1>6, <2>1 DEF IsPackage
<1>8. Genuine(package)' /\ InPlace(package)'
  BY <1>1, <1>3, <1>6 DEF Genuine, InPlace, Same, Runtime, HashedOf
<1>9. TextFiles(package)' = TextFiles(package) /\ \A p \in TextFiles(package) : package'[p] = package[p]
  BY <1>6 DEF TextFiles, Text, Same
<1>10. HonestTexts(package)'
  BY <1>3, <1>9 DEF HonestTexts, Honest, Untouched
<1>11. Clean(package, TextFiles(package) \ todo)'
  BY <1>1, <1>9 DEF Clean
<1>12. todo' \subseteq DOMAIN package'
  BY <1>1, <1>6 DEF TextFiles
<1>13. FilesOK'
  <2>1. IsPackage(package)' /\ IsPackage(judged)'
    BY <1>1, <1>3, <1>7 DEF FilesOK
  <2>2. phase' \in DOMAIN Then /\ 1 \in 0..MaxPasses
    BY <1>1, PhasesAre, PassesAssumption
  <2> QED BY <1>1, <1>3, <1>12, <2>1, <2>2 DEF FilesOK
<1> QED BY <1>1, <1>8, <1>9, <1>10, <1>11, <1>13 DEF FixerInv, Repairing, Ahead, Written

LEMMA FixerEndsPass ==
    ASSUME FixerInv, EndPass
    PROVE  FixerInv'
<1>1. phase = "rewrite" /\ todo = {} /\ UNCHANGED <<given, package, unresolved, judged, listed, closed>>
  BY DEF EndPass
<1>2. FilesOK /\ InPlace(package) /\ Genuine(package) /\ HonestTexts(package)
      /\ (~changed /\ unresolved = {} => Clean(package, TextFiles(package) \ todo))
  BY <1>1 DEF FixerInv, Repairing
<1>3. UNCHANGED <<InPlace(package), Genuine(package), HonestTexts(package), TextFiles(package), IsPackage(package), IsPackage(judged)>>
  BY <1>1 DEF InPlace, Genuine, HonestTexts, TextFiles, IsPackage, Honest, IsFile, Meant, Runtime, HashedOf, OfAddon, Absolute
<1>4. CASE changed /\ passes < MaxPasses
  <2>1. todo' = TextFiles(package) /\ changed' = FALSE /\ passes' = passes + 1 /\ phase' = phase
    BY <1>4 DEF EndPass
  <2>2. FilesOK'
    <3>1. passes' \in 0..MaxPasses
      BY <1>2, <1>4, <2>1, PassesAssumption DEF FilesOK
    <3>2. todo' \subseteq DOMAIN package'
      BY <1>1, <2>1 DEF TextFiles
    <3> QED BY <1>1, <1>2, <1>3, <2>1, <3>1, <3>2 DEF FilesOK
  <2>3. Clean(package, TextFiles(package) \ todo)'
    BY <1>3, <2>1 DEF Clean
  <2> QED BY <1>1, <1>2, <1>3, <2>1, <2>2, <2>3 DEF FixerInv, Repairing, Ahead, Written
<1>5. CASE ~(changed /\ passes < MaxPasses)
  <2>1. phase' = "reroot" /\ UNCHANGED <<todo, changed, passes>>
    BY <1>1, <1>5, PhasesAre DEF EndPass
  <2>2. FilesOK'
    BY <1>1, <1>2, <1>3, <2>1, PhasesAre DEF FilesOK
  <2>3. Shown(package)' /\ OnlyMended(package)'
    BY <1>1, <1>2 DEF Shown, OnlyMended, HonestTexts, Honest, TextFiles, IsFile, Meant, OfAddon, Absolute
  <2>4. Reported' => Clean(package, TextFiles(package))'
    <3> HAVE Reported'
    <3>1. ~changed /\ unresolved = {}
      BY <1>1, <1>2, <1>5, <2>1 DEF Reported
    <3>2. Clean(package, TextFiles(package))
      BY <1>1, <1>2, <3>1 DEF Clean
    <3> QED BY <1>1, <1>3, <3>2 DEF Clean
  <2> QED BY <1>1, <1>2, <1>3, <2>1, <2>2, <2>3, <2>4 DEF FixerInv, Repairing, Ahead, Written
<1> QED BY <1>4, <1>5

\* The same package with other references in its texts.
Referring(pkg, F) ==
    [p \in DOMAIN pkg |-> IF Text(pkg[p]) THEN [pkg[p] EXCEPT !.refs = [i \in DOMAIN @ |-> F[p][i]]] ELSE pkg[p]]

LEMMA ReferringIs ==
    ASSUME NEW pkg, IsPackage(pkg), NEW F, \A p \in DOMAIN pkg : \A i \in DOMAIN pkg[p].refs : F[p][i] \in Ref,
           NEW new, new = Referring(pkg, F)
    PROVE  /\ IsPackage(new) /\ DOMAIN new = DOMAIN pkg /\ TextFiles(new) = TextFiles(pkg)
           /\ \A p \in DOMAIN pkg : Same(new[p], pkg[p]) /\ (~Text(pkg[p]) => new[p] = pkg[p])
           /\ \A p \in TextFiles(pkg) : DOMAIN new[p].refs = DOMAIN pkg[p].refs
                                        /\ \A i \in DOMAIN pkg[p].refs : new[p].refs[i] = F[p][i]
<1> USE DEF Referring
<1>1. DOMAIN new = DOMAIN pkg
  OBVIOUS
<1>2. ASSUME NEW p \in DOMAIN pkg, Text(pkg[p])
      PROVE  /\ new[p] \in File /\ Same(new[p], pkg[p]) /\ DOMAIN new[p].refs = DOMAIN pkg[p].refs
             /\ \A i \in DOMAIN pkg[p].refs : new[p].refs[i] = F[p][i]
  <2> DEFINE file == pkg[p]
             refs == [i \in DOMAIN file.refs |-> F[p][i]]
  <2>1. file \in File /\ file.refs \in Seq(Ref)
    BY DEF IsPackage, File
  <2>2. refs \in Seq(Ref)
    BY <2>1
  <2>3. new[p] = [file EXCEPT !.refs = refs]
    BY <1>2, <2>1 DEF File
  <2>4. [file EXCEPT !.refs = refs] \in File
    <3> HIDE DEF refs
    <3> QED BY <1>2, <2>1, <2>2, FileWith DEF Scanned
  <2>5. Same([file EXCEPT !.refs = refs], file) /\ [file EXCEPT !.refs = refs].refs = refs
    <3> HIDE DEF refs
    <3> QED BY <2>1 DEF Same, File
  <2> QED BY <2>3, <2>4, <2>5
<1>3. \A p \in DOMAIN pkg : ~Text(pkg[p]) => new[p] = pkg[p]
  OBVIOUS
<1>4. new = [p \in DOMAIN new |-> new[p]]
  OBVIOUS
<1>5. \A p \in DOMAIN pkg : Same(new[p], pkg[p]) /\ new[p] \in File
  BY <1>2, <1>3 DEF Same, IsPackage
<1>6. IsPackage(new)
  <2> HIDE DEF Same
  <2> QED BY <1>1, <1>4, <1>5, Zenon DEF IsPackage
<1>7. TextFiles(new) = TextFiles(pkg)
  BY <1>1, <1>5 DEF TextFiles, Text, Same
<1> QED BY <1>1, <1>2, <1>3, <1>5, <1>6, <1>7 DEF TextFiles

LEMMA IsFileIs ==
    ASSUME given \in Inputs, NEW path \in Path, IsFile(path)
    PROVE  path[1] \in Drives \cup {"addons"} /\ path[1] \in Reserved /\ Len(path) > 1
<1>1. CASE path \in DOMAIN given.disk
  BY <1>1, DiskIs, PathsAre DEF Absolute, Reserved
<1>2. CASE OfAddon(path)
  BY <1>2, PathsAre DEF OfAddon, Reserved
<1> QED BY <1>1, <1>2 DEF IsFile

\* The files are those there were, and F of their references in the texts.
Changes(F(_, _)) ==
    /\ IsPackage(package') /\ DOMAIN package' = DOMAIN package /\ TextFiles(package') = TextFiles(package)
    /\ \A p \in DOMAIN package : Same(package'[p], package[p]) /\ (~Text(package[p]) => package'[p] = package[p])
    /\ \A p \in TextFiles(package) :
          /\ DOMAIN package'[p].refs = DOMAIN package[p].refs
          /\ \A i \in DOMAIN package[p].refs : package'[p].refs[i] = F(p, package[p].refs[i])

LEMMA RerootsAre ==
    ASSUME IsPackage(package), Reroot
    PROVE  Changes(LAMBDA p, r : Rerooted(package, p, r))
<1>2. IsPackage(package)
  OBVIOUS
<1> DEFINE F == [p \in DOMAIN package |-> [i \in DOMAIN package[p].refs |-> Rerooted(package, p, package[p].refs[i])]]
<1>3. package' = Referring(package, F)
  <2>1. \A p \in DOMAIN package : package[p] = [x \in DOMAIN package[p] |-> package[p][x]] /\ "refs" \in DOMAIN package[p]
    BY <1>2 DEF IsPackage, File
  <2> QED BY <2>1 DEF Reroot, WithRefs, Referring
<1>4. ASSUME NEW p \in DOMAIN package, NEW i \in DOMAIN package[p].refs
      PROVE  /\ p \in Path /\ package[p].refs[i] \in Ref /\ F[p][i] = Rerooted(package, p, package[p].refs[i])
             /\ F[p][i] \in Ref
  <2>1. p \in Path /\ package[p].refs[i] \in Ref
    BY <1>2 DEF IsPackage, File
  <2> QED BY <2>1, RerootedIs
<1> HIDE DEF F
<1>5. /\ IsPackage(package') /\ DOMAIN package' = DOMAIN package /\ TextFiles(package') = TextFiles(package)
      /\ \A p \in DOMAIN package : Same(package'[p], package[p]) /\ (~Text(package[p]) => package'[p] = package[p])
      /\ \A p \in TextFiles(package) : DOMAIN package'[p].refs = DOMAIN package[p].refs
                                        /\ \A i \in DOMAIN package[p].refs : package'[p].refs[i] = F[p][i]
  <2>1. \A p \in DOMAIN package : \A i \in DOMAIN package[p].refs : F[p][i] \in Ref
    BY <1>4
  <2> QED BY <1>2, <1>3, <2>1, ReferringIs
<1> QED BY <1>4, <1>5 DEF Changes, TextFiles

LEMMA FixerReroots ==
    ASSUME FixerInv, InPlaceFolders, Reroot
    PROVE  FixerInv'
<1>1. phase = "reroot" /\ phase' = "bare" /\ Fixed
  BY PhasesAre DEF Reroot
<1>2. FilesOK /\ IsPackage(package) /\ InPlace(package) /\ Shown(package) /\ (Reported => Clean(package, TextFiles(package)))
      /\ todo = {} /\ given \in Inputs /\ OnlyMended(package)
  BY <1>1 DEF FixerInv, FilesOK, Repairing
<1>4. ASSUME NEW p \in DOMAIN package, NEW i \in DOMAIN package[p].refs
      PROVE  p \in Path /\ package[p].refs[i] \in Ref
  BY <1>2 DEF IsPackage, File
<1>5. Changes(LAMBDA p, r : Rerooted(package, p, r))
  BY <1>2, RerootsAre
<1>6. ASSUME NEW p \in TextFiles(package), NEW new \in RefsOf(package'[p])
      PROVE  \E r \in RefsOf(package[p]) : /\ r \in Ref /\ new \in Ref /\ new.kind = r.kind /\ new.was = r.was
                /\ \/ new = r
                   \/ /\ new.path[1] = p[1] /\ p[1] \notin Drives \cup {"addons"}
                      /\ new.kind = "res" => Moved(p, new)
  <2>1. PICK i \in DOMAIN package[p].refs : new = Rerooted(package, p, package[p].refs[i])
    BY <1>5 DEF Changes, RefsOf, Range
  <2> DEFINE r == package[p].refs[i]
  <2>2. p \in DOMAIN package /\ p \in Path /\ r \in Ref /\ r \in RefsOf(package[p]) /\ new = Rerooted(package, p, r) /\ p[1] \notin Drives \cup {"addons"}
    BY <1>2, <1>4, <2>1 DEF TextFiles, RefsOf, Range, InPlace
  <2> HIDE DEF r
  <2>3. /\ new \in Ref /\ new.kind = r.kind /\ new.was = r.was
        /\ \/ new = r
           \/ \E root \in Above(p) : new.path = root \o r.path /\ There(package, root, r.path)
    BY <2>2, RerootedIs
  <2>4. ASSUME NEW root \in Above(p), new.path = root \o r.path, There(package, root, r.path)
        PROVE  new.path[1] = p[1] /\ (new.kind = "res" => Moved(p, new))
    <3>1. root \in Path /\ root[1] = p[1] /\ r.path \in Path
      BY <2>2, AboveIs DEF Ref
    <3>2. new.path[1] = root[1]
      <4>1. (root \o r.path)[1] = root[1]
        BY <3>1, JoinedIs
      <4> QED BY <2>4, <4>1, Zenon
    <3>3. r.path[1] \notin {"assets", "runtime"}
      <4>1. CASE Absolute(r.path)
        BY <3>1, <4>1, PathsAre, DrivesAssumption DEF Absolute, OfTheTop
      <4>2. CASE ~Absolute(r.path)
        <5>1. Exists(package, root \o r.path)
          BY <2>4, <4>2 DEF There
        <5>2. r.path[1] \notin Reserved
          BY <1>2, <3>1, <5>1, NothingOfTheTop
        <5> QED BY <5>2 DEF Reserved
      <4> QED BY <4>1, <4>2
    <3>4. new.kind = "res" => r.path = r.was
      BY <1>2, <2>2, <2>3, <3>3 DEF OnlyMended
    <3>5. new.kind = "res" => new.path = root \o new.was
      BY <2>3, <2>4, <3>4
    <3> QED BY <3>1, <3>2, <3>5 DEF Moved
  <2> QED BY <2>2, <2>3, <2>4
<1>7. Shown(package')
  <2>1. SUFFICES ASSUME NEW p \in TextFiles(package), NEW new \in RefsOf(package'[p]),
                        new.kind = "res", new.path # new.was, IsFile(new.was), ~Moved(p, new)
                 PROVE  /\ new.path[1] \in {"assets", "runtime"} /\ Len(new.path) > 1
                        /\ new.path \in DOMAIN package' /\ package'[new.path].is = Meant(new.was).is
    BY <1>5 DEF Changes, Shown
  <2>2. new \in RefsOf(package[p])
    BY <1>6, <2>1
  <2> QED BY <1>2, <1>5, <2>1, <2>2 DEF Changes, Shown, Same
<1>8. Reported => Clean(package', TextFiles(package'))
  <2>1. SUFFICES ASSUME Reported, NEW p \in TextFiles(package), NEW new \in RefsOf(package'[p]) PROVE CleanRef(new)
    BY <1>5 DEF Changes, Clean, CleanText
  <2>2. PICK r \in RefsOf(package[p]) : /\ new \in Ref
                /\ (new = r \/ new.path[1] \notin Drives \cup {"addons"})
    BY <1>6
  <2>3. CASE new = r
    BY <1>2, <2>1, <2>3 DEF Clean, CleanText
  <2>4. CASE new.path[1] \notin Drives \cup {"addons"}
    BY <2>2, <2>4, PathsAre, DrivesAssumption DEF CleanRef, SeenByFixer, OfAddon, Ref
  <2> QED BY <2>2, <2>3, <2>4
<1>9. FilesOK'
  BY <1>1, <1>2, <1>5, PhasesAre DEF Changes, FilesOK, Fixed
<1>10. InPlace(package)' /\ Shown(package)' /\ (Reported' => Clean(package, TextFiles(package))')
  BY <1>1, <1>2, <1>5, <1>7, <1>8 DEF Changes, InPlace, Shown, Reported, Clean, TextFiles, Fixed, IsFile, Meant, OfAddon, Absolute
<1> QED BY <1>1, <1>2, <1>9, <1>10 DEF FixerInv, Fixed, Repairing, Ahead, Written

\* A name that a bundled file has.
Bared(r) ==
    IF r.kind = "res" /\ Len(r.path) = 1 /\ <<"assets", r.path[1]>> \in DOMAIN package
    THEN [r EXCEPT !.path = <<"assets">> \o @]
    ELSE r

LEMMA BaredIs ==
    ASSUME NEW r \in Ref
    PROVE  LET new == Bared(r)
           IN  /\ new \in Ref /\ new.kind = r.kind /\ new.was = r.was
               /\ \/ new = r
                  \/ Len(r.path) = 1 /\ new.path[1] = "assets"
<1>1. r.path \in Path /\ <<"assets">> \in Path
  BY PathsAre, NamesAssumption DEF Ref, OfTheTop
<1> DEFINE path == <<"assets">> \o r.path
<1>2. path \in Path /\ path[1] = "assets"
  <2>1. (<<"assets">> \o r.path)[1] = <<"assets">>[1]
    BY <1>1, JoinedIs
  <2> QED BY <1>1, <2>1, PathsAre
<1>3. Bared(r) \in {r, [r EXCEPT !.path = path]} /\ (Bared(r) # r => Len(r.path) = 1)
  BY DEF Ref, Bared
<1> HIDE DEF path
<1> QED BY <1>2, <1>3 DEF Ref

LEMMA BaresAre ==
    ASSUME IsPackage(package), RepairBare
    PROVE  Changes(LAMBDA p, r : Bared(r))
<1> DEFINE F == [p \in DOMAIN package |-> [i \in DOMAIN package[p].refs |-> Bared(package[p].refs[i])]]
<1>1. package' = Referring(package, F)
  <2>1. \A p \in DOMAIN package : package[p] = [x \in DOMAIN package[p] |-> package[p][x]] /\ "refs" \in DOMAIN package[p]
    BY DEF IsPackage, File
  <2> QED BY <2>1 DEF RepairBare, WithRefs, Referring, Bared
<1>2. ASSUME NEW p \in DOMAIN package, NEW i \in DOMAIN package[p].refs
      PROVE  F[p][i] = Bared(package[p].refs[i]) /\ F[p][i] \in Ref
  <2>1. package[p].refs[i] \in Ref
    BY DEF IsPackage, File
  <2> QED BY <2>1, BaredIs
<1> HIDE DEF F
<1>3. /\ IsPackage(package') /\ DOMAIN package' = DOMAIN package /\ TextFiles(package') = TextFiles(package)
      /\ \A p \in DOMAIN package : Same(package'[p], package[p]) /\ (~Text(package[p]) => package'[p] = package[p])
      /\ \A p \in TextFiles(package) : DOMAIN package'[p].refs = DOMAIN package[p].refs
                                        /\ \A i \in DOMAIN package[p].refs : package'[p].refs[i] = F[p][i]
  <2>1. \A p \in DOMAIN package : \A i \in DOMAIN package[p].refs : F[p][i] \in Ref
    BY <1>2
  <2> QED BY <1>1, <2>1, ReferringIs
<1> QED BY <1>2, <1>3 DEF Changes, TextFiles

LEMMA FixerRepairsBare ==
    ASSUME FixerInv, RepairBare
    PROVE  FixerInv'
<1>1. phase = "bare" /\ phase' = "entry" /\ Fixed
  BY PhasesAre DEF RepairBare
<1>2. FilesOK /\ IsPackage(package) /\ InPlace(package) /\ Shown(package) /\ (Reported => Clean(package, TextFiles(package)))
      /\ todo = {} /\ given \in Inputs
  BY <1>1 DEF FixerInv, FilesOK, Repairing
<1>6. Changes(LAMBDA p, r : Bared(r))
  BY <1>2, BaresAre
<1>7. ASSUME NEW p \in TextFiles(package), NEW new \in RefsOf(package'[p])
      PROVE  \E r \in RefsOf(package[p]) : /\ r \in Ref /\ new \in Ref /\ new.kind = r.kind /\ new.was = r.was
                                           /\ (new = r \/ (Len(r.path) = 1 /\ new.path[1] = "assets"))
  <2>1. PICK i \in DOMAIN package[p].refs : new = Bared(package[p].refs[i])
    BY <1>6 DEF Changes, RefsOf, Range
  <2> DEFINE r == package[p].refs[i]
  <2>2. p \in DOMAIN package /\ r \in Ref /\ r \in RefsOf(package[p]) /\ new = Bared(r)
    BY <1>2, <2>1 DEF TextFiles, RefsOf, Range, IsPackage, File
  <2> HIDE DEF r
  <2> QED BY <2>2, BaredIs
<1>8. Shown(package')
  <2>1. SUFFICES ASSUME NEW p \in TextFiles(package), NEW new \in RefsOf(package'[p]),
                        new.kind = "res", new.path # new.was, IsFile(new.was), ~Moved(p, new)
                 PROVE  /\ new.path[1] \in {"assets", "runtime"} /\ Len(new.path) > 1
                        /\ new.path \in DOMAIN package' /\ package'[new.path].is = Meant(new.was).is
    BY <1>6 DEF Changes, Shown
  <2>2. PICK r \in RefsOf(package[p]) : /\ r \in Ref /\ new.kind = r.kind /\ new.was = r.was
                                        /\ (new = r \/ Len(r.path) = 1)
    BY <1>7
  <2>3. CASE new = r
    BY <1>2, <1>6, <2>1, <2>3 DEF Changes, Shown, Same
  <2>4. CASE Len(r.path) = 1
    <3>1. r.was \in Path /\ IsFile(r.was) /\ Len(r.was) \in Nat
      BY <2>1, <2>2, PathsAre DEF Ref
    <3>2. Len(r.was) > 1
      BY <1>2, <3>1, IsFileIs
    <3>3. r.path # r.was
      <4>1. ~(1 > 1)
        OBVIOUS
      <4> QED BY <2>4, <3>2, <4>1, Zenon
    <3>4. ~Moved(p, r)
      <4>1. p \in Path
        BY <1>2 DEF TextFiles, IsPackage
      <4>2. ASSUME NEW root \in Above(p) PROVE r.path # root \o r.was
        <5>1. root \in Path /\ Len(root) \in Nat \ {0}
          BY <4>1, AboveIs, PathsAre
        <5>2. Len(root \o r.was) = Len(root) + Len(r.was)
          BY <3>1, <5>1, JoinedIs
        <5>3. Len(root \o r.was) # 1
          BY <3>1, <3>2, <5>1, <5>2
        <5> QED BY <2>4, <5>3, Zenon
      <4> QED BY <4>2 DEF Moved
    <3>5. Len(r.path) > 1
      BY <1>2, <2>1, <2>2, <3>3, <3>4 DEF Shown
    <3> QED BY <2>4, <3>5
  <2> QED BY <2>2, <2>3, <2>4
<1>9. Reported => Clean(package', TextFiles(package'))
  <2>1. SUFFICES ASSUME Reported, NEW p \in TextFiles(package), NEW new \in RefsOf(package'[p]) PROVE CleanRef(new)
    BY <1>6 DEF Changes, Clean, CleanText
  <2>2. PICK r \in RefsOf(package[p]) : new \in Ref /\ (new = r \/ new.path[1] = "assets")
    BY <1>7
  <2>3. CASE new = r
    BY <1>2, <2>1, <2>3 DEF Clean, CleanText
  <2>4. CASE new.path[1] = "assets"
    BY <2>2, <2>4, PathsAre, DrivesAssumption DEF CleanRef, SeenByFixer, OfAddon, Ref, OfTheTop
  <2> QED BY <2>2, <2>3, <2>4
<1>10. FilesOK'
  BY <1>1, <1>2, <1>6, PhasesAre DEF Changes, FilesOK, Fixed
<1>11. InPlace(package)' /\ Shown(package)' /\ (Reported' => Clean(package, TextFiles(package))')
  BY <1>1, <1>2, <1>6, <1>8, <1>9 DEF Changes, InPlace, Shown, Reported, Clean, TextFiles, Fixed, IsFile, Meant, OfAddon, Absolute
<1> QED BY <1>1, <1>2, <1>10, <1>11 DEF FixerInv, Fixed, Repairing, Ahead, Written

-----------------------------------------------------------------------------
(* What the later steps do to the texts and to the copies.                 *)

\* A text's references are those it had, or as they are written and clean; the
\* copies are there as they were.
Follows(old, new) ==
    /\ \A p \in TextFiles(new) : \A r \in RefsOf(new[p]) :
          \/ p \in TextFiles(old) /\ r \in RefsOf(old[p])
          \/ r.path = r.was /\ CleanRef(r)
    /\ \A p \in DOMAIN old : p[1] \in {"assets", "runtime"} /\ Len(p) > 1 => p \in DOMAIN new /\ new[p].is = old[p].is

LEMMA FollowsItself == \A pkg : Follows(pkg, pkg)
BY DEF Follows

LEMMA FollowedIs ==
    ASSUME NEW old, NEW new, Follows(old, new)
    PROVE  /\ Shown(old) => Shown(new)
           /\ Clean(old, TextFiles(old)) => Clean(new, TextFiles(new))
<1>1. ASSUME Shown(old) PROVE Shown(new)
  BY <1>1 DEF Shown, Follows
<1>2. ASSUME Clean(old, TextFiles(old)) PROVE Clean(new, TextFiles(new))
  BY <1>2 DEF Clean, CleanText, Follows
<1> QED BY <1>1, <1>2

\* A step after the fixer that follows the package keeps the invariant.
LEMMA FixerFollows ==
    ASSUME FixerInv, IsPackage(package'), Follows(package, package'), FilesOK', phase \notin Repairing, phase' \notin Repairing,
           UNCHANGED <<given, todo, changed, passes, unresolved>>,
           phase' \notin {"reroot", "bare", "entry"}, phase' \in Written => HasEntry(package')
    PROVE  FixerInv'
<1>1. Shown(package) /\ (Reported => Clean(package, TextFiles(package))) /\ todo = {}
  BY DEF FixerInv, Repairing
<1>2. Shown(package') /\ (Reported => Clean(package', TextFiles(package')))
  BY <1>1, FollowedIs
<1>3. Shown(package)' /\ (Reported' => Clean(package, TextFiles(package))')
  BY <1>2 DEF Shown, Reported, Clean, TextFiles, IsFile, Meant, OfAddon, Absolute
<1>4. phase' \in Written => HasEntry(package)'
  BY DEF HasEntry, Entry
<1> QED BY <1>1, <1>3, <1>4 DEF FixerInv, Repairing, Ahead

\* A list of a set's members names its members.
LEMMA ListIs ==
    ASSUME NEW S, IsFiniteSet(S)
    PROVE  /\ SetToSeq(S) \in [1..Cardinality(S) -> S] /\ Cardinality(S) \in Nat
           /\ \A i \in DOMAIN SetToSeq(S) : SetToSeq(S)[i] \in S
<1>1. Cardinality(S) \in Nat /\ ExistsBijection(1..Cardinality(S), S)
  BY FS_CardinalityType
<1>2. \E f \in [1..Cardinality(S) -> S] : IsInjective(f)
  BY <1>1, Zenon DEF ExistsBijection, Bijection, Injection
<1>3. SetToSeq(S) \in [1..Cardinality(S) -> S]
  BY <1>2, Zenon DEF SetToSeq
<1> QED BY <1>1, <1>3

LEMMA ResIs ==
    ASSUME NEW path \in Path
    PROVE  Res(path) \in Ref /\ Res(path).kind = "res" /\ Res(path).path = path /\ Res(path).was = path
BY DEF Res, Ref

LEMMA OwnPaths ==
    /\ Entry \in Path /\ Len(Entry) = 1 /\ Entry[1] = "mission.tscn"
    /\ Lit \in Path /\ Len(Lit) = 2
    /\ <<"site.tscn">> \in Path /\ <<"occluders.tscn">> \in Path /\ <<"warmup.gd">> \in Path
BY PathsAre, NamesAssumption DEF Entry, Lit, OfTheTop

LEMMA InstancedIs ==
    ASSUME IsPackage(package)
    PROVE  IsFiniteSet(Instanced) /\ Instanced \subseteq DOMAIN package
<1>1. Instanced \subseteq DOMAIN package
  BY DEF Instanced, Level
<1> QED BY <1>1, FS_Subset DEF IsPackage

LEMMA SceneIs ==
    ASSUME NEW is \in Name, NEW paths, NEW n \in Nat, paths \in [1..n -> Path]
    PROVE  /\ Scene(is, paths) \in File /\ Text(Scene(is, paths))
           /\ \A r \in RefsOf(Scene(is, paths)) : \E i \in 1..n : r = Res(paths[i])
           /\ \A i \in 1..n : Res(paths[i]) \in RefsOf(Scene(is, paths))
<1> DEFINE refs == [i \in DOMAIN paths |-> Res(paths[i])]
<1>1. DOMAIN paths = 1..n /\ \A i \in 1..n : refs[i] = Res(paths[i]) /\ refs[i] \in Ref
  BY ResIs
<1>2. refs \in Seq(Ref) /\ DOMAIN refs = 1..n
  BY <1>1
<1>3. Scene(is, paths) = [is |-> is, type |-> "scene", refs |-> refs]
  BY DEF Scene
<1> HIDE DEF refs
<1> QED BY <1>1, <1>2, <1>3 DEF File, Text, RefsOf, Range

\* The first name of a path.
LEMMA SomeFile == \A pkg : IsPackage(pkg) => \A p \in DOMAIN pkg : p \in Path /\ pkg[p] \in File
BY DEF IsPackage

\* A package with a file more, which its entry names.
HasWired(old, path, file, new) ==
    /\ IsPackage(new) /\ HasEntry(new) /\ DOMAIN new = DOMAIN old \cup {path} /\ new[path] = file
    /\ \A p \in DOMAIN old \ {path, Entry} : new[p] = old[p]
    /\ Same(new[Entry], old[Entry]) /\ new[Entry].refs = Append(old[Entry].refs, Res(path))

LEMMA WiredIs ==
    ASSUME NEW pkg, IsPackage(pkg), HasEntry(pkg), NEW path \in Path, path # Entry,
           NEW file \in File, file.refs = <<>>
    PROVE  HasWired(pkg, path, file, Wired(pkg, path, file))
<1> DEFINE old == Put(pkg, path, file)
           entry == [old[Entry] EXCEPT !.refs = Append(@, Res(path))]
           new == Wired(pkg, path, file)
<1>1. /\ IsPackage(old) /\ DOMAIN old = DOMAIN pkg \cup {path} /\ old[path] = file
      /\ \A p \in DOMAIN pkg \ {path} : old[p] = pkg[p]
  <2>1. HasPut(pkg, path, file, old)
    BY PutIs
  <2> QED BY <2>1 DEF HasPut
<1> HIDE DEF old
<1>2. Entry \in DOMAIN old /\ old[Entry] = pkg[Entry] /\ pkg[Entry] \in File /\ pkg[Entry].refs \in Seq(Ref)
      /\ pkg[Entry].type = "scene"
  BY <1>1, SomeFile DEF HasEntry, File
<1>3. new = [old EXCEPT ![Entry] = entry]
  BY DEF Wired, old
<1>4. Append(pkg[Entry].refs, Res(path)) \in Seq(Ref)
  BY <1>2, ResIs
<1>5. entry \in File /\ Same(entry, pkg[Entry]) /\ entry.refs = Append(pkg[Entry].refs, Res(path))
  BY <1>2, <1>4 DEF File, Same
<1> HIDE DEF entry, new
<1>6. DOMAIN new = DOMAIN old /\ new[Entry] = entry /\ \A p \in DOMAIN old \ {Entry} : new[p] = old[p]
  BY <1>2, <1>3
<1>7. IsPackage(new)
  <2>1. new = [p \in DOMAIN new |-> new[p]]
    BY <1>1, <1>3 DEF IsPackage
  <2>2. \A p \in DOMAIN new : new[p] \in File
    BY <1>1, <1>5, <1>6 DEF IsPackage
  <2> QED BY <1>1, <1>6, <2>1, <2>2, Zenon DEF IsPackage
<1>8. HasEntry(new)
  BY <1>2, <1>5, <1>6 DEF HasEntry, Same
<1> QED BY <1>1, <1>2, <1>5, <1>6, <1>7, <1>8 DEF new, HasWired

\* A path of the root that is no drive is clean.
LEMMA ResClean ==
    ASSUME NEW path \in Path, path[1] \notin Drives \cup {"addons"}
    PROVE  CleanRef(Res(path)) /\ Res(path).path = Res(path).was
BY ResIs, PathsAre, DrivesAssumption DEF CleanRef, SeenByFixer, OfAddon

LEMMA WiredFollows ==
    ASSUME NEW pkg, IsPackage(pkg), HasEntry(pkg), NEW name \in Name, <<name>> # Entry,
           name \notin Drives \cup {"addons"}, NEW file \in File, file.refs = <<>>
    PROVE  Follows(pkg, Wired(pkg, <<name>>, file))
<1> DEFINE path == <<name>>
           new == Wired(pkg, path, file)
<1>1. path \in Path /\ path[1] = name /\ Len(path) = 1
  BY PathsAre
<1> HIDE DEF path
<1>2. /\ IsPackage(new) /\ HasEntry(new) /\ DOMAIN new = DOMAIN pkg \cup {path} /\ new[path] = file
      /\ \A p \in DOMAIN pkg \ {path, Entry} : new[p] = pkg[p]
      /\ Same(new[Entry], pkg[Entry]) /\ new[Entry].refs = Append(pkg[Entry].refs, Res(path))
  <2>1. HasWired(pkg, path, file, new)
    BY <1>1, WiredIs DEF path
  <2> QED BY <2>1 DEF HasWired
<1> HIDE DEF new
<1>3. CleanRef(Res(path)) /\ Res(path).path = Res(path).was
  BY <1>1, ResClean
<1>4. ASSUME NEW p \in TextFiles(new), NEW r \in RefsOf(new[p])
      PROVE  \/ p \in TextFiles(pkg) /\ r \in RefsOf(pkg[p])
             \/ r.path = r.was /\ CleanRef(r)
  <2>1. CASE p = path
    BY <1>2, <1>4, <2>1 DEF RefsOf, Range
  <2>2. CASE p = Entry
    <3>1. pkg[Entry].refs \in Seq(Ref) /\ Text(pkg[Entry]) /\ Entry \in DOMAIN pkg
      BY SomeFile DEF HasEntry, File, Text
    <3>2. r \in RefsOf(pkg[Entry]) \/ r = Res(path)
      <4>1. Range(Append(pkg[Entry].refs, Res(path))) = Range(pkg[Entry].refs) \cup {Res(path)}
        BY <1>1, <3>1, ResIs, Appended
      <4>2. r \in Range(Append(pkg[Entry].refs, Res(path)))
        BY <1>2, <1>4, <2>2 DEF RefsOf
      <4> QED BY <4>1, <4>2 DEF RefsOf
    <3> QED BY <1>3, <2>2, <3>1, <3>2 DEF TextFiles
  <2>3. CASE p \in DOMAIN pkg \ {path, Entry}
    BY <1>2, <1>4, <2>3 DEF TextFiles
  <2> QED BY <1>2, <1>4, <2>1, <2>2, <2>3 DEF TextFiles
<1>5. ASSUME NEW p \in DOMAIN pkg, Len(p) > 1 PROVE p \in DOMAIN new /\ new[p].is = pkg[p].is
  <2>1. Len(path) = 1 /\ Len(Entry) = 1 /\ ~(1 > 1)
    BY <1>1, OwnPaths
  <2>2. p # path /\ p # Entry
    BY <1>5, <2>1, Zenon
  <2> QED BY <1>2, <2>2
<1> QED BY <1>4, <1>5 DEF Follows, new, path

LEMMA FixerWritesEntry ==
    ASSUME FixerInv, WriteEntry
    PROVE  FixerInv'
<1>1. phase = "entry" /\ phase' \in {"occluders", "refused"} /\ UNCHANGED <<given, todo, changed, passes, unresolved, judged, listed>>
  BY PhasesAre DEF WriteEntry
<1>2. FilesOK /\ IsPackage(package) /\ InPlace(package)
  BY <1>1 DEF FixerInv, FilesOK
<1>3. CASE Instanced = {}
  <2>1. phase' = "refused" /\ UNCHANGED <<package, closed>>
    BY <1>3 DEF WriteEntry
  <2>2. FilesOK'
    BY <1>1, <1>2, <2>1 DEF FilesOK
  <2>3. IsPackage(package') /\ Follows(package, package')
    BY <1>2, <2>1, FollowsItself
  <2> QED BY <1>1, <2>1, <2>2, <2>3, FixerFollows DEF Repairing, Written
<1>4. CASE Instanced # {}
  <2> DEFINE paths == SetToSeq(Instanced)
             n == Cardinality(Instanced)
             entry == Scene("entry", paths)
  <2>1. paths \in [1..n -> Path] /\ n \in Nat /\ \A i \in 1..n : paths[i] \in DOMAIN package
    <3>1. IsFiniteSet(Instanced) /\ Instanced \subseteq DOMAIN package /\ Instanced \subseteq Path
      BY <1>2, InstancedIs DEF IsPackage
    <3> QED BY <3>1, ListIs
  <2>2. phase' = "occluders" /\ package' = Put(package, Entry, entry) /\ closed' \in BOOLEAN
    BY <1>1, <1>4, PhasesAre DEF WriteEntry
  <2> HIDE DEF paths, n
  <2>3. /\ entry \in File /\ Text(entry) /\ \A r \in RefsOf(entry) : \E i \in 1..n : r = Res(paths[i])
    <3>1. "entry" \in Name
      BY NamesAssumption
    <3> QED BY <2>1, <3>1, SceneIs
  <2>4. entry.type = "scene"
    BY DEF Scene
  <2> HIDE DEF entry
  <2>5. /\ IsPackage(package') /\ DOMAIN package' = DOMAIN package \cup {Entry} /\ package'[Entry] = entry
        /\ \A p \in DOMAIN package \ {Entry} : package'[p] = package[p]
    <3>1. Entry \in Path
      BY OwnPaths
    <3>2. entry \in File /\ IsPackage(package)
      BY <1>2, <2>3
    <3>3. HasPut(package, Entry, entry, Put(package, Entry, entry))
      BY ONLY <3>1, <3>2, PutIs
    <3> QED BY <2>2, <3>3 DEF HasPut
  <2>6. HasEntry(package')
    BY <2>4, <2>5 DEF HasEntry
  <2>7. ASSUME NEW r \in RefsOf(entry) PROVE r.path = r.was /\ CleanRef(r)
    <3>1. PICK i \in 1..n : r = Res(paths[i])
      BY <2>3
    <3>2. paths[i] \in Path /\ paths[i][1] \notin Drives \cup {"addons"}
      BY <1>2, <2>1 DEF InPlace
    <3> QED BY <3>1, <3>2, ResClean
  <2>8. Follows(package, package')
    <3>1. ASSUME NEW p \in TextFiles(package'), NEW r \in RefsOf(package'[p])
          PROVE  \/ p \in TextFiles(package) /\ r \in RefsOf(package[p])
                 \/ r.path = r.was /\ CleanRef(r)
      BY <2>5, <2>7, <3>1 DEF TextFiles
    <3>2. ASSUME NEW p \in DOMAIN package, Len(p) > 1 PROVE p \in DOMAIN package' /\ package'[p].is = package[p].is
      <4>1. Len(Entry) = 1 /\ ~(1 > 1)
        BY OwnPaths
      <4>2. p # Entry
        BY <3>2, <4>1, Zenon
      <4> QED BY <2>5, <4>2
    <3> QED BY <3>1, <3>2 DEF Follows
  <2>9. FilesOK'
    <3>1. todo' \subseteq DOMAIN package' /\ phase' \in DOMAIN Then
      BY <1>1, <1>2, <2>2, <2>5, PhasesAre DEF FilesOK
    <3> QED BY <1>1, <1>2, <2>2, <2>5, <3>1 DEF FilesOK
  <2> QED BY <1>1, <2>2, <2>5, <2>6, <2>8, <2>9, FixerFollows DEF Repairing
<1> QED BY <1>3, <1>4

\* Occluders and WarmUp: the package stays, or a file of the top is wired in.
LEMMA WiredKeeps ==
    ASSUME FixerInv, phase \in {"occluders", "warmup"}, phase' \in {"merge", "judge", "refused"}, Fixed,
           \/ UNCHANGED package
           \/ \E name \in Name, file \in File :
                /\ <<name>> # Entry /\ name \notin Drives \cup {"addons"} /\ file.refs = <<>>
                /\ package' = Wired(package, <<name>>, file)
    PROVE  FixerInv'
<1>1. FilesOK /\ IsPackage(package) /\ HasEntry(package) /\ todo = {}
  BY DEF FixerInv, FilesOK, Written
<1>2. IsPackage(package') /\ HasEntry(package') /\ Follows(package, package')
  <2>1. CASE UNCHANGED package
    BY <1>1, <2>1, FollowsItself
  <2>2. CASE \E name \in Name, file \in File :
                /\ <<name>> # Entry /\ name \notin Drives \cup {"addons"} /\ file.refs = <<>>
                /\ package' = Wired(package, <<name>>, file)
    <3>1. PICK name \in Name, file \in File :
                /\ <<name>> # Entry /\ name \notin Drives \cup {"addons"} /\ file.refs = <<>>
                /\ package' = Wired(package, <<name>>, file)
      BY <2>2
    <3>2. <<name>> \in Path
      BY PathsAre
    <3>3. IsPackage(package') /\ HasEntry(package')
      <4>1. HasWired(package, <<name>>, file, package')
        BY <1>1, <3>1, <3>2, WiredIs
      <4> QED BY <4>1 DEF HasWired
    <3>4. Follows(package, package')
      BY <1>1, <3>1, WiredFollows
    <3> QED BY <3>3, <3>4
  <2> QED BY <2>1, <2>2
<1>3. FilesOK'
  BY <1>1, <1>2, PhasesAre DEF FilesOK, Fixed
<1> QED BY <1>1, <1>2, <1>3, FixerFollows DEF Fixed, Repairing

\* A scene of nothing.
LEMMA BareScene == Scene("occluders", <<>>) \in File /\ Scene("occluders", <<>>).refs = <<>>
<1> DEFINE file == Scene("occluders", <<>>)
<1>1. file = [is |-> "occluders", type |-> "scene", refs |-> <<>>]
  <2>1. DOMAIN <<>> = {}
    OBVIOUS
  <2> DEFINE refs == [i \in DOMAIN <<>> |-> Res(<<>>[i])]
  <2>2. refs = <<>>
    <3>1. refs \in Seq(Ref) /\ Len(refs) = 0
      BY <2>1
    <3> QED BY <3>1
  <2>3. file = [is |-> "occluders", type |-> "scene", refs |-> refs]
    BY DEF Scene
  <2> HIDE DEF refs, file
  <2> QED BY <2>2, <2>3
<1>2. file \in File /\ file.refs = <<>>
  <2>1. [is |-> "occluders", type |-> "scene", refs |-> <<>>] \in File
    <3>1. "occluders" \in Name
      BY NamesAssumption
    <3> QED BY <3>1 DEF File
  <2> QED BY <1>1, <2>1
<1> QED BY <1>2

LEMMA FixerMeasures ==
    ASSUME FixerInv, Occluders \/ WarmUp
    PROVE  FixerInv'
<1>1. "occluders.tscn" \in Name /\ "warmup.gd" \in Name /\ "occluders" \in Name /\ "warmup" \in Name
  BY NamesAssumption DEF OfTheTop
<1>2. "occluders.tscn" \notin Drives \cup {"addons"} /\ "warmup.gd" \notin Drives \cup {"addons"}
  BY DrivesAssumption DEF OfTheTop
<1>3. <<"occluders.tscn">> # Entry /\ <<"warmup.gd">> # Entry
  BY DEF Entry
<1>4. CASE Occluders
  <2> DEFINE file == Scene("occluders", <<>>)
  <2>2. file \in File /\ file.refs = <<>>
    BY BareScene
  <2> HIDE DEF file
  <2>3. phase = "occluders" /\ phase' \in {"merge", "refused"} /\ Fixed
        /\ (UNCHANGED package \/ package' = Wired(package, <<"occluders.tscn">>, file))
    BY <1>4, PhasesAre DEF Occluders, Refuse, file
  <2> QED BY <1>1, <1>2, <1>3, <2>2, <2>3, WiredKeeps
<1>5. CASE WarmUp
  <2> DEFINE file == [is |-> "warmup", type |-> "script", refs |-> <<>>]
  <2>1. file \in File /\ file.refs = <<>>
    BY <1>1 DEF File
  <2> HIDE DEF file
  <2>2. phase = "warmup" /\ phase' \in {"judge", "refused"} /\ Fixed
        /\ (UNCHANGED package \/ package' = Wired(package, <<"warmup.gd">>, file))
    BY <1>5, PhasesAre DEF WarmUp, Refuse, file
  <2> QED BY <1>1, <1>2, <1>3, <2>1, <2>2, WiredKeeps
<1> QED BY <1>4, <1>5

-----------------------------------------------------------------------------
(* The merge.                                                              *)

\* Where a building is: its scene is the third name of a path under lot/.
OfBuilding(p) == p \in Path /\ Len(p) = 3 /\ p[1] = "lot"

LEMMA MeshIs ==
    ASSUME NEW p, OfBuilding(p)
    PROVE  /\ Front(p) \in Path /\ Len(Front(p)) = 2 /\ Front(p)[1] = "lot" /\ Front(p)[2] = p[2]
           /\ Mesh(p) \in Path /\ Mesh(p)[1] = "lot" /\ Len(Mesh(p)) = 4 /\ Last(Mesh(p)) = "side.res"
<1>1. p \in Seq(Name) /\ Len(p) = 3 /\ p[1] = "lot"
  BY DEF OfBuilding, Path
<1>2. Front(p) = SubSeq(p, 1, 2)
  BY <1>1 DEF Front
<1>3. Front(p) \in Seq(Name) /\ Len(Front(p)) = 2 /\ Front(p)[1] = "lot" /\ Front(p)[2] = p[2]
  BY <1>1, <1>2
<1>4. Front(p) # <<>>
  BY <1>3
<1>5. Front(p) \in Path
  BY <1>3, <1>4 DEF Path
<1>6. <<"merged", "side.res">> \in Path /\ Len(<<"merged", "side.res">>) = 2
  BY PathsAre, NamesAssumption
<1>7. Last(<<"merged", "side.res">>) = "side.res"
  BY DEF Last
<1> HIDE DEF Front
<1>8. Mesh(p) \in Path /\ Mesh(p)[1] = Front(p)[1] /\ Len(Mesh(p)) = Len(Front(p)) + 2 /\ Last(Mesh(p)) = "side.res"
  <2> DEFINE q == <<"merged", "side.res">>
  <2>1. q \in Path /\ Len(q) = 2 /\ Last(q) = "side.res" /\ Mesh(p) = Front(p) \o q
    BY <1>6, <1>7 DEF Mesh
  <2> HIDE DEF q
  <2>2. /\ Front(p) \o q \in Path /\ Len(Front(p) \o q) = Len(Front(p)) + Len(q)
        /\ (Front(p) \o q)[1] = Front(p)[1] /\ Last(Front(p) \o q) = Last(q)
    <3>1. q \in Path
      BY <2>1
    <3> QED BY ONLY <1>5, <3>1, JoinedIs
  <2> QED BY <2>1, <2>2
<1> QED BY <1>3, <1>5, <1>8

LEMMA KitIs ==
    ASSUME NEW pkg, IsPackage(pkg), NEW root \in Path, NEW p \in Kit(pkg, root)
    PROVE  p \in DOMAIN pkg /\ pkg[p].type = "model" /\ p[1] = root[1]
<1> DEFINE q == <<"art", "zoo">>
<1>1. q \in Path
  BY PathsAre, NamesAssumption
<1>2. p \in DOMAIN pkg /\ pkg[p].type = "model" /\ Front(p) = root \o q /\ p \in Seq(Name) /\ Len(p) \in Nat
  BY DEF Kit, IsPackage, Path
<1> HIDE DEF q
<1>3. (root \o q)[1] = root[1] /\ Len(root \o q) \in Nat \ {0}
  <2>1. root \o q \in Path /\ (root \o q)[1] = root[1]
    BY ONLY <1>1, root \in Path, JoinedIs
  <2> QED BY <2>1, PathsAre
<1>4. Len(Front(p)) = Len(p) - 1 /\ (Len(p) > 1 => Front(p)[1] = p[1])
  <2>1. p \in Path
    BY <1>2 DEF IsPackage
  <2>2. Len(p) \in Nat \ {0} /\ Front(p) = SubSeq(p, 1, Len(p) - 1)
    BY <2>1, PathsAre DEF Front
  <2>3. p \in Seq(Name)
    BY <1>2
  <2> DEFINE n == Len(p) - 1
  <2>4. n \in Nat /\ n <= Len(p)
    BY <2>2
  <2> HIDE DEF n
  <2>5. Len(SubSeq(p, 1, n)) = n /\ (1 <= n => SubSeq(p, 1, n)[1] = p[1])
    BY <2>3, <2>4
  <2> QED BY <2>2, <2>4, <2>5 DEF n
<1> QED BY <1>2, <1>3, <1>4

\* The references of a folded scene.
FoldedRefs(pkg, p, modules) ==
    [i \in DOMAIN pkg[p].refs |->
        IF pkg[p].refs[i].kind = "res" /\ pkg[p].refs[i].path \in modules THEN Res(Mesh(p)) ELSE pkg[p].refs[i]]

LEMMA FoldedIs ==
    ASSUME NEW pkg, IsPackage(pkg), NEW p \in DOMAIN pkg, OfBuilding(p), Scanned(pkg[p]), NEW modules
    PROVE  LET new == [pkg[p] EXCEPT !.refs = FoldedRefs(pkg, p, modules)]
           IN  new \in File /\ Same(new, pkg[p]) /\ new.refs = FoldedRefs(pkg, p, modules)
<1> DEFINE refs == FoldedRefs(pkg, p, modules)
<1>1. pkg[p] \in File /\ pkg[p].refs \in Seq(Ref) /\ Res(Mesh(p)) \in Ref
  BY MeshIs, ResIs DEF IsPackage, File
<1>2. refs \in Seq(Ref)
  BY <1>1 DEF FoldedRefs
<1> HIDE DEF refs
<1>3. [pkg[p] EXCEPT !.refs = refs] \in File
  BY <1>1, <1>2, FileWith
<1>4. Same([pkg[p] EXCEPT !.refs = refs], pkg[p]) /\ [pkg[p] EXCEPT !.refs = refs].refs = refs
  BY <1>1 DEF Same, File
<1> QED BY <1>3, <1>4 DEF refs

\* What may be folded, and what is folded.
Foldable(pkg, scenes) ==
    IsPackage(pkg) /\ scenes \subseteq DOMAIN pkg /\ \A p \in scenes : OfBuilding(p) /\ Scanned(pkg[p])

Folds(pkg, scenes, modules, new) ==
    /\ IsPackage(new) /\ DOMAIN new = DOMAIN pkg \cup {Mesh(scene) : scene \in scenes}
    /\ \A p \in DOMAIN pkg : Same(new[p], pkg[p]) /\ (p \notin scenes => new[p] = pkg[p])
    /\ \A p \in scenes : new[p].refs = FoldedRefs(pkg, p, modules)
    /\ \A p \in DOMAIN new \ DOMAIN pkg : new[p].type = "model" /\ new[p].refs = <<>>

LEMMA MergedIs ==
    ASSUME NEW pkg, NEW scenes, NEW modules, Foldable(pkg, scenes)
    PROVE  Folds(pkg, scenes, modules, Merged(pkg, scenes, modules))
<1> USE DEF Foldable
<1> DEFINE paths == {Mesh(scene) : scene \in scenes}
           mesh == [is |-> "mesh", type |-> "model", refs |-> <<>>]
           meshes == [p \in paths |-> mesh]
           folded == [p \in DOMAIN pkg |->
                        IF p \in scenes THEN [pkg[p] EXCEPT !.refs = FoldedRefs(pkg, p, modules)] ELSE pkg[p]]
           new == Merged(pkg, scenes, modules)
<1>1. new = Over(folded, meshes)
  BY DEF Merged, FoldedRefs
<1>2. /\ IsPackage(folded) /\ DOMAIN folded = DOMAIN pkg
      /\ \A p \in DOMAIN pkg : Same(folded[p], pkg[p]) /\ (p \notin scenes => folded[p] = pkg[p])
      /\ \A p \in scenes : folded[p].refs = FoldedRefs(pkg, p, modules)
  <2>1. ASSUME NEW p \in scenes
        PROVE  /\ folded[p] \in File /\ Same(folded[p], pkg[p]) /\ folded[p].refs = FoldedRefs(pkg, p, modules)
    <3>1. p \in DOMAIN pkg /\ OfBuilding(p) /\ Scanned(pkg[p]) /\ folded[p] = [pkg[p] EXCEPT !.refs = FoldedRefs(pkg, p, modules)]
      BY <2>1
    <3> QED BY <3>1, FoldedIs
  <2>2. \A p \in DOMAIN pkg \ scenes : folded[p] = pkg[p] /\ Same(folded[p], pkg[p]) /\ folded[p] \in File
    BY DEF Same, IsPackage
  <2>3. DOMAIN folded = DOMAIN pkg /\ folded = [p \in DOMAIN folded |-> folded[p]]
    OBVIOUS
  <2> HIDE DEF folded
  <2> QED BY <2>1, <2>2, <2>3, Zenon DEF IsPackage
<1>3. IsPackage(meshes) /\ DOMAIN meshes = paths
  <2>1. IsFiniteSet(scenes)
    BY FS_Subset DEF IsPackage
  <2>2. IsFiniteSet(paths)
    <3> DEFINE f == [scene \in scenes |-> Mesh(scene)]
    <3>1. f \in Surjection(scenes, paths)
      <4>1. DOMAIN f = scenes /\ (\A x \in scenes : f[x] = Mesh(x)) /\ f = [x \in DOMAIN f |-> f[x]]
        OBVIOUS
      <4>2. \A t \in paths : \E x \in scenes : Mesh(x) = t
        OBVIOUS
      <4>3. \A x \in scenes : Mesh(x) \in paths
        OBVIOUS
      <4> HIDE DEF f, paths
      <4>4. f \in [scenes -> paths] /\ \A t \in paths : \E x \in scenes : f[x] = t
        BY <4>1, <4>2, <4>3
      <4> QED BY <4>4 DEF Surjection
    <3> HIDE DEF f, paths
    <3> QED BY <2>1, <3>1, FS_Surjection
  <2>3. paths \in SUBSET Path
    BY MeshIs
  <2>4. mesh \in File
    <3>1. "mesh" \in Name
      BY NamesAssumption
    <3>2. mesh \in [is : Name, type : {"scene", "script", "data", "opaque", "model", "record"}, refs : Seq(Ref)] /\ mesh.refs = <<>>
      BY <3>1
    <3> QED BY <3>2 DEF File
  <2>5. meshes = [p \in DOMAIN meshes |-> meshes[p]] /\ DOMAIN meshes = paths /\ \A p \in paths : meshes[p] = mesh
    OBVIOUS
  <2> HIDE DEF meshes, paths, mesh
  <2> QED BY <2>2, <2>3, <2>4, <2>5, Zenon DEF IsPackage
<1>4. \A p \in paths : meshes[p].type = "model" /\ meshes[p].refs = <<>>
  OBVIOUS
<1> HIDE DEF folded, meshes
<1>5. /\ IsPackage(new) /\ DOMAIN new = DOMAIN pkg \cup paths
      /\ \A p \in DOMAIN pkg : new[p] = folded[p]
      /\ \A p \in paths \ DOMAIN pkg : new[p] = meshes[p]
  <2> HIDE DEF new, paths
  <2>1. /\ IsPackage(Over(folded, meshes)) /\ DOMAIN Over(folded, meshes) = DOMAIN folded \cup DOMAIN meshes
        /\ \A p \in DOMAIN folded : Over(folded, meshes)[p] = folded[p]
        /\ \A p \in DOMAIN meshes \ DOMAIN folded : Over(folded, meshes)[p] = meshes[p]
    BY ONLY <1>2, <1>3, OverIs
  <2> QED BY <1>1, <1>2, <1>3, <2>1
<1> HIDE DEF new, paths
<1> QED BY <1>2, <1>4, <1>5 DEF new, paths, Folds

\* The buildings of which something is folded.
LEMMA ScenesAre ==
    ASSUME IsPackage(package), NEW modules
    PROVE  LET scenes == {p \in Buildings : Resources(package[p]) \cap modules # {}}
           IN  scenes \in SUBSET DOMAIN package /\ \A p \in scenes : OfBuilding(p) /\ Scanned(package[p])
<1> DEFINE scenes == {p \in Buildings : Resources(package[p]) \cap modules # {}}
<1>1. ASSUME NEW p \in scenes PROVE p \in DOMAIN package /\ OfBuilding(p) /\ Scanned(package[p])
  <2>1. p \in DOMAIN package /\ Len(p) = 3 /\ p[1] = "lot" /\ p \in Path /\ package[p] \in File
    BY <1>1, SomeFile DEF Buildings
  <2>2. RefsOf(package[p]) # {}
    BY <1>1 DEF Resources
  <2>3. package[p].refs # <<>>
    BY <2>2 DEF RefsOf, Range
  <2>4. Scanned(package[p])
    BY <2>1, <2>3 DEF File, Scanned, Text
  <2> QED BY <2>1, <2>4 DEF OfBuilding
<1> QED BY <1>1

\* What a merge leaves, and what goes.
LEMMA ThinnedIs ==
    ASSUME IsPackage(package), HasEntry(package), NEW modules, NEW scenes, NEW pkg, NEW gone,
           scenes = {p \in Buildings : Resources(package[p]) \cap modules # {}},
           pkg = Merged(package, scenes, modules),
           gone = UNION {Unnamed(pkg, Front(scene)) : scene \in scenes},
           package' = Without(pkg, gone)
    PROVE  /\ IsPackage(pkg) /\ IsPackage(package') /\ DOMAIN package' = DOMAIN pkg \ gone
           /\ \A p \in DOMAIN package' : package'[p] = pkg[p]
           /\ \A p \in gone : p[1] = "lot" /\ pkg[p].type = "model"
           /\ HasEntry(package') /\ Follows(package, package')
<1>1. scenes \in SUBSET DOMAIN package /\ \A p \in scenes : OfBuilding(p) /\ Scanned(package[p])
  BY ScenesAre
<1>2. /\ IsPackage(pkg) /\ DOMAIN pkg = DOMAIN package \cup {Mesh(scene) : scene \in scenes}
      /\ \A p \in DOMAIN package : Same(pkg[p], package[p]) /\ (p \notin scenes => pkg[p] = package[p])
      /\ \A p \in scenes : pkg[p].refs = FoldedRefs(package, p, modules)
      /\ \A p \in DOMAIN pkg \ DOMAIN package : pkg[p].type = "model" /\ pkg[p].refs = <<>>
  <2>1. Foldable(package, scenes)
    BY <1>1 DEF Foldable
  <2>2. Folds(package, scenes, modules, pkg)
    BY <2>1, MergedIs
  <2> QED BY <2>2 DEF Folds
<1>3. IsPackage(package') /\ DOMAIN package' = DOMAIN pkg \ gone /\ \A p \in DOMAIN package' : package'[p] = pkg[p]
  <2>1. /\ IsPackage(Without(pkg, gone)) /\ DOMAIN Without(pkg, gone) = DOMAIN pkg \ gone
        /\ \A p \in DOMAIN pkg \ gone : Without(pkg, gone)[p] = pkg[p]
    BY ONLY <1>2, WithoutIs
  <2> QED BY <2>1
<1>4. ASSUME NEW p \in gone PROVE p[1] = "lot" /\ pkg[p].type = "model"
  <2>1. PICK scene \in scenes : p \in Unnamed(pkg, Front(scene))
    BY <1>4
  <2>2. p \in Kit(pkg, Front(scene))
    BY <2>1 DEF Unnamed
  <2>3. Front(scene) \in Path /\ Len(Front(scene)) = 2 /\ Front(scene)[1] = "lot"
    BY <1>1, <2>1, MeshIs
  <2>4. pkg[p].type = "model" /\ p[1] = Front(scene)[1]
    <3>1. IsPackage(pkg) /\ Front(scene) \in Path
      BY <1>2, <2>3
    <3> QED BY ONLY <2>2, <3>1, KitIs
  <2> QED BY <2>3, <2>4
<1>5. HasEntry(package')
  <2>1. Entry \in DOMAIN pkg /\ pkg[Entry].type = "scene"
    BY <1>2 DEF HasEntry, Same
  <2>2. Entry \notin gone
    BY <1>4, <2>1
  <2> QED BY <1>3, <2>1, <2>2 DEF HasEntry
<1>6. ASSUME NEW p \in TextFiles(package'), NEW r \in RefsOf(package'[p])
      PROVE  \/ p \in TextFiles(package) /\ r \in RefsOf(package[p])
             \/ r.path = r.was /\ CleanRef(r)
  <2>1. p \in DOMAIN pkg /\ Text(pkg[p]) /\ r \in RefsOf(pkg[p])
    BY <1>3, <1>6 DEF TextFiles
  <2>2. p \in DOMAIN package
    BY <1>2, <2>1 DEF Text
  <2>3. CASE p \notin scenes
    BY <1>2, <2>1, <2>2, <2>3 DEF TextFiles
  <2>4. CASE p \in scenes
    <3>1. Text(package[p])
      BY <1>2, <2>1, <2>2 DEF Same, Text
    <3>2. r \in RefsOf(package[p]) \/ r = Res(Mesh(p))
      <4>1. PICK i \in DOMAIN pkg[p].refs : r = pkg[p].refs[i]
        BY <2>1 DEF RefsOf, Range
      <4>2. i \in DOMAIN package[p].refs /\ r = FoldedRefs(package, p, modules)[i]
        BY <1>2, <2>4, <4>1 DEF FoldedRefs
      <4>3. r = package[p].refs[i] \/ r = Res(Mesh(p))
        BY <4>2 DEF FoldedRefs
      <4> QED BY <4>2, <4>3 DEF RefsOf, Range
    <3>3. Mesh(p) \in Path /\ Mesh(p)[1] = "lot"
      BY <1>1, <2>4, MeshIs
    <3>4. "lot" \notin Drives \cup {"addons"}
      BY DrivesAssumption DEF OfTheTop
    <3> QED BY <2>2, <3>1, <3>2, <3>3, <3>4, ResClean DEF TextFiles
  <2> QED BY <2>3, <2>4
<1>7. ASSUME NEW p \in DOMAIN package, p[1] \in {"assets", "runtime"}
      PROVE  p \in DOMAIN package' /\ package'[p].is = package[p].is
  BY <1>2, <1>3, <1>4, <1>7 DEF Same
<1>8. Follows(package, package')
  BY <1>6, <1>7 DEF Follows
<1> QED BY <1>2, <1>3, <1>4, <1>5, <1>8

LEMMA FixerMerges ==
    ASSUME FixerInv, MergeModules
    PROVE  FixerInv'
<1>1. phase = "merge" /\ phase' \in {"warmup", "refused"} /\ Fixed
  BY PhasesAre DEF MergeModules, Refuse
<1>2. FilesOK /\ IsPackage(package) /\ HasEntry(package) /\ todo = {}
  BY <1>1 DEF FixerInv, FilesOK, Written
<1>3. IsPackage(package') /\ HasEntry(package') /\ Follows(package, package')
  <2>1. CASE UNCHANGED package
    BY <1>2, <2>1, FollowsItself
  <2>2. CASE ~UNCHANGED package
    <3>1. PICK modules \in SUBSET UNION {Kit(package, Front(scene)) : scene \in Buildings} :
                LET scenes == {p \in Buildings : Resources(package[p]) \cap modules # {}}
                    pkg    == Merged(package, scenes, modules)
                IN  package' = Without(pkg, UNION {Unnamed(pkg, Front(scene)) : scene \in scenes})
      BY <2>2 DEF MergeModules, Refuse
    <3> DEFINE scenes == {p \in Buildings : Resources(package[p]) \cap modules # {}}
               pkg    == Merged(package, scenes, modules)
               gone   == UNION {Unnamed(pkg, Front(scene)) : scene \in scenes}
    <3>2. package' = Without(pkg, gone)
      BY <3>1
    <3> HIDE DEF gone, pkg, scenes
    <3> QED BY <1>2, <3>2, ThinnedIs DEF gone, pkg, scenes
  <2> QED BY <2>1, <2>2
<1>4. FilesOK'
  BY <1>1, <1>2, <1>3, PhasesAre DEF FilesOK, Fixed
<1> QED BY <1>1, <1>3, <1>4, FixerFollows DEF Fixed, Repairing

-----------------------------------------------------------------------------
(* The verdict and what follows it.                                        *)

LEMMA RecordedIs ==
    ASSUME NEW pkg, IsPackage(pkg), NEW names \in SUBSET Name, IsFiniteSet(names)
    PROVE  LET new == Recorded(pkg, names)
           IN  /\ IsPackage(new) /\ DOMAIN new = DOMAIN pkg \cup {<<name>> : name \in names}
               /\ \A p \in DOMAIN pkg : new[p] = pkg[p]
               /\ \A p \in DOMAIN new \ DOMAIN pkg : new[p].type = "record" /\ new[p].refs = <<>>
               /\ HasEntry(pkg) => HasEntry(new)
               /\ Follows(pkg, new)
<1> DEFINE paths == {<<name>> : name \in names}
           records == [p \in paths |-> [is |-> p[1], type |-> "record", refs |-> <<>>]]
           new == Recorded(pkg, names)
<1>1. new = Over(pkg, records)
  BY DEF Recorded
<1>2. paths \in SUBSET Path /\ IsFiniteSet(paths)
  <2>1. paths \in SUBSET Path
    BY PathsAre
  <2> DEFINE f == [name \in names |-> <<name>>]
  <2>2. f \in Surjection(names, paths)
    BY DEF Surjection
  <2> HIDE DEF f, paths
  <2> QED BY <2>1, <2>2, FS_Surjection
<1>3. \A p \in paths : records[p].type = "record" /\ records[p].refs = <<>>
  OBVIOUS
<1>4. IsPackage(records) /\ DOMAIN records = paths
  <2>1. ASSUME NEW p \in paths PROVE records[p] \in File
    <3>1. p \in Path /\ p[1] \in Name
      BY <1>2, PathsAre
    <3>2. records[p] = [is |-> p[1], type |-> "record", refs |-> <<>>]
      BY <2>1
    <3> HIDE DEF records, paths
    <3>3. records[p] \in [is : Name, type : {"scene", "script", "data", "opaque", "model", "record"}, refs : Seq(Ref)]
          /\ records[p].refs = <<>>
      BY <3>1, <3>2
    <3> QED BY <3>3 DEF File
  <2>2. DOMAIN records = paths /\ records = [p \in DOMAIN records |-> records[p]]
    OBVIOUS
  <2> HIDE DEF records, paths
  <2> QED BY <1>2, <2>1, <2>2, Zenon DEF IsPackage
<1> HIDE DEF records
<1>5. /\ IsPackage(new) /\ DOMAIN new = DOMAIN pkg \cup paths
      /\ \A p \in DOMAIN pkg : new[p] = pkg[p]
      /\ \A p \in paths \ DOMAIN pkg : new[p] = records[p]
  <2> HIDE DEF new, paths
  <2>1. /\ IsPackage(Over(pkg, records)) /\ DOMAIN Over(pkg, records) = DOMAIN pkg \cup DOMAIN records
        /\ \A p \in DOMAIN pkg : Over(pkg, records)[p] = pkg[p]
        /\ \A p \in DOMAIN records \ DOMAIN pkg : Over(pkg, records)[p] = records[p]
    BY ONLY <1>4, IsPackage(pkg), OverIs
  <2> QED BY <1>1, <1>4, <2>1
<1> HIDE DEF new
<1>6. \A p \in DOMAIN new \ DOMAIN pkg : new[p].type = "record" /\ new[p].refs = <<>>
  <2> HIDE DEF paths
  <2> QED BY <1>3, <1>5
<1>7. HasEntry(pkg) => HasEntry(new)
  BY <1>5 DEF HasEntry
<1>8. Follows(pkg, new)
  BY <1>5, <1>6 DEF Follows, TextFiles, Text
<1> QED BY <1>5, <1>6, <1>7, <1>8 DEF new

LEMMA ThreeNames ==
    \A a, b, c : IsFiniteSet({a}) /\ IsFiniteSet({a, b}) /\ IsFiniteSet({a, b, c})
<1> TAKE a, b, c
<1>1. IsFiniteSet({a}) /\ IsFiniteSet({b}) /\ IsFiniteSet({c})
  BY FS_Singleton
<1>2. IsFiniteSet({a} \cup {b}) /\ {a} \cup {b} = {a, b}
  BY <1>1, FS_Union
<1>3. IsFiniteSet({a, b} \cup {c}) /\ {a, b} \cup {c} = {a, b, c}
  BY <1>1, <1>2, FS_Union
<1> QED BY <1>1, <1>2, <1>3

\* What Judge and Describe write.
FirstRecord == {"export_closure_scan.json"}
MoreRecords == {"LICENSES.json", "export_profile.json", "output_layers.json"}
LastRecords == {"portable_resource_manifest.json", "LF_MANIFEST.json"}

LEMMA RecordsAre ==
    \A names \in {FirstRecord, MoreRecords, LastRecords} : names \in SUBSET Name /\ IsFiniteSet(names)
<1>1. IsFiniteSet(FirstRecord) /\ IsFiniteSet(MoreRecords) /\ IsFiniteSet(LastRecords)
  BY ThreeNames DEF FirstRecord, MoreRecords, LastRecords
<1>2. OfTheTop \subseteq Name
  BY NamesAssumption
<1>3. FirstRecord \subseteq Name /\ MoreRecords \subseteq Name /\ LastRecords \subseteq Name
  BY <1>2 DEF OfTheTop, FirstRecord, MoreRecords, LastRecords
<1> QED BY <1>1, <1>3

\* Adding records keeps what a package has.
Extends(pkg, new) ==
    /\ IsPackage(new) /\ DOMAIN pkg \subseteq DOMAIN new
    /\ \A p \in DOMAIN pkg : new[p] = pkg[p]
    /\ \A p \in DOMAIN new \ DOMAIN pkg : new[p].type = "record" /\ new[p].refs = <<>>

LEMMA RecordsExtend ==
    ASSUME NEW pkg, IsPackage(pkg), NEW names \in {FirstRecord, MoreRecords, LastRecords}
    PROVE  Extends(pkg, Recorded(pkg, names))
<1>1. names \in SUBSET Name /\ IsFiniteSet(names)
  BY RecordsAre
<1> DEFINE new == Recorded(pkg, names)
<1>2. /\ IsPackage(new) /\ DOMAIN new = DOMAIN pkg \cup {<<name>> : name \in names}
      /\ \A p \in DOMAIN pkg : new[p] = pkg[p]
      /\ \A p \in DOMAIN new \ DOMAIN pkg : new[p].type = "record" /\ new[p].refs = <<>>
  BY <1>1, RecordedIs
<1> HIDE DEF new
<1> QED BY <1>2 DEF Extends, new

LEMMA ExtendsFollows ==
    ASSUME NEW pkg, NEW new, Extends(pkg, new)
    PROVE  Follows(pkg, new) /\ (HasEntry(pkg) => HasEntry(new))
<1>1. Follows(pkg, new)
  BY DEF Extends, Follows, TextFiles, Text
<1>2. HasEntry(pkg) => HasEntry(new)
  BY DEF Extends, HasEntry
<1> QED BY <1>1, <1>2

LEMMA DescribedIs ==
    ASSUME FixerInv, Describe
    PROVE  /\ phase = "describe" /\ phase' = "guard" /\ Extends(package, package')
           /\ listed' \subseteq DOMAIN package'
           /\ UNCHANGED <<given, todo, changed, passes, unresolved, judged, closed>>
<1> DEFINE described == Recorded(package, MoreRecords)
<1>1. IsPackage(package)
  BY DEF FixerInv, FilesOK
<1>2. listed' = DOMAIN described /\ package' = Recorded(described, LastRecords)
  BY DEF Describe, MoreRecords, LastRecords
<1>3. Extends(package, described)
  BY <1>1, RecordsExtend
<1> HIDE DEF described
<1>4. Extends(described, package')
  BY <1>2, <1>3, RecordsExtend DEF Extends
<1>5. Extends(package, package') /\ listed' \subseteq DOMAIN package'
  BY <1>2, <1>3, <1>4 DEF Extends
<1> QED BY <1>5, PhasesAre DEF Describe

LEMMA FixerDescribes ==
    ASSUME FixerInv, Judge \/ Describe \/ Guard
    PROVE  FixerInv'
<1>1. FilesOK /\ IsPackage(package) /\ HasEntry(package) /\ todo = {} /\ phase \notin Repairing
  BY PhasesAre DEF FixerInv, FilesOK, Written, Repairing, Judge, Describe, Guard
<1>2. CASE Judge
  <2>1. /\ phase = "judge" /\ phase' \in {"describe", "refused"} /\ judged' = package
        /\ package' = Recorded(package, FirstRecord)
        /\ UNCHANGED <<given, todo, changed, passes, unresolved, listed, closed>>
    BY <1>2, PhasesAre DEF Judge, FirstRecord
  <2>2. Extends(package, package')
    BY <1>1, <2>1, RecordsExtend
  <2>3. IsPackage(package') /\ Follows(package, package') /\ HasEntry(package')
    BY <1>1, <2>2, ExtendsFollows DEF Extends
  <2>4. FilesOK'
    BY <1>1, <2>1, <2>3, PhasesAre DEF FilesOK
  <2> QED BY <1>1, <2>1, <2>3, <2>4, FixerFollows DEF Repairing
<1>3. CASE Describe
  <2>1. /\ phase = "describe" /\ phase' = "guard" /\ Extends(package, package')
        /\ listed' \subseteq DOMAIN package'
        /\ UNCHANGED <<given, todo, changed, passes, unresolved, judged, closed>>
    BY <1>3, DescribedIs
  <2>2. IsPackage(package') /\ Follows(package, package') /\ HasEntry(package')
    BY <1>1, <2>1, ExtendsFollows DEF Extends
  <2>3. FilesOK'
    <3>1. listed' \subseteq Path
      BY <2>1, <2>2 DEF IsPackage
    <3> QED BY <1>1, <2>1, <2>2, <3>1 DEF FilesOK
  <2> QED BY <1>1, <2>1, <2>2, <2>3, FixerFollows DEF Repairing
<1>4. CASE Guard
  <2>1. phase = "guard" /\ phase' \in {"shipped", "refused"} /\ UNCHANGED package /\ Fixed
    BY <1>4 DEF Guard
  <2>2. IsPackage(package') /\ Follows(package, package') /\ HasEntry(package')
    BY <1>1, <2>1, FollowsItself
  <2>3. FilesOK'
    BY <1>1, <2>1 DEF FilesOK, Fixed
  <2> QED BY <1>1, <2>1, <2>2, <2>3, FixerFollows DEF Repairing, Fixed
<1> QED BY <1>2, <1>3, <1>4

-----------------------------------------------------------------------------
(* The theorems about the fixer.                                           *)

\* The directories: while the references are repaired none is of the top.
Early == Repairing \cup {"reroot", "bare", "entry"}
FoldersInv ==
    /\ folders \subseteq Path /\ Folders(package) \subseteq folders
    /\ phase \in Early => InPlaceFolders

FolderedInv == FixerInv /\ FoldersInv

LEMMA FoldersAre ==
    ASSUME NEW pkg, IsPackage(pkg)
    PROVE  /\ Folders(pkg) \subseteq Path
           /\ InPlace(pkg) => \A d \in Folders(pkg) : d[1] \notin Drives \cup {"addons"} /\ Below(d) \cap Reserved = {}
<1>1. SUFFICES ASSUME NEW p \in DOMAIN pkg, NEW d \in Above(p)
               PROVE  /\ d \in Path
                      /\ InPlace(pkg) => d[1] \notin Drives \cup {"addons"} /\ Below(d) \cap Reserved = {}
  BY DEF Folders
<1>2. p \in Path /\ d \in Path /\ d[1] = p[1]
  BY AboveIs DEF IsPackage
<1>3. Below(d) \subseteq Below(p)
  <2>1. PICK n \in 1..(Len(p) - 1) : d = SubSeq(p, 1, n)
    BY DEF Above
  <2>2. p \in Seq(Name) /\ Len(p) \in Nat
    BY <1>2 DEF Path
  <2>3. Len(d) = n /\ \A i \in 1..n : d[i] = p[i]
    BY <2>1, <2>2
  <2>4. \A i \in 2..n : i \in 1..n /\ i \in 2..Len(p)
    BY <2>2
  <2> QED BY <2>3, <2>4 DEF Below
<1> QED BY <1>2, <1>3 DEF InPlace

LEMMA EarlyFirst ==
    ASSUME Next, phase \notin Early
    PROVE  phase' \notin Early
<1> USE PhasesAre DEF Early, Repairing
<1>1. CASE Strip
  BY <1>1 DEF Strip, StripWalk, StripQaHarness, StripChrome
<1>2. CASE Repair
  BY <1>2 DEF Repair, ScrubData, RewriteFile, EndPass, Reroot, RepairBare
<1>3. CASE Build
  BY <1>3 DEF Build, WriteEntry, Occluders, MergeModules, WarmUp, Refuse
<1>4. CASE Judge \/ Describe \/ Guard
  BY <1>4 DEF Judge, Describe, Guard
<1> QED BY <1>1, <1>2, <1>3, <1>4 DEF Next

LEMMA FoldersKept ==
    ASSUME FolderedInv, Next, FixerInv'
    PROVE  FoldersInv'
<1>1. IsPackage(package') /\ folders' = folders \cup Folders(package') /\ folders \subseteq Path
  BY DEF FolderedInv, FixerInv, FilesOK, FoldersInv, Next
<1>2. folders' \subseteq Path /\ Folders(package') \subseteq folders'
  BY <1>1, FoldersAre
<1>3. ASSUME phase' \in Early PROVE InPlaceFolders'
  <2>1. InPlaceFolders
    BY <1>3, EarlyFirst DEF FolderedInv, FoldersInv
  <2>2. InPlace(package')
    BY <1>3 DEF FixerInv, Early, InPlace
  <2>3. \A d \in Folders(package') : d[1] \notin Drives \cup {"addons"} /\ Below(d) \cap Reserved = {}
    BY <1>1, <2>2, FoldersAre
  <2> QED BY <1>1, <1>2, <2>1, <2>3 DEF InPlaceFolders
<1>4. Folders(package)' = Folders(package')
  BY DEF Folders
<1> QED BY <1>2, <1>3, <1>4 DEF FoldersInv

LEMMA FolderedStart == Init => FolderedInv
<1> SUFFICES ASSUME Init PROVE FolderedInv
  OBVIOUS
<1>1. FixerInv
  BY FixerStart
<1>2. IsPackage(package) /\ folders = Folders(package) /\ phase = "walk"
  BY <1>1 DEF FixerInv, FilesOK, Init
<1>3. InPlace(package)
  BY <1>1, <1>2 DEF FixerInv, Repairing
<1>4. folders \subseteq Path /\ InPlaceFolders
  BY <1>2, <1>3, FoldersAre DEF InPlaceFolders
<1> QED BY <1>1, <1>2, <1>4 DEF FolderedInv, FoldersInv

\* The invariant holds in every state.
LEMMA FolderedHolds == Spec => []FolderedInv
<1>1. FolderedInv /\ [Next]_vars => FolderedInv'
  <2>1. ASSUME FolderedInv, Next PROVE FolderedInv'
    <3>0. FixerInv
      BY <2>1 DEF FolderedInv
    <3>1. FixerInv'
      <4>1. CASE Strip
        BY <3>0, <4>1, FixerStrips
      <4>2. CASE Reroot
        <5>1. phase = "reroot"
          BY <4>2 DEF Reroot
        <5>2. InPlaceFolders
          BY <2>1, <5>1 DEF FolderedInv, FoldersInv, Early
        <5> QED BY <3>0, <4>2, <5>2, FixerReroots
      <4>3. CASE ScrubData \/ (\E p \in todo : RewriteFile(p)) \/ EndPass \/ RepairBare
        BY <3>0, <4>3, FixerScrubs, FixerRewrites, FixerEndsPass, FixerRepairsBare
      <4>4. CASE Build
        BY <3>0, <4>4, FixerWritesEntry, FixerMeasures, FixerMerges DEF Build
      <4>5. CASE Judge \/ Describe \/ Guard
        BY <3>0, <4>5, FixerDescribes
      <4> QED BY <2>1, <4>1, <4>2, <4>3, <4>4, <4>5 DEF Next, Repair
    <3> QED BY <2>1, <3>1, FoldersKept DEF FolderedInv
  <2>2. ASSUME FolderedInv, UNCHANGED vars PROVE FolderedInv'
    BY <2>2 DEF vars, FolderedInv, FixerInv, FilesOK, InPlace, Genuine, Untouched, HonestTexts, Honest, Clean,
                TextFiles, Shown, Reported, HasEntry, Meant, IsFile, OfAddon, Absolute, Copies, HashedOf, Runtime,
                Entry, FoldersInv, Folders, InPlaceFolders
  <2> QED BY <2>1, <2>2
<1> QED BY <1>1, FolderedStart, PTL DEF Spec

LEMMA FixerHolds == Spec => []FixerInv
<1>1. FolderedInv => FixerInv
  BY DEF FolderedInv
<1> QED BY <1>1, FolderedHolds, PTL

\* The package, its directories, the verdict's package and the fixer's record are always
\* what they are meant to be: finite maps from paths to files whose references are paths.
THEOREM LocalizeKeepsType == Spec => []TypeOK
<1>1. FolderedInv => TypeOK
  BY DEF FolderedInv, FixerInv, FilesOK, FoldersInv, TypeOK
<1> QED BY <1>1, FolderedHolds, PTL

\* localize_export's report: with nothing unresolved and passes to spare, or a last pass
\* that changed nothing, no shipped text names an absolute path or an addon.
THEOREM ReportIsHonest == Spec => []CleanReportIsClean
<1>1. FixerInv => CleanReportIsClean
  <2> SUFFICES ASSUME FixerInv, phase \notin Repairing, unresolved = {}, passes < MaxPasses \/ ~changed,
                      NEW p \in TextFiles(package), NEW path \in Resources(package[p])
               PROVE  ~SeenByFixer(path) /\ ~OfAddon(path)
    BY DEF CleanReportIsClean
  <2>1. PICK r \in RefsOf(package[p]) : r.kind = "res" /\ r.path = path
    BY DEF Resources
  <2> QED BY <2>1 DEF FixerInv, Reported, Clean, CleanText, CleanRef
<1> QED BY <1>1, FixerHolds, PTL

\* _rewrite_text and what follows it: a repaired reference is of a copy of the very file
\* its tool named, through rerooting, the merge and the thinning.
THEOREM FilesAreKept == Spec => []KeepsItsFile
<1>1. FixerInv => KeepsItsFile
  BY DEF FixerInv, KeepsItsFile, Shown
<1> QED BY <1>1, FixerHolds, PTL

-----------------------------------------------------------------------------
(* What is whole stays whole.                                              *)

LEMMA BesideIs ==
    ASSUME NEW q \in Path, NEW path \in Path
    PROVE  Last(Front(q) \o path) = Last(path)
<1>1. q \in Seq(Name) /\ path \in Seq(Name) /\ Len(q) \in Nat \ {0} /\ Len(path) \in Nat \ {0}
  BY PathsAre DEF Path
<1> DEFINE n == Len(q) - 1
           a == SubSeq(q, 1, n)
<1>2. n \in Nat /\ n <= Len(q)
  BY <1>1
<1> HIDE DEF n
<1>3. a \in Seq(Name) /\ Len(a) = n /\ Front(q) = a
  <2>1. Front(q) = a
    BY DEF Front, n
  <2>2. a \in Seq(Name) /\ Len(a) = n
    BY <1>1, <1>2
  <2> QED BY <2>1, <2>2
<1> HIDE DEF a
<1>4. Len(a \o path) = n + Len(path) /\ (a \o path)[n + Len(path)] = path[Len(path)]
  BY <1>1, <1>2, <1>3
<1> QED BY <1>1, <1>3, <1>4 DEF Last

\* From the root of the package a path is asked as it is.
LEMMA AtTheRoot ==
    ASSUME NEW pkg, NEW path \in Path
    PROVE  There(pkg, <<>>, path) = IF path[1] \in Drives THEN path \in DOMAIN given.disk ELSE Exists(pkg, path)
<1>1. <<>> \o path = path
  BY DEF Path
<1> QED BY <1>1, PathsAre DEF There, Absolute

\* What a step may do to what the references name: they are those there were, or name
\* what is there now, and nothing goes that one of them mentions.
MayThin(old, new) ==
    /\ \A q \in DOMAIN new : \A r \in RefsOf(new[q]) :
          \/ q \in DOMAIN old /\ r \in RefsOf(old[q])
          \/ r.kind = "res" /\ r.path \in DOMAIN new /\ r.path[1] \notin Drives
    /\ \A path \in DOMAIN old \ DOMAIN new : \A q \in DOMAIN new : ~Mentions(new[q], Last(path))

LEMMA OpenKept ==
    ASSUME IsPackage(package), IsPackage(package'), folders \subseteq folders', given' = given,
           MayThin(package, package'), Open(package) = {}
    PROVE  Open(package)' = {}
<1> SUFFICES ASSUME NEW q \in DOMAIN package', NEW r \in RefsOf(package'[q]) PROVE Resolves(package, q, r)'
  BY DEF Open
<1>1. CASE r.kind = "res" /\ r.path \in DOMAIN package' /\ r.path[1] \notin Drives
  <2>1. r.path \in Path /\ Head(r.path) = r.path[1]
    BY <1>1, PathsAre DEF IsPackage
  <2>2. There(package', <<>>, r.path)
    BY <1>1, <2>1, AtTheRoot DEF Exists
  <2>3. There(package, <<>>, r.path)'
    BY <1>1, <2>1, <2>2 DEF There, Absolute, Exists
  <2>4. Head(r.path) \notin Quoted
    BY <1>1, <2>1, DrivesAssumption
  <2> QED BY <1>1, <2>3, <2>4 DEF Resolves
<1>2. CASE q \in DOMAIN package /\ r \in RefsOf(package[q])
  <2>1. Resolves(package, q, r)
    BY <1>2 DEF Open
  <2>2. q \in Path /\ r \in Ref /\ r.path \in Path
    <3>1. package[q] \in File /\ q \in Path
      BY <1>2, SomeFile
    <3>2. r \in Ref
      BY <1>2, <3>1 DEF File, RefsOf, Range
    <3> QED BY <3>1, <3>2 DEF Ref
  <2>3. ASSUME NEW path, Exists(package, path), Last(path) = Last(r.path), r.kind # "class"
        PROVE  path \in DOMAIN package' \cup folders'
    <3>1. SUFFICES ASSUME path \in DOMAIN package \ DOMAIN package' PROVE FALSE
      BY <2>3 DEF Exists
    <3>2. Mentions(package'[q], Last(path))
      BY <2>3 DEF Mentions
    <3> QED BY <3>1, <3>2 DEF MayThin
  <2>4. CASE r.kind = "res"
    <3>1. There(package, <<>>, r.path) /\ Head(r.path) \notin Quoted /\ <<>> \o r.path = r.path
      BY <2>1, <2>2, <2>4 DEF Resolves, Path
    <3>2. ~Absolute(r.path) => r.path \in DOMAIN package' \cup folders'
      BY <2>3, <2>4, <3>1 DEF There
    <3>3. There(package, <<>>, r.path)'
      BY <3>1, <3>2 DEF There, Absolute, Exists
    <3> QED BY <2>4, <3>1, <3>3 DEF Resolves
  <2>5. CASE r.kind = "rel"
    <3>1. Exists(package, Front(q) \o r.path)
      BY <2>1, <2>5 DEF Resolves
    <3>2. Last(Front(q) \o r.path) = Last(r.path)
      BY <2>2, BesideIs
    <3>3. Front(q) \o r.path \in DOMAIN package' \cup folders'
      BY <2>3, <2>5, <3>1, <3>2
    <3> QED BY <2>5, <3>3 DEF Resolves, Exists
  <2>6. CASE r.kind \in {"text", "class"}
    BY <2>1, <2>6 DEF Resolves
  <2> QED BY <2>2, <2>4, <2>5, <2>6 DEF Ref
<1> QED BY <1>1, <1>2 DEF MayThin

LEMMA MayStay == \A pkg : MayThin(pkg, pkg)
BY DEF MayThin

LEMMA ExtendsThins ==
    ASSUME NEW pkg, NEW new, Extends(pkg, new)
    PROVE  MayThin(pkg, new)
<1>1. ASSUME NEW q \in DOMAIN new, NEW r \in RefsOf(new[q]) PROVE q \in DOMAIN pkg /\ r \in RefsOf(pkg[q])
  <2>1. new[q].refs # <<>>
    BY DEF RefsOf, Range
  <2> QED BY <1>1, <2>1 DEF Extends
<1>2. DOMAIN pkg \subseteq DOMAIN new
  BY DEF Extends
<1> QED BY <1>1, <1>2 DEF MayThin

LEMMA WiredThins ==
    ASSUME NEW pkg, IsPackage(pkg), HasEntry(pkg), NEW path \in Path, path # Entry, path[1] \notin Drives,
           NEW file \in File, file.refs = <<>>
    PROVE  MayThin(pkg, Wired(pkg, path, file))
<1> DEFINE new == Wired(pkg, path, file)
<1>1. /\ IsPackage(new) /\ HasEntry(new) /\ DOMAIN new = DOMAIN pkg \cup {path} /\ new[path] = file
      /\ \A p \in DOMAIN pkg \ {path, Entry} : new[p] = pkg[p]
      /\ Same(new[Entry], pkg[Entry]) /\ new[Entry].refs = Append(pkg[Entry].refs, Res(path))
  <2>1. HasWired(pkg, path, file, new)
    BY WiredIs
  <2> QED BY <2>1 DEF HasWired
<1> HIDE DEF new
<1>2. Res(path).kind = "res" /\ Res(path).path = path /\ Res(path) \in Ref
  BY ResIs
<1>3. Entry \in DOMAIN pkg /\ pkg[Entry].refs \in Seq(Ref)
  BY SomeFile DEF HasEntry, File
<1>4. ASSUME NEW q \in DOMAIN new, NEW r \in RefsOf(new[q])
      PROVE  \/ q \in DOMAIN pkg /\ r \in RefsOf(pkg[q])
             \/ r.kind = "res" /\ r.path \in DOMAIN new /\ r.path[1] \notin Drives
  <2>1. CASE q = path
    BY <1>1, <1>4, <2>1 DEF RefsOf, Range
  <2>2. CASE q = Entry
    <3>1. r \in RefsOf(pkg[Entry]) \/ r = Res(path)
      <4>1. Range(Append(pkg[Entry].refs, Res(path))) = Range(pkg[Entry].refs) \cup {Res(path)}
        BY <1>2, <1>3, Appended
      <4>2. r \in Range(Append(pkg[Entry].refs, Res(path)))
        BY <1>1, <1>4, <2>2 DEF RefsOf
      <4> QED BY <4>1, <4>2 DEF RefsOf
    <3> QED BY <1>1, <1>2, <1>3, <2>2, <3>1
  <2>3. CASE q \in DOMAIN pkg \ {path, Entry}
    BY <1>1, <1>4, <2>3
  <2> QED BY <1>1, <1>4, <2>1, <2>2, <2>3
<1>5. DOMAIN pkg \subseteq DOMAIN new
  BY <1>1
<1> QED BY <1>4, <1>5 DEF MayThin, new

\* The merge may thin: a scene's new references are of meshes, and what goes is mentioned
\* by nothing that has references.
LEMMA MergeThins ==
    ASSUME IsPackage(package), HasEntry(package), NEW modules, NEW scenes, NEW pkg, NEW gone,
           scenes = {p \in Buildings : Resources(package[p]) \cap modules # {}},
           pkg = Merged(package, scenes, modules),
           gone = UNION {Unnamed(pkg, Front(scene)) : scene \in scenes},
           package' = Without(pkg, gone)
    PROVE  MayThin(package, package')
<1>1. scenes \in SUBSET DOMAIN package /\ \A p \in scenes : OfBuilding(p) /\ Scanned(package[p])
  BY ScenesAre
<1>2. Folds(package, scenes, modules, pkg)
  <2>1. Foldable(package, scenes)
    BY <1>1 DEF Foldable
  <2> QED BY <2>1, MergedIs
<1>3. /\ IsPackage(pkg) /\ IsPackage(package') /\ DOMAIN package' = DOMAIN pkg \ gone
      /\ \A p \in DOMAIN package' : package'[p] = pkg[p]
  <2>1. IsPackage(pkg)
    BY <1>2 DEF Folds
  <2>2. /\ IsPackage(Without(pkg, gone)) /\ DOMAIN Without(pkg, gone) = DOMAIN pkg \ gone
        /\ \A p \in DOMAIN pkg \ gone : Without(pkg, gone)[p] = pkg[p]
    BY ONLY <2>1, WithoutIs
  <2> QED BY <2>1, <2>2
<1>4. ASSUME NEW path \in gone, NEW q \in DOMAIN package' PROVE ~Mentions(package'[q], Last(path))
  <2>1. PICK scene \in scenes : path \in Unnamed(pkg, Front(scene))
    BY <1>4
  <2>2. q \in DOMAIN pkg /\ package'[q] = pkg[q] /\ pkg[q] \in File
    BY <1>3, SomeFile
  <2>3. Scanned(pkg[q]) => ~Mentions(pkg[q], Last(path))
    BY <2>1, <2>2 DEF Unnamed
  <2>4. ~Scanned(pkg[q]) => RefsOf(pkg[q]) = {}
    BY <2>2 DEF File, Scanned, Text, RefsOf, Range
  <2> QED BY <2>2, <2>3, <2>4 DEF Mentions
<1>5. ASSUME NEW q \in DOMAIN package', NEW r \in RefsOf(package'[q])
      PROVE  \/ q \in DOMAIN package /\ r \in RefsOf(package[q])
             \/ r.kind = "res" /\ r.path \in DOMAIN package' /\ r.path[1] \notin Drives
  <2>1. q \in DOMAIN pkg /\ r \in RefsOf(pkg[q]) /\ package'[q] = pkg[q]
    BY <1>3, <1>5
  <2>2. q \in DOMAIN package
    <3>1. pkg[q].refs # <<>>
      BY <2>1 DEF RefsOf, Range
    <3> QED BY <1>2, <2>1, <3>1 DEF Folds
  <2>3. CASE q \notin scenes
    BY <1>2, <2>1, <2>2, <2>3 DEF Folds
  <2>4. CASE q \in scenes
    <3>1. PICK i \in DOMAIN pkg[q].refs : r = pkg[q].refs[i]
      BY <2>1 DEF RefsOf, Range
    <3>2. i \in DOMAIN package[q].refs /\ r = FoldedRefs(package, q, modules)[i]
      BY <1>2, <2>4, <3>1 DEF FoldedRefs, Folds
    <3>3. r = package[q].refs[i] \/ r = Res(Mesh(q))
      BY <3>2 DEF FoldedRefs
    <3>4. CASE r = package[q].refs[i]
      BY <2>2, <3>2, <3>4 DEF RefsOf, Range
    <3>5. CASE r = Res(Mesh(q))
      <4>1. Mesh(q) \in Path /\ Mesh(q)[1] = "lot"
        BY <1>1, <2>4, MeshIs
      <4>2. r.kind = "res" /\ r.path = Mesh(q) /\ r.path[1] \notin Drives
        BY <3>5, <4>1, ResIs, DrivesAssumption DEF OfTheTop
      <4>3. Mesh(q) \in DOMAIN pkg
        BY <1>2, <2>4 DEF Folds
      <4>4. Mentions(package'[q], Last(Mesh(q)))
        BY <1>5, <4>2 DEF Mentions
      <4>5. Mesh(q) \notin gone
        BY <1>4, <1>5, <4>4
      <4> QED BY <1>3, <4>2, <4>3, <4>5
    <3> QED BY <3>3, <3>4, <3>5
  <2> QED BY <2>3, <2>4
<1>6. DOMAIN package \ DOMAIN package' \subseteq gone
  BY <1>2, <1>3 DEF Folds
<1> QED BY <1>4, <1>5, <1>6 DEF MayThin

\* The inductive invariant: what was whole as the entry was written, and what was judged.
ClosedInv ==
    /\ phase \in {"occluders", "merge", "warmup", "judge"} /\ closed => Open(package) = {}
    /\ phase \in {"describe", "guard", "shipped"} => Open(package) = {}

LEMMA ClosedStep ==
    ASSUME FolderedInv, FolderedInv', ClosedInv, Next
    PROVE  ClosedInv'
<1>1. /\ IsPackage(package) /\ IsPackage(package') /\ folders \subseteq folders' /\ given' = given
      /\ (phase \in Written => HasEntry(package))
  <2>1. given' = given
    <3>1. CASE Strip
      BY <3>1 DEF Strip, StripWalk, StripQaHarness, StripChrome, Fixed
    <3>2. CASE Repair
      BY <3>2 DEF Repair, ScrubData, RewriteFile, EndPass, Reroot, RepairBare, Fixed
    <3>3. CASE Build
      BY <3>3 DEF Build, WriteEntry, Occluders, MergeModules, WarmUp, Fixed
    <3>4. CASE Judge \/ Describe \/ Guard
      BY <3>4 DEF Judge, Describe, Guard, Fixed
    <3> QED BY <3>1, <3>2, <3>3, <3>4 DEF Next
  <2> QED BY <2>1 DEF FolderedInv, FixerInv, FilesOK, Next
<1> USE PhasesAre
<1>2. CASE Strip \/ Repair
  <2>1. phase' \in {"qa", "player", "setup", "scrub", "rewrite", "reroot", "bare", "entry"}
    BY <1>2 DEF Strip, StripWalk, StripQaHarness, StripChrome, Repair, ScrubData, RewriteFile, EndPass, Reroot,
                RepairBare
  <2> QED BY <2>1 DEF ClosedInv
<1>3. CASE WriteEntry
  <2>1. phase' = "refused" \/ (phase' = "occluders" /\ closed' = (Open(package') = {}))
    BY <1>3 DEF WriteEntry
  <2>2. Open(package') = {} => Open(package)' = {}
    <3>1. ASSUME NEW q \in DOMAIN package', NEW r \in RefsOf(package'[q]), Resolves(package', q, r)
          PROVE  Resolves(package, q, r)'
      <4>1. package'[q] \in File
        BY <1>1, <3>1, SomeFile
      <4>2. r.kind \in {"res", "rel", "class", "text"}
        <5>1. package'[q].refs \in Seq(Ref)
          BY <4>1 DEF File
        <5>2. PICK i \in DOMAIN package'[q].refs : r = package'[q].refs[i]
          BY <3>1 DEF RefsOf, Range
        <5>3. r \in Ref
          BY <5>1, <5>2
        <5> QED BY <5>3 DEF Ref
      <4>3. CASE r.kind = "res"
        BY <1>1, <3>1, <4>3 DEF Resolves, There, Exists, Absolute
      <4>4. CASE r.kind = "rel"
        BY <1>1, <3>1, <4>4 DEF Resolves, Exists
      <4>5. CASE r.kind \in {"text", "class"}
        BY <3>1, <4>5 DEF Resolves
      <4> QED BY <4>2, <4>3, <4>4, <4>5
    <3> QED BY <3>1 DEF Open
  <2> QED BY <2>1, <2>2 DEF ClosedInv
<1>4. ASSUME MayThin(package, package') PROVE Open(package) = {} => Open(package)' = {}
  BY <1>1, <1>4, OpenKept
<1>5. CASE Occluders
  <2>1. phase = "occluders" /\ phase' \in {"merge", "refused"} /\ closed' = closed
        /\ (UNCHANGED package \/ package' = Wired(package, <<"occluders.tscn">>, Scene("occluders", <<>>)))
    BY <1>5 DEF Occluders, Refuse, Fixed
  <2>2. MayThin(package, package')
    <3>1. /\ HasEntry(package) /\ <<"occluders.tscn">> \in Path /\ <<"occluders.tscn">> # Entry
          /\ <<"occluders.tscn">>[1] \notin Drives
      BY <1>1, <2>1, OwnPaths, DrivesAssumption DEF Written, Entry, OfTheTop
    <3>2. Scene("occluders", <<>>) \in File /\ Scene("occluders", <<>>).refs = <<>>
      BY BareScene
    <3> QED BY <1>1, <2>1, <3>1, <3>2, WiredThins, MayStay
  <2> QED BY <1>4, <2>1, <2>2 DEF ClosedInv
<1>6. CASE MergeModules
  <2>1. phase = "merge" /\ phase' \in {"warmup", "refused"} /\ closed' = closed
    BY <1>6 DEF MergeModules, Refuse, Fixed
  <2>2. MayThin(package, package')
    <3>1. CASE UNCHANGED package
      BY <3>1, MayStay
    <3>2. CASE ~UNCHANGED package
      <4>1. PICK modules \in SUBSET UNION {Kit(package, Front(scene)) : scene \in Buildings} :
                LET scenes == {p \in Buildings : Resources(package[p]) \cap modules # {}}
                    pkg    == Merged(package, scenes, modules)
                IN  package' = Without(pkg, UNION {Unnamed(pkg, Front(scene)) : scene \in scenes})
        BY <1>6, <3>2 DEF MergeModules, Refuse
      <4> DEFINE scenes == {p \in Buildings : Resources(package[p]) \cap modules # {}}
                 pkg    == Merged(package, scenes, modules)
                 gone   == UNION {Unnamed(pkg, Front(scene)) : scene \in scenes}
      <4>2. package' = Without(pkg, gone) /\ HasEntry(package)
        BY <1>1, <2>1, <4>1 DEF Written
      <4> HIDE DEF gone, pkg, scenes
      <4> QED BY <1>1, <4>2, MergeThins DEF gone, pkg, scenes
    <3> QED BY <3>1, <3>2
  <2> QED BY <1>4, <2>1, <2>2 DEF ClosedInv
<1>7. CASE WarmUp
  <2> DEFINE file == [is |-> "warmup", type |-> "script", refs |-> <<>>]
  <2>1. phase = "warmup" /\ phase' \in {"judge", "refused"} /\ closed' = closed
        /\ (UNCHANGED package \/ package' = Wired(package, <<"warmup.gd">>, file))
    BY <1>7 DEF WarmUp, Refuse, Fixed
  <2>2. file \in File /\ file.refs = <<>>
    <3>1. "warmup" \in Name
      BY NamesAssumption
    <3> QED BY <3>1 DEF File
  <2> HIDE DEF file
  <2>3. MayThin(package, package')
    <3>1. /\ HasEntry(package) /\ <<"warmup.gd">> \in Path /\ <<"warmup.gd">> # Entry
          /\ <<"warmup.gd">>[1] \notin Drives
      <4>1. <<"warmup.gd">> # Entry /\ <<"warmup.gd">>[1] \notin Drives
        BY DrivesAssumption DEF Entry, OfTheTop
      <4> QED BY <1>1, <2>1, <4>1, OwnPaths DEF Written
    <3> QED BY <1>1, <2>1, <2>2, <3>1, WiredThins, MayStay
  <2> QED BY <1>4, <2>1, <2>3 DEF ClosedInv
<1>8. CASE Judge
  <2>1. /\ package' = Recorded(package, FirstRecord)
        /\ phase' = "refused" \/ (phase' = "describe" /\ Open(package) = {})
    BY <1>8 DEF Judge, FirstRecord
  <2>2. MayThin(package, package')
    BY <1>1, <2>1, RecordsExtend, ExtendsThins
  <2> QED BY <1>4, <2>1, <2>2 DEF ClosedInv
<1>9. CASE Describe
  <2>1. phase = "describe" /\ phase' = "guard" /\ Extends(package, package')
    BY <1>9, DescribedIs DEF FolderedInv
  <2>2. MayThin(package, package')
    BY <2>1, ExtendsThins
  <2> QED BY <1>4, <2>1, <2>2 DEF ClosedInv
<1>10. CASE Guard
  <2>1. phase = "guard" /\ phase' \in {"shipped", "refused"} /\ UNCHANGED package
    BY <1>10 DEF Guard
  <2>2. MayThin(package, package')
    BY <2>1, MayStay
  <2> QED BY <1>4, <2>1, <2>2 DEF ClosedInv
<1> QED BY <1>2, <1>3, <1>5, <1>6, <1>7, <1>8, <1>9, <1>10 DEF Next, Build

LEMMA ClosedHolds == Spec => []ClosedInv
<1>1. Init => ClosedInv
  BY DEF Init, ClosedInv
<1>2. FolderedInv /\ FolderedInv' /\ ClosedInv /\ [Next]_vars => ClosedInv'
  <2>1. ASSUME ClosedInv, UNCHANGED vars PROVE ClosedInv'
    BY <2>1 DEF vars, ClosedInv, Open, Resolves, There, Exists, Absolute
  <2> QED BY <2>1, ClosedStep
<1> QED BY <1>1, <1>2, FolderedHolds, PTL DEF Spec

\* Steps 4 to 4.9 and the guards: what was whole when the entry had been written is judged
\* whole, merged and thinned out as it may be, and what ships is whole and has its entry.
THEOREM ShipsWhole == Spec => []StaysClosed
<1>1. FolderedInv /\ ClosedInv => StaysClosed
  BY DEF FolderedInv, FixerInv, ClosedInv, StaysClosed, Written, HasEntry
<1> QED BY <1>1, FolderedHolds, ClosedHolds, PTL

-----------------------------------------------------------------------------
(* A building's own things.                                                *)

\* A reference is as it was given, or of a copy that stands for something foreign.
AsGiven(old, r) == r.kind = "res" => r \in RefsOf(old) \/ (Aside(r.path) /\ ~Domestic(r.was))

\* What the given file named by a path of its own it names still.
Carried(old, file) == \A r \in RefsOf(old) : r.kind = "res" /\ Domestic(r.path) => r \in RefsOf(file)

FromGiven(old, file) ==
    /\ Same(file, old) /\ Carried(old, file)
    /\ Text(file) => \A r \in RefsOf(file) : AsGiven(old, r)

\* Of the files given and the copies, nothing else is in the package.
KeptFiles(pkg) ==
    \A q \in DOMAIN pkg : Aside(q) \/ (q \in DOMAIN given.package /\ FromGiven(given.package[q], pkg[q]))

KeptFolders == \A d \in folders : Aside(d) \/ d \in Folders(given.package)

\* No building's path leads anywhere from lot/.
Alone(p) ==
    \A path \in Resources(given.package[p]) :
        <<"lot">> \o path \notin DOMAIN given.package \cup Folders(given.package)

\* A building that was rerooted, and one that was not.
Settled(pkg, p) ==
    \A r \in RefsOf(pkg[p]) :
        r.kind = "res" /\ Own(p) \o r.was \in DOMAIN given.package \cap DOMAIN pkg => r.path = Own(p) \o r.was

AsTheyWere(pkg, p) ==
    \A r \in RefsOf(given.package[p]) :
        r.kind = "res" /\ Domestic(r.path) /\ Len(r.path) > 1 => r \in RefsOf(pkg[p])

\* The files under lot/ hold what they held, and a building is one or the other.
HoldsOwn(pkg) ==
    \A q \in DOMAIN pkg \cap DOMAIN given.package :
        q[1] = "lot" /\ Len(q) > 1 => pkg[q].is = given.package[q].is
BuildingsHold(pkg) ==
    \A p \in DOMAIN pkg \cap DOMAIN given.package :
        OfBuilding(p) /\ Alone(p) => Settled(pkg, p) \/ AsTheyWere(pkg, p)

\* What a merge writes over nothing that was given.
NoMeshGone(pkg) == \A q \in DOMAIN given.package : Last(q) = "side.res" => q \in DOMAIN pkg

\* The inductive invariant: what was given and copies, until a building is rerooted.
OwnInv ==
    /\ phase \in Repairing \cup {"reroot"} => KeptFiles(package) /\ KeptFolders
    /\ phase \in Early \cup {"occluders", "merge"} => NoMeshGone(package)
    /\ phase \notin Repairing \cup {"reroot", "refused"} => HoldsOwn(package) /\ BuildingsHold(package)

LEMMA FromGivenItself == \A file : (\A r \in RefsOf(file) : r.was = r.path) => FromGiven(file, file)
BY DEF FromGiven, Same, Carried, AsGiven

\* A text rewritten is as given still.
LEMMA FromGivenStands ==
    ASSUME NEW old, NEW file, NEW new, FromGiven(old, file), Same(new, file), Text(file),
           \A r \in RefsOf(old) : r.was = r.path,
           Len(new.refs) = Len(file.refs), DOMAIN new.refs = 1..Len(new.refs), DOMAIN file.refs = 1..Len(file.refs),
           \A i \in 1..Len(file.refs) : Stands(file.refs[i], new.refs[i])
    PROVE  FromGiven(old, new)
<1>1. Same(new, old)
  BY DEF FromGiven, Same
<1>2. ASSUME NEW r \in RefsOf(old), r.kind = "res", Domestic(r.path) PROVE r \in RefsOf(new)
  <2>1. r \in RefsOf(file)
    BY <1>2 DEF FromGiven, Carried
  <2>2. PICK i \in 1..Len(file.refs) : r = file.refs[i]
    BY <2>1 DEF RefsOf, Range
  <2>3. new.refs[i] = r
    BY <1>2, <2>2 DEF Stands
  <2> QED BY <2>3 DEF RefsOf, Range
<1>3. ASSUME NEW r \in RefsOf(new) PROVE AsGiven(old, r)
  <2>1. PICK i \in 1..Len(file.refs) : r = new.refs[i]
    BY <1>3 DEF RefsOf, Range
  <2>2. Stands(file.refs[i], r) /\ file.refs[i] \in RefsOf(file)
    BY <2>1 DEF RefsOf, Range
  <2>3. AsGiven(old, file.refs[i])
    BY <2>2 DEF FromGiven
  <2> QED BY <2>2, <2>3 DEF Stands, AsGiven
<1> QED BY <1>1, <1>2, <1>3 DEF FromGiven, Carried

\* Folders that come with copies are aside like them.
LEMMA KeptFoldersStay ==
    ASSUME FolderedInv, KeptFolders, given' = given, IsPackage(package'), folders' = folders \cup Folders(package'),
           \A q \in DOMAIN package' : Aside(q) \/ q \in DOMAIN package
    PROVE  KeptFolders'
<1>1. Folders(package) \subseteq folders
  BY DEF FolderedInv, FoldersInv
<1>2. ASSUME NEW d \in Folders(package') PROVE Aside(d) \/ d \in folders
  <2>1. PICK q \in DOMAIN package' : d \in Above(q)
    BY <1>2 DEF Folders
  <2>2. q \in Path
    BY DEF IsPackage
  <2>3. d[1] = q[1]
    BY <2>1, <2>2, AboveIs
  <2>4. q \in DOMAIN package => d \in folders
    BY <1>1, <2>1 DEF Folders
  <2> QED BY <2>3, <2>4 DEF Aside
<1> QED BY <1>2 DEF KeptFolders, Aside

LEMMA OwnStart == Init => OwnInv
<1> SUFFICES ASSUME Init PROVE OwnInv
  OBVIOUS
<1>1. given \in Inputs /\ package = given.package /\ folders = Folders(package) /\ phase = "walk"
  BY DEF Init
<1>2. \A file \in Files(given.package) : \A r \in RefsOf(file) : r.was = r.path
  BY <1>1, GivenIs DEF Given
<1>3. KeptFiles(package)
  BY <1>1, <1>2, FromGivenItself DEF KeptFiles, Files
<1>4. KeptFolders /\ NoMeshGone(package)
  BY <1>1 DEF KeptFolders, NoMeshGone
<1> QED BY <1>1, <1>3, <1>4 DEF OwnInv, Repairing

LEMMA OwnPrimes ==
    ASSUME given' = given
    PROVE  /\ KeptFiles(package') => KeptFiles(package)'
           /\ NoMeshGone(package') => NoMeshGone(package)'
           /\ HoldsOwn(package') => HoldsOwn(package)'
           /\ BuildingsHold(package') => BuildingsHold(package)'
BY DEF KeptFiles, NoMeshGone, HoldsOwn, BuildingsHold, Alone, Settled, AsTheyWere

\* A step of the fixer that leaves only what was given and copies, and no mesh behind.
LEMMA OwnRepairing ==
    ASSUME FolderedInv, FolderedInv', OwnInv, given' = given, folders' = folders \cup Folders(package'),
           phase \in Repairing, phase' \in Repairing \cup {"reroot"},
           \A q \in DOMAIN package' :
              Aside(q) \/ (q \in DOMAIN package /\ (FromGiven(given.package[q], package[q])
                                                      => FromGiven(given.package[q], package'[q]))),
           \A q \in DOMAIN package : Last(q) = "side.res" => q \in DOMAIN package'
    PROVE  OwnInv'
<1>1. KeptFiles(package) /\ KeptFolders /\ NoMeshGone(package)
  BY DEF OwnInv, Early, Repairing
<1>2. KeptFiles(package')
  BY <1>1 DEF KeptFiles
<1>3. KeptFolders'
  BY <1>1, KeptFoldersStay DEF FolderedInv, FixerInv, FilesOK
<1>4. NoMeshGone(package')
  BY <1>1 DEF NoMeshGone
<1> QED BY <1>2, <1>3, <1>4, OwnPrimes DEF OwnInv, Repairing

LEMMA OwnStrips ==
    ASSUME FolderedInv, FolderedInv', OwnInv, Strip, folders' = folders \cup Folders(package')
    PROVE  OwnInv'
<1>1. phase \in {"walk", "qa", "player", "setup"} /\ phase' \in {"qa", "player", "setup", "scrub"} /\ given' = given
  BY PhasesAre DEF Strip, StripWalk, StripQaHarness, StripChrome, Fixed
<1>2. package' = package \/ \E gone : package' = Without(package, gone) /\ \A q \in gone : Last(q) # "side.res"
  BY WalkAssumption DEF Strip, StripWalk, StripQaHarness, StripChrome, Named, QaHarness
<1>3. IsPackage(package)
  BY DEF FolderedInv, FixerInv, FilesOK
<1>4. /\ DOMAIN package' \subseteq DOMAIN package
      /\ \A q \in DOMAIN package' : package'[q] = package[q]
      /\ \A q \in DOMAIN package : Last(q) = "side.res" => q \in DOMAIN package'
  <2>1. CASE package' = package
    BY <2>1
  <2>2. CASE \E gone : package' = Without(package, gone) /\ \A q \in gone : Last(q) # "side.res"
    <3>1. PICK gone : package' = Without(package, gone) /\ \A q \in gone : Last(q) # "side.res"
      BY <2>2
    <3>2. /\ DOMAIN Without(package, gone) = DOMAIN package \ gone
          /\ \A q \in DOMAIN package \ gone : Without(package, gone)[q] = package[q]
      BY <1>3, WithoutIs
    <3> QED BY <3>1, <3>2
  <2> QED BY <1>2, <2>1, <2>2
<1> QED BY <1>1, <1>4, OwnRepairing DEF Repairing

\* Data files keep what they name of the package's own.
LEMMA OwnScrubs ==
    ASSUME FolderedInv, FolderedInv', OwnInv, ScrubData, folders' = folders \cup Folders(package')
    PROVE  OwnInv'
<1>1. phase = "scrub" /\ phase' = "rewrite" /\ given' = given
  BY PhasesAre DEF ScrubData
<1>2. IsPackage(package)
  BY DEF FolderedInv, FixerInv, FilesOK
<1>3. DOMAIN package' = DOMAIN package
  BY DEF ScrubData
<1>4. ASSUME NEW q \in DOMAIN package, NEW old, FromGiven(old, package[q]) PROVE FromGiven(old, package'[q])
  <2>1. CASE package[q].type # "data"
    <3>1. package'[q] = package[q]
      BY <2>1 DEF ScrubData
    <3> QED BY <1>4, <3>1
  <2>2. CASE package[q].type = "data"
    <3> DEFINE file == package[q]
               refs == [i \in DOMAIN file.refs |-> Scrubbed(file.refs[i])]
               new == package'[q]
    <3>1. file \in File /\ file.refs \in Seq(Ref) /\ file.type = "data"
      BY <1>2, <2>2 DEF IsPackage, File
    <3>2. new = [file EXCEPT !.refs = [i \in DOMAIN @ |-> Scrubbed(@[i])]]
      BY <2>2 DEF ScrubData
    <3>3. new.is = file.is /\ new.type = file.type /\ new.refs = refs
      BY <3>1, <3>2 DEF File
    <3>4. FromGiven(old, file)
      BY <1>4
    <3> HIDE DEF file, new
    <3>5. ASSUME NEW r \in RefsOf(old), r.kind = "res", Domestic(r.path) PROVE r \in RefsOf(new)
      <4>1. r \in RefsOf(file)
        BY <3>4, <3>5 DEF FromGiven, Carried
      <4>2. PICK i \in DOMAIN file.refs : r = file.refs[i]
        BY <4>1 DEF RefsOf, Range
      <4>3. r \in Ref
        BY <3>1, <4>2
      <4>4. ~SeenByFixer(r.path)
        BY <3>5, <4>3, PathsAre, DrivesAssumption DEF SeenByFixer, Domestic, Reserved, Ref
      <4>5. refs[i] = r
        BY <4>2, <4>4 DEF Scrubbed
      <4> QED BY <3>3, <4>2, <4>5 DEF RefsOf, Range
    <3>6. Same(new, old) /\ ~Text(new)
      BY <3>1, <3>3, <3>4 DEF FromGiven, Same, Text
    <3>7. FromGiven(old, new)
      BY <3>5, <3>6 DEF FromGiven, Carried
    <3> QED BY <3>7 DEF new
  <2> QED BY <2>1, <2>2
<1> QED BY <1>1, <1>3, <1>4, OwnRepairing DEF Repairing

\* A text rewritten names what it named of its own, and only copies come.
LEMMA OwnRewrites ==
    ASSUME FolderedInv, FolderedInv', OwnInv, NEW p \in todo, RewriteFile(p), folders' = folders \cup Folders(package')
    PROVE  OwnInv'
<1> DEFINE w == Rewritten(p)
           file == [package[p] EXCEPT !.refs = w.refs]
           new == [w.package EXCEPT ![p] = file]
<1>0. FixerInv
  BY DEF FolderedInv
<1>1. /\ given \in Inputs /\ IsPackage(package) /\ unresolved \subseteq Name \X Path /\ Store(package)
      /\ p \in TextFiles(package)
  BY <1>0 DEF FixerInv, FilesOK, Repairing, RewriteFile, Store
<1>2. package' = IF w.changed /\ ~w.failed THEN new ELSE w.package
  BY DEF RewriteFile
<1>3. /\ IsWork(w) /\ Grown(package, w.package) /\ Apart(package, w.package)
      /\ StandsAll(w, package[p].refs, Len(package[p].refs))
  BY <1>1, RewrittenIs
<1> HIDE DEF w
<1>4. p \in DOMAIN package /\ p \in Path /\ package[p] \in File /\ Text(package[p]) /\ p \in DOMAIN w.package
  BY <1>1, <1>3 DEF TextFiles, IsPackage, Grown
<1>5. w.refs \in Seq(Ref) /\ package[p].refs \in Seq(Ref)
  BY <1>3, <1>4 DEF IsWork, File
<1>6. file \in File /\ Same(file, package[p]) /\ file.refs = w.refs
  BY <1>4, <1>5, FileWith DEF Same, File, Scanned
<1> HIDE DEF file
<1>7. DOMAIN new = DOMAIN w.package /\ new[p] = file /\ \A x \in DOMAIN w.package \ {p} : new[x] = w.package[x]
  BY <1>4
<1> HIDE DEF new
<1>8. KeptFiles(package)
  BY DEF OwnInv, RewriteFile, Repairing
<1>9. ASSUME ~w.failed, ~Aside(p), FromGiven(given.package[p], package[p]) PROVE FromGiven(given.package[p], file)
  <2>1. p \in DOMAIN given.package
    BY <1>4, <1>8, <1>9 DEF KeptFiles
  <2>2. \A r \in RefsOf(given.package[p]) : r.was = r.path
    BY <1>1, <2>1, GivenIs DEF Given, Files
  <2>3. /\ Len(file.refs) = Len(package[p].refs) /\ DOMAIN file.refs = 1..Len(file.refs)
        /\ DOMAIN package[p].refs = 1..Len(package[p].refs)
        /\ \A i \in 1..Len(package[p].refs) : Stands(package[p].refs[i], file.refs[i])
    BY <1>3, <1>5, <1>6, <1>9 DEF StandsAll
  <2> QED BY <1>4, <1>6, <1>9, <2>2, <2>3, FromGivenStands
<1>10. \A q \in DOMAIN package' :
          Aside(q) \/ (q \in DOMAIN package /\ (FromGiven(given.package[q], package[q])
                                                  => FromGiven(given.package[q], package'[q])))
  <2> TAKE q \in DOMAIN package'
  <2>1. CASE package' = w.package
    BY <1>3, <2>1 DEF Apart
  <2>2. CASE package' = new /\ ~w.failed
    BY <1>3, <1>4, <1>7, <1>9, <2>2 DEF Apart
  <2> QED BY <1>2, <2>1, <2>2
<1>11. DOMAIN package \subseteq DOMAIN package'
  BY <1>2, <1>3, <1>7 DEF Grown
<1> QED BY <1>10, <1>11, OwnRepairing DEF RewriteFile, Repairing

LEMMA OwnEndsPass ==
    ASSUME FolderedInv, FolderedInv', OwnInv, EndPass, folders' = folders \cup Folders(package')
    PROVE  OwnInv'
<1>1. phase = "rewrite" /\ phase' \in {"rewrite", "reroot"} /\ package' = package /\ given' = given
  BY PhasesAre DEF EndPass
<1> QED BY <1>1, OwnRepairing DEF Repairing

\* A building's own folder and what is in it.
LEMMA OwnIs ==
    ASSUME NEW p, OfBuilding(p)
    PROVE  /\ Own(p) \in Path /\ Len(Own(p)) = 2 /\ Own(p)[1] = "lot"
           /\ \A d \in Above(p) : d = <<"lot">> \/ d = Own(p)
           /\ \A path \in Path : LET its == Own(p) \o path IN
                 its \in Path /\ its[1] = "lot" /\ Len(its) > 2 /\ path[1] \in Below(its)
<1>1. p \in Seq(Name) /\ Len(p) = 3 /\ p[1] = "lot"
  BY DEF OfBuilding, Path
<1>2. Own(p) \in Seq(Name) /\ Len(Own(p)) = 2 /\ Own(p)[1] = "lot"
  <2>1. 1 <= 2 /\ 2 <= Len(p)
    BY <1>1
  <2>2. SubSeq(p, 1, 2) \in Seq(Name) /\ Len(SubSeq(p, 1, 2)) = 2
    BY ONLY <1>1, <2>1
  <2>3. SubSeq(p, 1, 2)[1] = p[1]
    BY ONLY <1>1, <2>1
  <2> QED BY <1>1, <2>2, <2>3 DEF Own
<1>3. Own(p) \in Path
  <2>1. Own(p) # <<>>
    BY <1>2
  <2> QED BY <1>2, <2>1 DEF Path
<1>4. ASSUME NEW d \in Above(p) PROVE d = <<"lot">> \/ d = Own(p)
  <2>1. PICK n \in 1..2 : d = SubSeq(p, 1, n)
    BY <1>1 DEF Above
  <2>2. CASE n = 1
    <3>1. d \in Seq(Name) /\ Len(d) = 1 /\ d[1] = "lot"
      BY <1>1, <2>1, <2>2
    <3> QED BY <3>1
  <2> QED BY <2>1, <2>2 DEF Own
<1>5. ASSUME NEW path \in Path
      PROVE  LET its == Own(p) \o path IN its \in Path /\ its[1] = "lot" /\ Len(its) > 2 /\ path[1] \in Below(its)
  <2> DEFINE its == Own(p) \o path
  <2>1. /\ its \in Path /\ Len(its) = Len(Own(p)) + Len(path) /\ its[1] = Own(p)[1]
        /\ its[Len(Own(p)) + 1] = path[1]
    BY <1>3, JoinedIs
  <2>2. Len(path) \in Nat \ {0}
    BY PathsAre
  <2> HIDE DEF its
  <2>3. Len(its) > 2 /\ 3 \in 2..Len(its) /\ its[3] = path[1]
    BY <1>2, <2>1, <2>2
  <2>4. path[1] \in Below(its)
    BY <2>3 DEF Below
  <2> QED BY <1>2, <2>1, <2>3, <2>4 DEF its
<1> QED BY <1>2, <1>3, <1>4, <1>5

\* What was given in a building's folder is named by a path of its own.
LEMMA ItsIsDomestic ==
    ASSUME given \in Inputs, NEW p, OfBuilding(p), NEW path \in Path, Own(p) \o path \in DOMAIN given.package
    PROVE  Domestic(path)
<1>1. path[1] \in Below(Own(p) \o path)
  BY OwnIs
<1>2. Below(Own(p) \o path) \cap Reserved = {}
  BY GivenIs DEF Placed
<1> QED BY <1>1, <1>2 DEF Domestic

\* A building is rerooted to its own folder, or not at all.
LEMMA OwnReroots ==
    ASSUME FolderedInv, OwnInv, Reroot
    PROVE  OwnInv'
<1>1. phase = "reroot" /\ phase' = "bare" /\ given' = given
  BY PhasesAre DEF Reroot, Fixed
<1>2. /\ given \in Inputs /\ IsPackage(package) /\ InPlace(package) /\ InPlaceFolders
      /\ KeptFiles(package) /\ KeptFolders /\ NoMeshGone(package)
  BY <1>1 DEF FolderedInv, FixerInv, FilesOK, FoldersInv, OwnInv, Early
<1>3. /\ IsPackage(package') /\ DOMAIN package' = DOMAIN package
      /\ \A p \in DOMAIN package : Same(package'[p], package[p]) /\ (~Text(package[p]) => package'[p] = package[p])
      /\ \A p \in TextFiles(package) :
            /\ DOMAIN package'[p].refs = DOMAIN package[p].refs
            /\ \A i \in DOMAIN package[p].refs : package'[p].refs[i] = Rerooted(package, p, package[p].refs[i])
  BY <1>2, RerootsAre DEF Changes
<1>4. HoldsOwn(package')
  BY <1>2, <1>3 DEF HoldsOwn, KeptFiles, FromGiven, Same, Aside
<1>5. NoMeshGone(package')
  BY <1>2, <1>3 DEF NoMeshGone
<1>6. ASSUME NEW p \in DOMAIN package \cap DOMAIN given.package, OfBuilding(p), Alone(p)
      PROVE  Settled(package', p) \/ AsTheyWere(package', p)
  <2>1. p \in Path /\ package[p] \in File /\ package[p].refs \in Seq(Ref) /\ FromGiven(given.package[p], package[p])
    BY <1>2, <1>6, SomeFile DEF KeptFiles, OfBuilding, Aside, File
  <2>2. \A r \in RefsOf(given.package[p]) : r.was = r.path
    BY <1>2, GivenIs DEF Given, Files
  <2>3. ASSUME \A r \in RefsOf(package[p]) : r \in RefsOf(package'[p]) PROVE AsTheyWere(package', p)
    BY <2>1, <2>3 DEF FromGiven, Carried, AsTheyWere
  <2>4. CASE ~Text(package[p])
    BY <1>3, <2>3, <2>4
  <2>5. ASSUME Text(package[p]), \A i \in DOMAIN package[p].refs :
                                    Rerooted(package, p, package[p].refs[i]) = package[p].refs[i]
        PROVE  AsTheyWere(package', p)
    <3>1. p \in TextFiles(package)
      BY <2>5 DEF TextFiles
    <3> QED BY <1>3, <2>3, <2>5, <3>1 DEF RefsOf, Range
  <2>6. CASE Text(package[p]) /\ Better(package, p) = {}
    BY <2>5, <2>6 DEF Rerooted
  <2>7. CASE Text(package[p]) /\ Better(package, p) # {}
    <3> DEFINE d == Deepest(Better(package, p))
    <3>1. d \in Above(p)
      BY <2>1, <2>7, DeepestIs DEF Better
    <3>2. \A r : Rerooted(package, p, r) =
                   IF r.kind = "res" /\ ~IsStrictPrefix(d, r.path) /\ There(package, d, r.path)
                   THEN [r EXCEPT !.path = d \o @] ELSE r
      BY <2>7 DEF Rerooted
    <3>7. d \in Better(package, p)
      BY <2>1, <2>7, DeepestIs DEF Better
    <3> HIDE DEF d
    <3>3. d = <<"lot">> \/ d = Own(p)
      BY <1>6, <3>1, OwnIs
    <3>4. \A i \in DOMAIN package[p].refs :
             package[p].refs[i] \in Ref /\ AsGiven(given.package[p], package[p].refs[i])
      BY <2>1, <2>7 DEF FromGiven, RefsOf, Range
    <3>5. CASE d = Own(p)
      <4>1. ASSUME NEW new \in RefsOf(package'[p]), new.kind = "res",
                   Own(p) \o new.was \in DOMAIN given.package \cap DOMAIN package'
            PROVE  new.path = Own(p) \o new.was
        <5>0. p \in TextFiles(package)
          BY <2>7 DEF TextFiles
        <5>1. PICK i \in DOMAIN package[p].refs : new = Rerooted(package, p, package[p].refs[i])
          BY <1>3, <4>1, <5>0 DEF RefsOf, Range
        <5> DEFINE r == package[p].refs[i]
        <5>2. r \in Ref /\ AsGiven(given.package[p], r) /\ new = Rerooted(package, p, r)
          BY <3>4, <5>1
        <5> HIDE DEF r
        <5>3. r.kind = "res" /\ r.was = new.was /\ r.was \in Path /\ r.path \in Path
          <6>1. Rerooted(package, p, r).kind = r.kind /\ Rerooted(package, p, r).was = r.was
            BY ONLY <2>1, <5>2, RerootedIs
          <6> QED BY <4>1, <5>2, <6>1 DEF Ref
        <5>4. Domestic(r.was)
          BY <1>2, <1>6, <4>1, <5>3, ItsIsDomestic
        <5>5. r.path = r.was
          BY <2>2, <5>2, <5>3, <5>4 DEF AsGiven
        <5>6. ~IsStrictPrefix(d, r.path)
          <6>1. Own(p) \in Path /\ Len(Own(p)) = 2 /\ Own(p)[1] = "lot"
            BY <1>6, OwnIs
          <6>2. r.path[1] # "lot"
            BY <5>4, <5>5 DEF Domestic, Reserved
          <6>3. ASSUME IsPrefix(Own(p), r.path) PROVE FALSE
            <7>1. r.path[1] = Own(p)[1]
              <8>1. r.path \in Path /\ Own(p) \in Path
                BY <5>3, <6>1
              <8>2. \A k \in 1..Len(Own(p)) : r.path[k] = Own(p)[k]
                BY ONLY <8>1, <6>3, PrefixIs
              <8> QED BY <6>1, <8>2
            <7> QED BY <6>1, <6>2, <7>1
          <6> QED BY <3>5, <6>3 DEF IsStrictPrefix
        <5>7. There(package, d, r.path)
          <6>1. ~Absolute(r.path)
            BY <5>3, <5>4, <5>5, PathsAre DEF Absolute, Domestic, Reserved
          <6> QED BY <1>3, <3>5, <4>1, <5>3, <5>5, <6>1 DEF There, Exists
        <5>8. new = [r EXCEPT !.path = d \o @]
          BY <3>2, <5>2, <5>3, <5>6, <5>7
        <5>9. new.path = d \o r.path
          BY <5>2, <5>8 DEF Ref
        <5> QED BY <3>5, <5>3, <5>5, <5>9
      <4> QED BY <4>1 DEF Settled
    <3>6. CASE d = <<"lot">>
      <4>1. ASSUME NEW r \in Ref, AsGiven(given.package[p], r), r.kind = "res" PROVE ~Exists(package, <<"lot">> \o r.path)
        <5> DEFINE top == <<"lot">>
        <5>1. top \in Path /\ r.path \in Path /\ top[1] = "lot"
          BY PathsAre, NamesAssumption DEF OfTheTop, Ref
        <5> HIDE DEF top
        <5>2. (top \o r.path)[1] = "lot"
          BY <5>1, JoinedIs
        <5>3. CASE Aside(r.path)
          BY <1>2, <5>1, <5>3, NothingOfTheTop DEF Aside, Reserved, top
        <5>4. CASE r \in RefsOf(given.package[p])
          <6>1. r.path \in Resources(given.package[p])
            BY <4>1, <5>4 DEF Resources
          <6>2. top \o r.path \notin DOMAIN given.package \cup Folders(given.package)
            BY <1>6, <6>1 DEF Alone, top
          <6>3. ~Aside(top \o r.path)
            BY <5>2 DEF Aside
          <6> QED BY <1>2, <6>2, <6>3 DEF KeptFiles, KeptFolders, Exists, top
        <5> QED BY <4>1, <5>3, <5>4 DEF AsGiven
      <4> DEFINE here  == {q \in Resources(package[p]) : There(package, <<"lot">>, q)}
                 there == {q \in Resources(package[p]) : There(package, <<>>, q)}
      <4>2. ASSUME NEW q \in here PROVE q \in there
        <5>1. PICK r \in RefsOf(package[p]) : r.kind = "res" /\ r.path = q
          BY DEF Resources
        <5>2. r \in Ref /\ AsGiven(given.package[p], r)
          BY <3>4, <5>1 DEF RefsOf, Range
        <5>3. Absolute(q)
          BY <4>1, <5>1, <5>2 DEF There
        <5> QED BY <5>3 DEF There
      <4>3. IsFiniteSet(there)
        <5>1. IsFiniteSet(Resources(package[p]))
          <6> DEFINE refs == package[p].refs
                     names == {refs[i].path : i \in DOMAIN refs}
                     f == [i \in DOMAIN refs |-> refs[i].path]
          <6>1. DOMAIN refs = 1..Len(refs) /\ Len(refs) \in Nat
            BY <2>1
          <6>2. IsFiniteSet(DOMAIN refs)
            BY <6>1, FS_Interval
          <6>3. f \in Surjection(DOMAIN refs, names)
            BY DEF Surjection
          <6>4. IsFiniteSet(names)
            <7> HIDE DEF f, names, refs
            <7> QED BY <6>2, <6>3, FS_Surjection
          <6>5. Resources(package[p]) \subseteq names
            BY DEF Resources, RefsOf, Range
          <6> QED BY <6>4, <6>5, FS_Subset
        <5> QED BY <5>1, FS_Subset
      <4>4. IsFiniteSet(here) /\ Cardinality(here) <= Cardinality(there)
        BY <4>2, <4>3, FS_Subset
      <4>5. Cardinality(here) \in Nat /\ Cardinality(there) \in Nat
        BY <4>3, <4>4, FS_CardinalityType
      <4>6. Cardinality(here) > Cardinality(there)
        BY <3>6, <3>7 DEF Better, Resolving
      <4> HIDE DEF here, there
      <4> QED BY <4>4, <4>5, <4>6
    <3> QED BY <3>3, <3>5, <3>6
  <2> QED BY <2>4, <2>6, <2>7
<1>7. BuildingsHold(package')
  BY <1>3, <1>6 DEF BuildingsHold
<1> QED BY <1>1, <1>4, <1>5, <1>7, OwnPrimes DEF OwnInv, Repairing

\* The repair by name leaves a path of more than one.
LEMMA OwnRepairsBare ==
    ASSUME FolderedInv, OwnInv, RepairBare
    PROVE  OwnInv'
<1>1. phase = "bare" /\ phase' = "entry" /\ given' = given
  BY PhasesAre DEF RepairBare, Fixed
<1>2. /\ given \in Inputs /\ IsPackage(package)
      /\ HoldsOwn(package) /\ BuildingsHold(package) /\ NoMeshGone(package)
  BY <1>1 DEF FolderedInv, FixerInv, FilesOK, OwnInv, Early, Repairing
<1>3. /\ IsPackage(package') /\ DOMAIN package' = DOMAIN package
      /\ \A p \in DOMAIN package : Same(package'[p], package[p]) /\ (~Text(package[p]) => package'[p] = package[p])
      /\ \A p \in TextFiles(package) :
            /\ DOMAIN package'[p].refs = DOMAIN package[p].refs
            /\ \A i \in DOMAIN package[p].refs : package'[p].refs[i] = Bared(package[p].refs[i])
  BY <1>2, BaresAre DEF Changes
<1>4. HoldsOwn(package')
  BY <1>2, <1>3 DEF HoldsOwn, Same
<1>5. NoMeshGone(package')
  BY <1>2, <1>3 DEF NoMeshGone
<1>6. ASSUME NEW p \in DOMAIN package \cap DOMAIN given.package, OfBuilding(p), Alone(p)
      PROVE  Settled(package', p) \/ AsTheyWere(package', p)
  <2>1. Settled(package, p) \/ AsTheyWere(package, p)
    BY <1>2, <1>6 DEF BuildingsHold
  <2>2. CASE ~Text(package[p])
    BY <1>3, <2>1, <2>2 DEF Settled, AsTheyWere
  <2>3. CASE Text(package[p])
    <3>0. p \in TextFiles(package)
      BY <2>3 DEF TextFiles
    <3>1. package[p].refs \in Seq(Ref)
      BY <1>2, SomeFile DEF File
    <3>2. ASSUME Settled(package, p), NEW new \in RefsOf(package'[p]), new.kind = "res",
                 Own(p) \o new.was \in DOMAIN given.package \cap DOMAIN package'
          PROVE  new.path = Own(p) \o new.was
      <4>1. PICK i \in DOMAIN package[p].refs : new = Bared(package[p].refs[i])
        BY <1>3, <3>0, <3>2 DEF RefsOf, Range
      <4> DEFINE r == package[p].refs[i]
      <4>2. r \in Ref /\ r \in RefsOf(package[p]) /\ new = Bared(r)
        BY <3>1, <4>1 DEF RefsOf, Range
      <4> HIDE DEF r
      <4>3. r.kind = "res" /\ r.was = new.was /\ r.was \in Path /\ (new = r \/ Len(r.path) = 1)
        BY <3>2, <4>2, BaredIs DEF Ref
      <4>4. r.path = Own(p) \o new.was
        BY <1>3, <3>2, <4>2, <4>3 DEF Settled
      <4>5. Len(Own(p) \o new.was) > 2
        BY <1>6, <4>3, OwnIs
      <4> QED BY <4>3, <4>4, <4>5
    <3>3. ASSUME AsTheyWere(package, p) PROVE AsTheyWere(package', p)
      <4>1. ASSUME NEW r \in RefsOf(given.package[p]), r.kind = "res", Domestic(r.path), Len(r.path) > 1
            PROVE  r \in RefsOf(package'[p])
        <5>1. PICK i \in DOMAIN package[p].refs : r = package[p].refs[i]
          BY <3>3, <4>1 DEF AsTheyWere, RefsOf, Range
        <5>2. r \in Ref
          BY <3>1, <5>1
        <5>3. Bared(r) = r
          <6>1. Len(r.path) \in Nat /\ Len(r.path) # 1
            BY <4>1, <5>2, PathsAre DEF Ref
          <6> QED BY <6>1 DEF Bared
        <5> QED BY <1>3, <3>0, <5>1, <5>3 DEF RefsOf, Range
      <4> QED BY <4>1 DEF AsTheyWere
    <3> QED BY <2>1, <3>2, <3>3 DEF Settled
  <2> QED BY <2>2, <2>3
<1>7. BuildingsHold(package')
  BY <1>3, <1>6 DEF BuildingsHold
<1> QED BY <1>1, <1>4, <1>5, <1>7, OwnPrimes DEF OwnInv, Repairing

-----------------------------------------------------------------------------
(* A building's own things, after the repairs.                             *)

\* Below the top the package is as it was, and nothing goes.
DeepSame(old, new) ==
    /\ DOMAIN old \subseteq DOMAIN new
    /\ \A q \in DOMAIN new : Len(q) > 1 => q \in DOMAIN old /\ new[q] = old[q]

LEMMA DeepItself == \A pkg : DeepSame(pkg, pkg)
BY DEF DeepSame

LEMMA DeepFollows ==
    ASSUME NEW a, NEW b, NEW c, DeepSame(a, b), DeepSame(b, c)
    PROVE  DeepSame(a, c)
BY DEF DeepSame

LEMMA PutIsDeep ==
    ASSUME NEW pkg, NEW path, Len(path) = 1, NEW file
    PROVE  DeepSame(pkg, Put(pkg, path, file))
<1>1. 1 # 2 /\ ~(1 > 1)
  OBVIOUS
<1> QED BY <1>1 DEF DeepSame, Put, Over

LEMMA WiredIsDeep ==
    ASSUME NEW pkg, NEW path, Len(path) = 1, NEW file
    PROVE  DeepSame(pkg, Wired(pkg, path, file))
<1> DEFINE put == Put(pkg, path, file)
           new == Wired(pkg, path, file)
<1>1. DeepSame(pkg, put)
  BY PutIsDeep
<1>2. new = [put EXCEPT ![Entry].refs = Append(@, Res(path))]
  BY DEF Wired
<1> HIDE DEF put, new
<1>3. DOMAIN new = DOMAIN put /\ \A q \in DOMAIN put : q # Entry => new[q] = put[q]
  BY <1>2
<1>4. \A q : Len(q) > 1 => q # Entry
  BY OwnPaths
<1>5. DeepSame(put, new)
  BY <1>3, <1>4 DEF DeepSame
<1>6. DeepSame(pkg, new)
  BY <1>1, <1>5, DeepFollows
<1> QED BY <1>6 DEF new

LEMMA RecordedIsDeep ==
    ASSUME NEW pkg, NEW names
    PROVE  DeepSame(pkg, Recorded(pkg, names))
<1>1. \A name : ~(Len(<<name>>) > 1)
  OBVIOUS
<1> QED BY <1>1 DEF DeepSame, Recorded, Over

\* Such a step keeps what the buildings have.
LEMMA DeepKept ==
    ASSUME given \in Inputs, NEW old, NEW new, IsPackage(new), DeepSame(old, new)
    PROVE  /\ NoMeshGone(old) => NoMeshGone(new)
           /\ HoldsOwn(old) => HoldsOwn(new)
           /\ BuildingsHold(old) => BuildingsHold(new)
<1>1. NoMeshGone(old) => NoMeshGone(new)
  BY DEF NoMeshGone, DeepSame
<1>2. HoldsOwn(old) => HoldsOwn(new)
  BY DEF HoldsOwn, DeepSame
<1>3. ASSUME BuildingsHold(old), NEW p \in DOMAIN new \cap DOMAIN given.package, OfBuilding(p), Alone(p)
      PROVE  Settled(new, p) \/ AsTheyWere(new, p)
  <2>1. p \in DOMAIN old /\ new[p] = old[p] /\ new[p].refs \in Seq(Ref)
    <3>1. Len(p) > 1
      BY <1>3 DEF OfBuilding
    <3>2. new[p] \in File
      BY SomeFile
    <3> QED BY <3>1, <3>2 DEF DeepSame, File
  <2>2. Settled(old, p) \/ AsTheyWere(old, p)
    BY <1>3, <2>1 DEF BuildingsHold
  <2>3. ASSUME NEW r \in RefsOf(new[p]), Own(p) \o r.was \in DOMAIN new PROVE Own(p) \o r.was \in DOMAIN old
    <3>1. r.was \in Path
      <4>1. r \in Ref
        BY <2>1, <2>3 DEF RefsOf, Range
      <4> QED BY <4>1 DEF Ref
    <3>2. Len(Own(p) \o r.was) > 2 /\ Own(p) \o r.was \in Path
      BY <1>3, <3>1, OwnIs
    <3>3. Len(Own(p) \o r.was) > 1
      BY <3>2, PathsAre
    <3> QED BY <2>3, <3>3 DEF DeepSame
  <2> QED BY <2>1, <2>2, <2>3 DEF Settled, AsTheyWere
<1> QED BY <1>1, <1>2, <1>3 DEF BuildingsHold

\* A step after the repairs that only writes at the top.
LEMMA OwnWrites ==
    ASSUME FolderedInv, FolderedInv', OwnInv, WriteEntry \/ Occluders \/ WarmUp \/ Judge \/ Describe \/ Guard
    PROVE  OwnInv'
<1> USE PhasesAre
<1>1. /\ given' = given /\ phase \in Written \cup {"entry"} /\ phase' \in Written \cup {"refused"}
      /\ phase' \in {"occluders", "merge"} => phase \in {"entry", "occluders"}
  BY DEF WriteEntry, Occluders, WarmUp, Judge, Describe, Guard, Refuse, Fixed, Written
<1>2. given \in Inputs /\ IsPackage(package')
  BY DEF FolderedInv, FixerInv, FilesOK
<1>3. DeepSame(package, package')
  <2> DEFINE scene == Scene("occluders", <<>>)
             warm == [is |-> "warmup", type |-> "script", refs |-> <<>>]
             list == SetToSeq(Instanced)
             entry == Scene("entry", list)
  <2>1. CASE WriteEntry
    <3>1. package' = package \/ package' = Put(package, Entry, entry)
      BY <2>1 DEF WriteEntry
    <3> HIDE DEF entry, list
    <3> QED BY <3>1, DeepItself, PutIsDeep, OwnPaths
  <2>2. CASE Occluders \/ WarmUp
    <3>1. \/ package' = package
          \/ package' = Wired(package, <<"occluders.tscn">>, scene)
          \/ package' = Wired(package, <<"warmup.gd">>, warm)
      BY <2>2 DEF Occluders, WarmUp, Refuse
    <3>2. Len(<<"occluders.tscn">>) = 1 /\ Len(<<"warmup.gd">>) = 1
      OBVIOUS
    <3> HIDE DEF scene, warm
    <3> QED BY <3>1, <3>2, DeepItself, WiredIsDeep
  <2>3. CASE Judge
    BY <2>3, RecordedIsDeep DEF Judge
  <2>4. CASE Describe
    <3> DEFINE described == Recorded(package, MoreRecords)
    <3>1. package' = Recorded(described, LastRecords)
      BY <2>4 DEF Describe, MoreRecords, LastRecords
    <3>2. DeepSame(package, described)
      BY RecordedIsDeep
    <3> HIDE DEF described
    <3>3. DeepSame(described, package')
      BY <3>1, RecordedIsDeep
    <3> QED BY <3>2, <3>3, DeepFollows
  <2>5. CASE Guard
    BY <2>5, DeepItself DEF Guard
  <2> QED BY <2>1, <2>2, <2>3, <2>4, <2>5
<1>4. /\ HoldsOwn(package) /\ BuildingsHold(package)
      /\ phase \in {"entry", "occluders"} => NoMeshGone(package)
  BY <1>1 DEF OwnInv, Written, Repairing, Early
<1>5. /\ HoldsOwn(package') /\ BuildingsHold(package')
      /\ phase \in {"entry", "occluders"} => NoMeshGone(package')
  BY <1>2, <1>3, <1>4, DeepKept
<1> QED BY <1>1, <1>5, OwnPrimes DEF OwnInv, Written, Repairing, Early

\* A merge writes over nothing that was given, and a building's own paths are no modules.
LEMMA OwnMerges ==
    ASSUME FolderedInv, OwnInv, MergeModules
    PROVE  OwnInv'
<1>1. phase = "merge" /\ phase' \in {"warmup", "refused"} /\ given' = given
  BY PhasesAre DEF MergeModules, Refuse, Fixed
<1>2. given \in Inputs /\ IsPackage(package) /\ HoldsOwn(package) /\ BuildingsHold(package) /\ NoMeshGone(package)
  BY <1>1 DEF FolderedInv, FixerInv, FilesOK, OwnInv, Repairing
<1>3. CASE package' = package
  BY <1>1, <1>2, <1>3, OwnPrimes DEF OwnInv, Repairing, Early
<1>4. CASE package' # package
  <2>1. PICK modules \in SUBSET UNION {Kit(package, Front(scene)) : scene \in Buildings} :
                LET scenes == {p \in Buildings : Resources(package[p]) \cap modules # {}}
                    pkg    == Merged(package, scenes, modules)
                IN  package' = Without(pkg, UNION {Unnamed(pkg, Front(scene)) : scene \in scenes})
    BY <1>4 DEF MergeModules, Refuse
  <2> DEFINE scenes == {p \in Buildings : Resources(package[p]) \cap modules # {}}
             pkg    == Merged(package, scenes, modules)
             gone   == UNION {Unnamed(pkg, Front(scene)) : scene \in scenes}
  <2>2. package' = Without(pkg, gone)
    BY <2>1
  <2>3. Foldable(package, scenes)
    BY <1>2, ScenesAre DEF Foldable
  <2> HIDE DEF gone, scenes
  <2>4. Folds(package, scenes, modules, pkg)
    BY <2>3, MergedIs
  <2> HIDE DEF pkg
  <2>5. DOMAIN package' \subseteq DOMAIN pkg /\ \A q \in DOMAIN package' : package'[q] = pkg[q]
    <3>1. IsPackage(pkg)
      BY <2>4 DEF Folds
    <3>2. /\ DOMAIN Without(pkg, gone) = DOMAIN pkg \ gone
          /\ \A q \in DOMAIN pkg \ gone : Without(pkg, gone)[q] = pkg[q]
      BY ONLY <3>1, WithoutIs
    <3> QED BY <2>2, <3>2
  <2>6. \A scene \in scenes : OfBuilding(scene)
    BY <2>3 DEF Foldable
  <2>7. ASSUME NEW q \in DOMAIN package', q \in DOMAIN given.package PROVE q \in DOMAIN package
    <3>1. CASE q \in {Mesh(scene) : scene \in scenes}
      <4>1. Last(q) = "side.res"
        BY <2>6, <3>1, MeshIs
      <4> QED BY <1>2, <2>7, <4>1 DEF NoMeshGone
    <3> QED BY <2>4, <2>5, <3>1 DEF Folds
  <2>8. HoldsOwn(package')
    BY <1>2, <2>4, <2>5, <2>7 DEF HoldsOwn, Folds, Same
  <2>9. ASSUME NEW m \in modules PROVE m[1] = "lot"
    <3>1. PICK scene \in Buildings : m \in Kit(package, Front(scene))
      OBVIOUS
    <3>2. OfBuilding(scene)
      BY <1>2, SomeFile DEF Buildings, OfBuilding
    <3>3. Front(scene) \in Path /\ Front(scene)[1] = "lot"
      BY <3>2, MeshIs
    <3> QED BY <1>2, <3>1, <3>3, KitIs
  <2>10. ASSUME NEW p \in DOMAIN package' \cap DOMAIN given.package, OfBuilding(p), Alone(p)
         PROVE  Settled(package', p) \/ AsTheyWere(package', p)
    <3>1. p \in DOMAIN package /\ package'[p] = pkg[p] /\ package[p].refs \in Seq(Ref)
      BY <1>2, <2>5, <2>7, SomeFile DEF File
    <3>2. Settled(package, p) \/ AsTheyWere(package, p)
      BY <1>2, <2>10, <3>1 DEF BuildingsHold
    <3>3. CASE p \notin scenes
      <4>1. package'[p] = package[p]
        BY <2>4, <3>1, <3>3 DEF Folds
      <4> QED BY <2>7, <3>2, <4>1 DEF Settled, AsTheyWere
    <3>4. CASE p \in scenes
      <4>1. package'[p].refs = FoldedRefs(package, p, modules)
        BY <2>4, <3>1, <3>4 DEF Folds
      <4>2. /\ DOMAIN package'[p].refs = DOMAIN package[p].refs
            /\ \A i \in DOMAIN package[p].refs : LET r == package[p].refs[i] IN
                  /\ package'[p].refs[i] \in {r, Res(Mesh(p))}
                  /\ r.path \notin modules => package'[p].refs[i] = r
        BY <4>1 DEF FoldedRefs
      <4>3. ASSUME Settled(package, p), NEW r \in RefsOf(package'[p]), r.kind = "res",
                   Own(p) \o r.was \in DOMAIN given.package \cap DOMAIN package'
            PROVE  r.path = Own(p) \o r.was
        <5>1. Own(p) \o r.was \in DOMAIN package
          BY <2>7, <4>3
        <5>2. CASE r = Res(Mesh(p))
          <6>1. Mesh(p) \in Path /\ Mesh(p)[1] = "lot"
            BY <2>10, MeshIs
          <6>2. r.was = Mesh(p)
            BY <5>2, <6>1, ResIs
          <6>3. Domestic(Mesh(p))
            BY <1>2, <2>10, <4>3, <6>1, <6>2, ItsIsDomestic
          <6> QED BY <6>1, <6>3 DEF Domestic, Reserved
        <5>3. CASE r \in RefsOf(package[p])
          BY <4>3, <5>1, <5>3 DEF Settled
        <5> QED BY <4>2, <4>3, <5>2, <5>3 DEF RefsOf, Range
      <4>4. ASSUME AsTheyWere(package, p), NEW r \in RefsOf(given.package[p]), r.kind = "res", Domestic(r.path),
                   Len(r.path) > 1
            PROVE  r \in RefsOf(package'[p])
        <5>1. PICK i \in DOMAIN package[p].refs : r = package[p].refs[i]
          BY <4>4 DEF AsTheyWere, RefsOf, Range
        <5>2. r.path \notin modules
          BY <2>9, <4>4 DEF Domestic, Reserved
        <5> QED BY <4>2, <5>1, <5>2 DEF RefsOf, Range
      <4> QED BY <3>2, <4>3, <4>4 DEF Settled, AsTheyWere
    <3> QED BY <3>3, <3>4
  <2>11. BuildingsHold(package')
    BY <2>10 DEF BuildingsHold
  <2> QED BY <1>1, <2>8, <2>11, OwnPrimes DEF OwnInv, Repairing, Early
<1> QED BY <1>3, <1>4

LEMMA OwnStep ==
    ASSUME FolderedInv, FolderedInv', OwnInv, Next
    PROVE  OwnInv'
<1>1. folders' = folders \cup Folders(package')
  BY DEF Next
<1>2. CASE Strip
  BY <1>1, <1>2, OwnStrips
<1>3. CASE Repair
  BY <1>1, <1>3, OwnScrubs, OwnRewrites, OwnEndsPass, OwnReroots, OwnRepairsBare DEF Repair
<1>4. CASE Build
  BY <1>4, OwnWrites, OwnMerges DEF Build
<1>5. CASE Judge \/ Describe \/ Guard
  BY <1>5, OwnWrites
<1> QED BY <1>2, <1>3, <1>4, <1>5 DEF Next

\* A building of which anything in a folder is only under its own, and from whose paths
\* nothing of lot/ can be reached, ships with its own things: _localize_res_roots takes its
\* own folder or none, and one that took none names its lost thing still and is refused.
THEOREM OwnThingsShip == Spec => []KeepsItsOwn
<1>1. FolderedInv /\ FolderedInv' /\ OwnInv /\ [Next]_vars => OwnInv'
  <2>1. ASSUME OwnInv, UNCHANGED vars PROVE OwnInv'
    BY <2>1, OwnPrimes DEF vars, OwnInv, KeptFolders
  <2> QED BY <2>1, OwnStep
<1>2. FolderedInv /\ OwnInv /\ ClosedInv => KeepsItsOwn
  <2> SUFFICES ASSUME FolderedInv, OwnInv, ClosedInv, phase = "shipped",
                      NEW p \in Buildings \cap DOMAIN given.package,
                      NEW lost \in Resources(given.package[p]),
                      Len(lost) > 1, Own(p) \o lost \in DOMAIN given.package, ~Exists(package, lost),
                      Alone(p),
                      NEW now \in RefsOf(package[p]), now.kind = "res",
                      Own(p) \o now.was \in DOMAIN given.package \cap DOMAIN package
               PROVE  now.path \in DOMAIN package
                      /\ package[now.path].is = given.package[Own(p) \o now.was].is
    BY DEF KeepsItsOwn, Alone
  <2>1. /\ given \in Inputs /\ IsPackage(package) /\ IsPackage(given.package)
        /\ HoldsOwn(package) /\ BuildingsHold(package) /\ Open(package) = {}
    BY GivenIs DEF FolderedInv, FixerInv, FilesOK, OwnInv, ClosedInv, Repairing, Given
  <2>2. OfBuilding(p) /\ p \in DOMAIN package /\ now \in Ref
    <3>1. p \in DOMAIN package /\ OfBuilding(p) /\ package[p].refs \in Seq(Ref)
      BY <2>1, SomeFile DEF Buildings, OfBuilding, File
    <3> QED BY <3>1 DEF RefsOf, Range
  <2>3. CASE Settled(package, p)
    <3>1. now.path = Own(p) \o now.was
      BY <2>3 DEF Settled
    <3>2. (Own(p) \o now.was)[1] = "lot" /\ Len(Own(p) \o now.was) > 2 /\ Own(p) \o now.was \in Path
      BY <2>2, OwnIs DEF Ref
    <3>3. Len(Own(p) \o now.was) > 1
      BY <3>2, PathsAre
    <3> QED BY <2>1, <3>1, <3>2, <3>3 DEF HoldsOwn
  <2>4. CASE AsTheyWere(package, p)
    <3>1. PICK r \in RefsOf(given.package[p]) : r.kind = "res" /\ r.path = lost
      BY DEF Resources
    <3>2. lost \in Path
      <4>1. given.package[p].refs \in Seq(Ref)
        BY <2>1, SomeFile DEF File
      <4>2. r \in Ref
        BY <3>1, <4>1 DEF RefsOf, Range
      <4> QED BY <3>1, <4>2 DEF Ref
    <3>3. Domestic(lost)
      BY <2>1, <2>2, <3>2, ItsIsDomestic
    <3>4. r \in RefsOf(package[p])
      BY <2>4, <3>1, <3>3 DEF AsTheyWere
    <3>5. Resolves(package, p, r)
      BY <2>1, <2>2, <3>4 DEF Open
    <3>6. There(package, <<>>, lost) /\ lost[1] \notin Drives
      BY <3>1, <3>3, <3>5 DEF Resolves, Domestic, Reserved
    <3> QED BY <3>2, <3>6, AtTheRoot
  <2> QED BY <2>1, <2>2, <2>3, <2>4 DEF BuildingsHold
<1> QED BY <1>1, <1>2, OwnStart, FolderedHolds, ClosedHolds, PTL DEF Spec

==============================================================================
