--------------------------- MODULE NameTreeProof ---------------------------
(***************************************************************************)
(* Theorems about NameTree: that the directory tree stays one, however the *)
(* handlers follow and assign its pointers, for any names, any paths and   *)
(* any number of nodes.                                                    *)
(***************************************************************************)
EXTENDS NameTree, FiniteSetTheorems, SequenceTheorems, TLAPS

-----------------------------------------------------------------------------
(* Induction over a set of numbers.  What holds a property is put into a   *)
(* set, for lists and paths are followed step by step.                     *)

\* If n were missing, k |-> k + 1 would map the members below n into
\* themselves without 0, which is one less.
LEMMA NatSetInduction ==
    ASSUME NEW I, 0 \in I, \A n \in Nat : n \in I => n + 1 \in I
    PROVE  \A n \in Nat : n \in I
<1>1. SUFFICES ASSUME NEW n \in Nat, n \notin I PROVE FALSE
  OBVIOUS
<1> DEFINE A == {k \in 0..n : k \in I}
           f == [k \in A |-> k + 1]
<1>2. IsFiniteSet(0..n)
  BY FS_Interval
<1>3. IsFiniteSet(A) /\ 0 \in A
  BY <1>1, <1>2, FS_Subset
<1>4. f \in [A -> A \ {0}]
  <2>1. ASSUME NEW k \in A PROVE k + 1 \in A \ {0}
    BY <1>1
  <2> QED BY <2>1
<1>5. IsFiniteSet(A \ {0}) /\ Cardinality(A \ {0}) = Cardinality(A) - 1 /\ Cardinality(A) \in Nat
  BY <1>3, FS_RemoveElement, FS_CardinalityType
<1>6. \E x, y \in A : x # y /\ f[x] = f[y]
  <2> HIDE DEF A, f
  <2> QED BY <1>3, <1>4, <1>5, FS_PigeonHole
<1>7. \A x, y \in A : f[x] = f[y] => x = y
  BY DEF A, f
<1> QED BY <1>6, <1>7

\* The same up to a bound.
LEMMA StartsAt ==
    ASSUME NEW I, NEW m \in Nat, 0 \in I, \A n \in Nat : n < m /\ n \in I => n + 1 \in I
    PROVE  \A n \in 0..m : n \in I
<1> DEFINE J == {n \in Nat : n <= m => n \in I}
<1>1. 0 \in J
  OBVIOUS
<1>2. \A n \in Nat : n \in J => n + 1 \in J
  OBVIOUS
<1> HIDE DEF J
<1>3. \A n \in Nat : n \in J
  BY <1>1, <1>2, NatSetInduction
<1> QED BY <1>3 DEF J

\* The community modules choose least and greatest elements: there are some.
LEMMA MinOf ==
    ASSUME NEW S, S \subseteq Nat, S # {}
    PROVE  Min(S) \in S /\ \A k \in S : Min(S) <= k
<1>1. \E n \in S : \A k \in S : n <= k
  <2>1. SUFFICES ASSUME \A n \in S : \E k \in S : k < n PROVE FALSE
    OBVIOUS
  <2> DEFINE I == {n \in Nat : \A k \in S : n < k}
  <2>2. 0 \in I
    BY <2>1
  <2>3. ASSUME NEW n \in Nat, n \in I PROVE n + 1 \in I
    <3>1. n + 1 \notin S
      <4>1. SUFFICES ASSUME n + 1 \in S PROVE FALSE
        OBVIOUS
      <4>2. PICK k \in S : k < n + 1
        BY <2>1, <4>1
      <4> QED BY <2>3, <4>2
    <3>2. ASSUME NEW k \in S PROVE n + 1 < k
      BY <2>3, <3>1
    <3> QED BY <3>2
  <2> HIDE DEF I
  <2>4. \A n \in Nat : n \in I
    BY <2>2, <2>3, NatSetInduction
  <2>5. PICK k \in S : TRUE
    OBVIOUS
  <2>6. k \in I
    BY <2>4, <2>5
  <2> QED BY <2>5, <2>6 DEF I
<1> QED BY <1>1 DEF Min

LEMMA MaxOf ==
    ASSUME NEW n \in Nat, NEW S, S \subseteq 1..n, S # {}
    PROVE  Max(S) \in S /\ \A k \in S : k <= Max(S)
<1> DEFINE T == {n - k : k \in S}
<1>1. T \subseteq Nat /\ T # {}
  <2>1. ASSUME NEW k \in S PROVE n - k \in Nat
    <3>1. k \in 1..n
      OBVIOUS
    <3> QED BY <3>1
  <2>2. PICK k \in S : TRUE
    OBVIOUS
  <2>3. n - k \in T
    BY <2>2
  <2> QED BY <2>1, <2>3
<1>2. PICK t \in T : \A u \in T : t <= u
  BY <1>1, MinOf
<1>3. PICK m \in S : t = n - m
  BY <1>2
<1>4. ASSUME NEW k \in S PROVE m >= k
  <2>1. n - k \in T
    OBVIOUS
  <2>2. \A j \in 1..n : j \in Nat
    OBVIOUS
  <2>3. k \in 1..n /\ m \in 1..n
    OBVIOUS
  <2>4. k \in Nat /\ m \in Nat
    BY <2>2, <2>3
  <2>5. t <= n - k
    BY <1>2, <2>1
  <2> QED BY <1>3, <2>4, <2>5
<1> QED BY <1>4 DEF Max

-----------------------------------------------------------------------------
(* Lists.                                                                  *)

\* The node behind y.
Behind(nx, y) == IF y = Nil THEN Nil ELSE nx[y]

Course(nx, x, g, n) == g[0] = x /\ \A k \in Nat : k < n => g[k + 1] = Behind(nx, g[k])

\* A function is defined by its next element: one for each length, by
\* induction over the length.
LEMMA CourseExists ==
    ASSUME NEW nx, NEW x PROVE \A n \in Nat : \E g : Course(nx, x, g, n)
<1> DEFINE I == {n \in Nat : \E g : Course(nx, x, g, n)}
<1>1. 0 \in I
  <2> DEFINE g == [k \in {0} |-> x]
  <2>1. Course(nx, x, g, 0)
    BY DEF Course
  <2> QED BY <2>1
<1>2. ASSUME NEW n \in Nat, n \in I PROVE n + 1 \in I
  <2>1. PICK g : Course(nx, x, g, n)
    BY <1>2
  <2> DEFINE h == [k \in 0..(n + 1) |-> IF k = n + 1 THEN Behind(nx, g[n]) ELSE g[k]]
  <2>2. h[0] = x
    BY <2>1 DEF Course
  <2>3. ASSUME NEW k \in Nat, k < n + 1 PROVE h[k + 1] = Behind(nx, h[k])
    BY <2>1, <2>3 DEF Course
  <2> HIDE DEF h
  <2>4. Course(nx, x, h, n + 1)
    BY <2>2, <2>3 DEF Course
  <2> QED BY <2>4
<1> HIDE DEF I
<1>3. \A n \in Nat : n \in I
  BY <1>1, <1>2, NatSetInduction
<1> QED BY <1>3 DEF I

AtFrom(nx, x, f) ==
    [k \in 0..(MaxNodes + 1) |-> IF k = 0 THEN x ELSE IF f[k - 1] = Nil THEN Nil ELSE nx[f[k - 1]]]

\* So At is what its definition says.
LEMMA AtSolves ==
    ASSUME MaxNodes \in Nat, NEW nx, NEW x
    PROVE  At(nx, x) = AtFrom(nx, x, At(nx, x))
<1>1. PICK g : Course(nx, x, g, MaxNodes + 1)
  BY CourseExists
<1> DEFINE h == [k \in 0..(MaxNodes + 1) |-> g[k]]
<1>2. h = AtFrom(nx, x, h)
  <2>1. ASSUME NEW k \in 0..(MaxNodes + 1)
        PROVE  h[k] = IF k = 0 THEN x ELSE IF h[k - 1] = Nil THEN Nil ELSE nx[h[k - 1]]
    <3>1. CASE k = 0
      BY <1>1, <3>1 DEF Course
    <3>2. CASE k # 0
      <4>1. k - 1 \in Nat /\ k - 1 < MaxNodes + 1 /\ (k - 1) + 1 = k /\ k - 1 \in 0..(MaxNodes + 1)
        BY <3>2
      <4>2. g[k] = Behind(nx, g[k - 1])
        BY <1>1, <4>1 DEF Course
      <4> QED BY <3>2, <4>1, <4>2 DEF Behind
    <3> QED BY <3>1, <3>2
  <2> QED BY <2>1 DEF AtFrom
<1> HIDE DEF h
<1>3. At(nx, x) = CHOOSE f : f = AtFrom(nx, x, f)
  BY DEF At, AtFrom
<1> QED BY <1>2, <1>3

LEMMA AtFunction ==
    ASSUME MaxNodes \in Nat, NEW nx, NEW x
    PROVE  At(nx, x) = [k \in 0..(MaxNodes + 1) |-> At(nx, x)[k]]
<1>1. PICK a : a = At(nx, x)
  OBVIOUS
<1>2. a = [k \in 0..(MaxNodes + 1) |-> IF k = 0 THEN x ELSE IF a[k - 1] = Nil THEN Nil ELSE nx[a[k - 1]]]
  BY <1>1, AtSolves DEF AtFrom
<1>3. a = [k \in 0..(MaxNodes + 1) |-> a[k]]
  <2>1. DOMAIN a = 0..(MaxNodes + 1) /\ a = [k \in DOMAIN a |-> a[k]]
    BY <1>2
  <2> QED BY <2>1
<1> QED BY <1>1, <1>3

LEMMA AtSteps ==
    ASSUME MaxNodes \in Nat, NEW nx, NEW x
    PROVE  /\ DOMAIN At(nx, x) = 0..(MaxNodes + 1)
           /\ At(nx, x)[0] = x
           /\ \A k \in 0..MaxNodes : At(nx, x)[k + 1] = Behind(nx, At(nx, x)[k])
<1> DEFINE a == At(nx, x)
<1>1. a = [k \in 0..(MaxNodes + 1) |-> IF k = 0 THEN x ELSE IF a[k - 1] = Nil THEN Nil ELSE nx[a[k - 1]]]
  BY AtSolves DEF AtFrom
<1> HIDE DEF a
<1>2. DOMAIN a = 0..(MaxNodes + 1) /\ a[0] = x
  BY <1>1
<1>3. ASSUME NEW k \in 0..MaxNodes PROVE a[k + 1] = Behind(nx, a[k])
  <2>1. k + 1 \in 0..(MaxNodes + 1) /\ k + 1 # 0 /\ (k + 1) - 1 = k
    OBVIOUS
  <2> QED BY <1>1, <2>1 DEF Behind
<1> QED BY <1>2, <1>3 DEF a

LEMMA ListedAt ==
    ASSUME MaxNodes \in Nat, NEW nx, NEW x
    PROVE  /\ \A y : y \in Listed(nx, x) <=> y # Nil /\ \E k \in 0..MaxNodes : At(nx, x)[k] = y
           /\ Endless(nx, x) <=> At(nx, x)[MaxNodes + 1] # Nil
BY DEF Listed, Endless

Kept(U, p) == \A y \in U : p[y] \in U \cup {Nil}

\* A set that the next pointers do not leave holds the list.
LEMMA ListedWithin ==
    ASSUME MaxNodes \in Nat, NEW nx, NEW x, NEW S, x \in S \cup {Nil}, \A y \in S : nx[y] \in S \cup {Nil}
    PROVE  /\ \A k \in 0..(MaxNodes + 1) : At(nx, x)[k] \in S \cup {Nil}
           /\ Listed(nx, x) \subseteq S
<1> DEFINE I == {k \in Nat : At(nx, x)[k] \in S \cup {Nil}}
<1>1. 0 \in I
  BY AtSteps
<1>2. ASSUME NEW n \in Nat, n < MaxNodes + 1, n \in I PROVE n + 1 \in I
  <2>1. At(nx, x)[n + 1] = Behind(nx, At(nx, x)[n])
    BY <1>2, AtSteps
  <2> QED BY <1>2, <2>1 DEF Behind
<1> HIDE DEF I
<1>3. \A n \in 0..(MaxNodes + 1) : n \in I
  BY <1>1, <1>2, StartsAt
<1> QED BY <1>3, ListedAt DEF I

LEMMA ListedNil == ASSUME MaxNodes \in Nat, NEW nx PROVE Listed(nx, Nil) = {} /\ ~Endless(nx, Nil)
<1>1. PICK S : S = {}
  OBVIOUS
<1>2. Nil \in S \cup {Nil} /\ \A y \in S : nx[y] \in S \cup {Nil}
  BY <1>1
<1>3. Listed(nx, Nil) \subseteq S /\ At(nx, Nil)[MaxNodes + 1] \in S \cup {Nil}
  <2>1. PICK x : x = Nil
    OBVIOUS
  <2>2. x \in S \cup {Nil}
    BY <2>1
  <2>3. Listed(nx, x) \subseteq S /\ \A k \in 0..(MaxNodes + 1) : At(nx, x)[k] \in S \cup {Nil}
    BY <1>2, <2>2, ListedWithin
  <2>4. MaxNodes + 1 \in 0..(MaxNodes + 1)
    OBVIOUS
  <2> QED BY <2>1, <2>3, <2>4
<1> QED BY <1>1, <1>3, ListedAt

LEMMA ListedFirst == ASSUME MaxNodes \in Nat, NEW nx, NEW x, x # Nil PROVE x \in Listed(nx, x)
BY AtSteps, ListedAt

LEMMA ListedNext ==
    ASSUME MaxNodes \in Nat, NEW nx, NEW x, ~Endless(nx, x), NEW y \in Listed(nx, x), nx[y] # Nil
    PROVE  nx[y] \in Listed(nx, x)
<1>1. PICK k \in 0..MaxNodes : At(nx, x)[k] = y /\ y # Nil
  BY ListedAt
<1>2. At(nx, x)[k + 1] = nx[y]
  BY <1>1, AtSteps DEF Behind
<1>3. k # MaxNodes
  BY <1>2, ListedAt
<1> QED BY <1>2, <1>3, ListedAt

LEMMA ListedLast ==
    ASSUME MaxNodes \in Nat, NEW nx, NEW x, x # Nil, ~Endless(nx, x)
    PROVE  \E y \in Listed(nx, x) : nx[y] = Nil
<1>1. SUFFICES ASSUME \A y \in Listed(nx, x) : nx[y] # Nil PROVE FALSE
  OBVIOUS
<1> DEFINE I == {k \in Nat : At(nx, x)[k] # Nil}
<1>2. 0 \in I
  BY AtSteps
<1>3. ASSUME NEW n \in Nat, n < MaxNodes + 1, n \in I PROVE n + 1 \in I
  <2>1. At(nx, x)[n + 1] = Behind(nx, At(nx, x)[n])
    BY <1>3, AtSteps
  <2>2. At(nx, x)[n] \in Listed(nx, x)
    BY <1>3, ListedAt
  <2> QED BY <1>1, <1>3, <2>1, <2>2 DEF Behind
<1> HIDE DEF I
<1>4. \A n \in 0..(MaxNodes + 1) : n \in I
  BY <1>2, <1>3, StartsAt
<1> QED BY <1>4, ListedAt DEF I

\* The first node of the list that is called m.
LEMMA Found ==
    ASSUME MaxNodes \in Nat, NEW nx, NEW x, NEW m
    PROVE  \/ /\ Find(nx, x, m) \in Listed(nx, x) /\ name[Find(nx, x, m)] = m
              /\ Hits(nx, x, m) # {} /\ Find(nx, x, m) = At(nx, x)[Min(Hits(nx, x, m))]
           \/ /\ \A y \in Listed(nx, x) : name[y] # m
              /\ Find(nx, x, m) = IF Endless(nx, x) THEN Stuck ELSE Nil
<1>1. Hits(nx, x, m) \subseteq Nat
  BY DEF Hits
<1>2. CASE Hits(nx, x, m) # {}
  <2>1. Min(Hits(nx, x, m)) \in Hits(nx, x, m)
    BY <1>1, <1>2, MinOf
  <2>2. Find(nx, x, m) = At(nx, x)[Min(Hits(nx, x, m))]
    BY <1>2 DEF Find
  <2>3. PICK k : k = Min(Hits(nx, x, m))
    OBVIOUS
  <2>4. k \in 0..MaxNodes /\ At(nx, x)[k] # Nil /\ name[At(nx, x)[k]] = m
    BY <2>1, <2>3 DEF Hits
  <2> QED BY <1>2, <2>2, <2>3, <2>4, ListedAt
<1>3. CASE Hits(nx, x, m) = {}
  BY <1>3, ListedAt DEF Find, Hits
<1> QED BY <1>2, <1>3

Links(p) == p \in [Nodes -> Nodes \cup {Nil}]

\* A list that no pointer enters in the middle of ends.
LEMMA ListEnds ==
    ASSUME MaxNodes \in Nat, NEW nx, Links(nx), NEW x \in Nodes \cup {Nil},
           \A y, z \in Nodes : nx[y] = nx[z] /\ nx[y] # Nil => y = z,
           \A y \in Nodes : nx[y] # Nil => nx[y] # x
    PROVE  ~Endless(nx, x)
<1>1. SUFFICES ASSUME Endless(nx, x) PROVE FALSE
  OBVIOUS
<1> DEFINE a == At(nx, x)
           P == 0..(MaxNodes + 1)
<1>2. \A y \in Nodes : nx[y] \in Nodes \cup {Nil}
  BY DEF Links
<1>3. \A k \in P : a[k] \in Nodes \cup {Nil}
  BY <1>2, ListedWithin
<1>4. /\ DOMAIN a = P /\ a[0] = x /\ a[MaxNodes + 1] # Nil
      /\ \A k \in 0..MaxNodes : a[k + 1] = Behind(nx, a[k])
  BY <1>1, AtSteps, ListedAt
<1> HIDE DEF a
<1>5. \A k \in P : a[k] # Nil
  <2> DEFINE I == {k \in Nat : k <= MaxNodes + 1 => a[MaxNodes + 1 - k] # Nil}
  <2>1. 0 \in I
    BY <1>4
  <2>2. ASSUME NEW k \in Nat, k \in I PROVE k + 1 \in I
    <3>1. SUFFICES ASSUME k + 1 <= MaxNodes + 1 PROVE a[MaxNodes - k] # Nil
      OBVIOUS
    <3>2. MaxNodes - k \in 0..MaxNodes /\ (MaxNodes - k) + 1 = MaxNodes + 1 - k
      BY <3>1
    <3>3. a[MaxNodes + 1 - k] # Nil
      BY <2>2, <3>1
    <3> QED BY <1>4, <3>2, <3>3 DEF Behind
  <2> HIDE DEF I
  <2>3. \A k \in Nat : k \in I
    BY <2>1, <2>2, NatSetInduction
  <2>4. ASSUME NEW k \in P PROVE a[k] # Nil
    <3>1. MaxNodes + 1 - k \in I
      BY <2>3
    <3>2. MaxNodes + 1 - k <= MaxNodes + 1 /\ MaxNodes + 1 - (MaxNodes + 1 - k) = k
      OBVIOUS
    <3> QED BY <3>1, <3>2 DEF I
  <2> QED BY <2>4
<1>6. \E j, k \in P : j # k /\ a[j] = a[k]
  <2>1. a \in [P -> Nodes]
    <3>1. a = [k \in P |-> a[k]]
      BY AtFunction DEF a
    <3> QED BY <1>3, <1>5, <3>1
  <2>2. IsFiniteSet(P) /\ Cardinality(P) = MaxNodes + 2
    BY FS_Interval
  <2>3. IsFiniteSet(Nodes) /\ Cardinality(Nodes) = MaxNodes + 1
    BY FS_Interval DEF Nodes
  <2> HIDE DEF P
  <2> QED BY <2>1, <2>2, <2>3, FS_PigeonHole
<1>7. \A j, k \in P : j < k => a[j] # a[k]
  <2> DEFINE I == {j \in Nat : \A k \in P : j < k => a[j] # a[k]}
  <2>1. ASSUME NEW k \in P, 0 < k PROVE k - 1 \in P /\ k - 1 \in 0..MaxNodes /\ a[k] = nx[a[k - 1]] /\ a[k - 1] \in Nodes
    <3>1. k - 1 \in P /\ k - 1 \in 0..MaxNodes /\ (k - 1) + 1 = k
      BY <2>1
    <3> QED BY <1>3, <1>4, <1>5, <3>1 DEF Behind
  <2>2. 0 \in I
    BY <1>4, <1>5, <2>1
  <2>3. ASSUME NEW j \in Nat, j < MaxNodes + 1, j \in I PROVE j + 1 \in I
    <3>1. ASSUME NEW k \in P, j + 1 < k PROVE a[j + 1] # a[k]
      <4>1. j + 1 \in P /\ 0 < j + 1 /\ 0 < k /\ (j + 1) - 1 = j
        BY <2>3, <3>1
      <4>2. a[j + 1] = nx[a[j]] /\ a[j] \in Nodes
        BY <2>1, <4>1
      <4>3. a[k] = nx[a[k - 1]] /\ a[k - 1] \in Nodes /\ k - 1 \in P
        BY <2>1, <4>1
      <4>4. a[j] # a[k - 1]
        <5>1. j < k - 1
          BY <3>1
        <5> QED BY <2>3, <4>3, <5>1
      <4>5. a[k] # Nil
        BY <1>5
      <4> QED BY <4>2, <4>3, <4>4, <4>5
    <3> QED BY <3>1
  <2> HIDE DEF I
  <2>4. \A j \in P : j \in I
    BY <2>2, <2>3, StartsAt
  <2> QED BY <2>4 DEF I
<1> QED BY <1>6, <1>7

-----------------------------------------------------------------------------
(* The nodes below a node.                                                 *)

\* S and everything on the lists of its nodes.
Below(ch, nx, S) == S \cup UNION {Listed(nx, ch[y]) : y \in S}

Deeper(ch, nx, x, g, n) == g[0] = {x} /\ \A k \in Nat : k < n => g[k + 1] = Below(ch, nx, g[k])

\* As for the lists.
LEMMA DeeperExists ==
    ASSUME NEW ch, NEW nx, NEW x PROVE \A n \in Nat : \E g : Deeper(ch, nx, x, g, n)
<1> DEFINE I == {n \in Nat : \E g : Deeper(ch, nx, x, g, n)}
<1>1. 0 \in I
  <2> DEFINE g == [k \in {0} |-> {x}]
  <2>1. Deeper(ch, nx, x, g, 0)
    BY DEF Deeper
  <2> QED BY <2>1
<1>2. ASSUME NEW n \in Nat, n \in I PROVE n + 1 \in I
  <2>1. PICK g : Deeper(ch, nx, x, g, n)
    BY <1>2
  <2> DEFINE h == [k \in 0..(n + 1) |-> IF k = n + 1 THEN Below(ch, nx, g[n]) ELSE g[k]]
  <2>2. h[0] = {x}
    BY <2>1 DEF Deeper
  <2>3. ASSUME NEW k \in Nat, k < n + 1 PROVE h[k + 1] = Below(ch, nx, h[k])
    BY <2>1, <2>3 DEF Deeper
  <2> HIDE DEF h
  <2>4. Deeper(ch, nx, x, h, n + 1)
    BY <2>2, <2>3 DEF Deeper
  <2> QED BY <2>4
<1> HIDE DEF I
<1>3. \A n \in Nat : n \in I
  BY <1>1, <1>2, NatSetInduction
<1> QED BY <1>3 DEF I

SubFrom(ch, nx, x, f) ==
    [k \in 0..MaxNodes |->
        IF k = 0 THEN {x} ELSE f[k - 1] \cup UNION {Listed(nx, ch[y]) : y \in f[k - 1]}]

LEMMA SubtreeSteps ==
    ASSUME MaxNodes \in Nat, NEW ch, NEW nx, NEW x
    PROVE  \E g : Deeper(ch, nx, x, g, MaxNodes) /\ Subtree(ch, nx, x) = g[MaxNodes]
<1>1. PICK g : Deeper(ch, nx, x, g, MaxNodes)
  BY DeeperExists
<1> DEFINE h == [k \in 0..MaxNodes |-> g[k]]
<1>2. h = SubFrom(ch, nx, x, h)
  <2>1. ASSUME NEW k \in 0..MaxNodes
        PROVE  h[k] = IF k = 0 THEN {x} ELSE h[k - 1] \cup UNION {Listed(nx, ch[y]) : y \in h[k - 1]}
    <3>1. CASE k = 0
      BY <1>1, <3>1 DEF Deeper
    <3>2. CASE k # 0
      <4>1. k - 1 \in Nat /\ k - 1 < MaxNodes /\ (k - 1) + 1 = k /\ k - 1 \in 0..MaxNodes
        BY <3>2
      <4>2. g[k] = Below(ch, nx, g[k - 1])
        BY <1>1, <4>1 DEF Deeper
      <4> QED BY <3>2, <4>1, <4>2 DEF Below
    <3> QED BY <3>1, <3>2
  <2> QED BY <2>1 DEF SubFrom
<1> HIDE DEF h
<1> DEFINE F == CHOOSE f : f = SubFrom(ch, nx, x, f)
<1>3. Subtree(ch, nx, x) = F[MaxNodes]
  BY DEF Subtree, SubFrom
<1>4. F = SubFrom(ch, nx, x, F)
  BY <1>2
<1> HIDE DEF F
<1>5. ASSUME NEW k \in 0..MaxNodes
      PROVE  F[k] = IF k = 0 THEN {x} ELSE F[k - 1] \cup UNION {Listed(nx, ch[y]) : y \in F[k - 1]}
  BY <1>4 DEF SubFrom
<1>6. Deeper(ch, nx, x, F, MaxNodes)
  <2>1. ASSUME NEW k \in Nat, k < MaxNodes PROVE F[k + 1] = Below(ch, nx, F[k])
    <3>1. k + 1 \in 0..MaxNodes /\ k + 1 # 0 /\ (k + 1) - 1 = k
      BY <2>1
    <3> QED BY <1>5, <3>1 DEF Below
  <2>2. F[0] = {x}
    <3>1. F = [k \in 0..MaxNodes |->
                  IF k = 0 THEN {x} ELSE F[k - 1] \cup UNION {Listed(nx, ch[y]) : y \in F[k - 1]}]
      BY <1>4 DEF SubFrom
    <3>2. 0 \in 0..MaxNodes
      OBVIOUS
    <3> QED BY <3>1, <3>2
  <2> QED BY <2>1, <2>2 DEF Deeper
<1> QED BY <1>3, <1>6

Holds(ch, nx, S) == \A y \in S : Listed(nx, ch[y]) \subseteq S

\* The subtree is the least set with x that holds the lists of its nodes.
LEMMA SubtreeLeast ==
    ASSUME MaxNodes \in Nat, NEW ch, NEW nx, NEW x, NEW S, x \in S, Holds(ch, nx, S)
    PROVE  Subtree(ch, nx, x) \subseteq S
<1>1. PICK g : Deeper(ch, nx, x, g, MaxNodes) /\ Subtree(ch, nx, x) = g[MaxNodes]
  BY SubtreeSteps
<1> DEFINE I == {k \in Nat : g[k] \subseteq S}
<1>2. 0 \in I
  BY <1>1 DEF Deeper
<1>3. ASSUME NEW k \in Nat, k < MaxNodes, k \in I PROVE k + 1 \in I
  <2>1. g[k + 1] = Below(ch, nx, g[k])
    BY <1>1, <1>3 DEF Deeper
  <2> QED BY <1>3, <2>1 DEF Below, Holds
<1> HIDE DEF I
<1>4. \A k \in 0..MaxNodes : k \in I
  BY <1>2, <1>3, StartsAt
<1> QED BY <1>1, <1>4 DEF I

\* There are no more than MaxNodes steps to go down.
LEMMA SubtreeHolds ==
    ASSUME MaxNodes \in Nat, NEW ch, NEW nx, Kept(Nodes, ch), Kept(Nodes, nx), NEW x \in Nodes
    PROVE  /\ x \in Subtree(ch, nx, x) /\ Subtree(ch, nx, x) \subseteq Nodes
           /\ Holds(ch, nx, Subtree(ch, nx, x))
<1>1. PICK g : Deeper(ch, nx, x, g, MaxNodes) /\ Subtree(ch, nx, x) = g[MaxNodes]
  BY SubtreeSteps
<1>2. \A y \in Nodes : Listed(nx, ch[y]) \subseteq Nodes
  <2>1. ASSUME NEW y \in Nodes PROVE Listed(nx, ch[y]) \subseteq Nodes
    <3>1. PICK f : f = ch[y]
      OBVIOUS
    <3>2. f \in Nodes \cup {Nil} /\ \A z \in Nodes : nx[z] \in Nodes \cup {Nil}
      BY <3>1 DEF Kept
    <3>3. Listed(nx, f) \subseteq Nodes
      BY <3>2, ListedWithin
    <3> QED BY <3>1, <3>3
  <2> QED BY <2>1
<1>3. IsFiniteSet(Nodes) /\ Cardinality(Nodes) = MaxNodes + 1
  BY FS_Interval DEF Nodes
<1> DEFINE Stays(k) == Below(ch, nx, g[k]) = g[k]
           I == {k \in Nat : x \in g[k] /\ g[k] \subseteq Nodes /\ (Cardinality(g[k]) >= k + 1 \/ Stays(k))}
<1>4. 0 \in I
  <2>1. g[0] = {x} /\ Cardinality({x}) = 1
    BY <1>1, FS_Singleton DEF Deeper
  <2> QED BY <2>1
<1>5. ASSUME NEW k \in Nat, k < MaxNodes, k \in I PROVE k + 1 \in I
  <2>1. g[k + 1] = Below(ch, nx, g[k])
    BY <1>1, <1>5 DEF Deeper
  <2>2. x \in g[k + 1] /\ g[k] \subseteq g[k + 1] /\ g[k + 1] \subseteq Nodes
    BY <1>2, <1>5, <2>1 DEF Below
  <2>3. CASE g[k + 1] = g[k]
    <3>1. CASE Stays(k)
      <4>1. Stays(k + 1)
        BY <2>3, <3>1
      <4> QED BY <2>2, <4>1
    <3>2. CASE ~Stays(k)
      BY <2>1, <2>3, <3>2
    <3> QED BY <3>1, <3>2
  <2>4. CASE g[k + 1] # g[k]
    <3>1. ~Stays(k) /\ Cardinality(g[k]) >= k + 1
      BY <1>5, <2>1, <2>4
    <3>2. PICK A, B : A = g[k] /\ B = g[k + 1]
      OBVIOUS
    <3>3. IsFiniteSet(B) /\ IsFiniteSet(A)
      BY <1>3, <1>5, <2>2, <3>2, FS_Subset
    <3>4. Cardinality(A) \in Nat /\ Cardinality(B) \in Nat /\ Cardinality(A) < Cardinality(B)
      <4>1. Cardinality(A) \in Nat /\ Cardinality(B) \in Nat
        BY <3>3, FS_CardinalityType
      <4>2. Cardinality(A) <= Cardinality(B) /\ (Cardinality(A) = Cardinality(B) => A = B)
        BY <2>2, <3>2, <3>3, FS_Subset
      <4> QED BY <2>4, <3>2, <4>1, <4>2
    <3>5. Cardinality(B) >= (k + 1) + 1
      BY <3>1, <3>2, <3>4
    <3> QED BY <2>2, <3>2, <3>5
  <2> QED BY <2>3, <2>4
<1> HIDE DEF I
<1>6. \A k \in 0..MaxNodes : k \in I
  BY <1>4, <1>5, StartsAt
<1> DEFINE S == g[MaxNodes]
<1>7. x \in S /\ S \subseteq Nodes /\ (Cardinality(S) >= MaxNodes + 1 \/ Stays(MaxNodes))
  BY <1>6 DEF I
<1>8. Holds(ch, nx, S)
  <2>1. CASE Stays(MaxNodes)
    BY <2>1 DEF Below, Holds
  <2>2. CASE Cardinality(S) >= MaxNodes + 1
    <3> HIDE DEF S
    <3>1. Cardinality(S) <= Cardinality(Nodes) /\ (Cardinality(S) = Cardinality(Nodes) => S = Nodes) /\ IsFiniteSet(S)
      BY <1>3, <1>7, FS_Subset
    <3>2. Cardinality(S) \in Nat
      BY <3>1, FS_CardinalityType
    <3>3. S = Nodes
      BY <1>3, <2>2, <3>1, <3>2
    <3> QED BY <1>2, <3>3 DEF Holds
  <2> QED BY <1>7, <2>1, <2>2
<1> QED BY <1>1, <1>7, <1>8

-----------------------------------------------------------------------------
(* How a path is followed.                                                 *)

\* One component c, after those that led to r.
StepTo(ch, nx, dirsOnly, r, c) ==
    LET y == Find(nx, ch[r.node], c) IN
    IF r.how # "at" THEN r
    ELSE IF c = "." THEN [r EXCEPT !.done = @ + 1]
    ELSE IF r.node = Nil THEN [r EXCEPT !.how = "crash"]
    ELSE IF c = ".." THEN [r EXCEPT !.node = parent[r.node], !.done = @ + 1]
    ELSE IF y = Stuck THEN [r EXCEPT !.how = "hang"]
    ELSE IF y = Nil \/ (dirsOnly /\ type[y] = "file") THEN [r EXCEPT !.how = "missing"]
    ELSE [r EXCEPT !.node = y, !.done = @ + 1]

Start == [how |-> "at", node |-> cur, done |-> 0]

Folded(ch, nx, path, dirsOnly, f) ==
    [s \in SUBSET (DOMAIN path) |->
        IF s = {} THEN Start
        ELSE StepTo(ch, nx, dirsOnly, f[s \ {Max(s)}], path[Max(s)])]

LEMMA ResolveFolds ==
    ASSUME NEW ch, NEW nx, NEW path, NEW dirsOnly
    PROVE  Resolve(ch, nx, path, dirsOnly) = (CHOOSE f : f = Folded(ch, nx, path, dirsOnly, f))[DOMAIN path]
BY DEF Resolve, FoldLeft, MapThenFoldSet, Folded, StepTo, Start

\* The community modules fold a sequence along the sets of its positions.
FoldedUpTo(ch, nx, path, dirsOnly, g, n) ==
    \A s \in SUBSET (1..n) :
        g[s] = IF s = {} THEN Start
               ELSE StepTo(ch, nx, dirsOnly, g[s \ {Max(s)}], path[Max(s)])

LEMMA FoldExists ==
    ASSUME NEW ch, NEW nx, NEW path, NEW dirsOnly
    PROVE  \A n \in Nat : \E g : FoldedUpTo(ch, nx, path, dirsOnly, g, n)
<1> DEFINE I == {n \in Nat : \E g : FoldedUpTo(ch, nx, path, dirsOnly, g, n)}
<1>1. 0 \in I
  <2> DEFINE g == [s \in {{}} |-> Start]
  <2>1. \A s \in SUBSET (1..0) : s = {}
    OBVIOUS
  <2>2. FoldedUpTo(ch, nx, path, dirsOnly, g, 0)
    BY <2>1 DEF FoldedUpTo
  <2> QED BY <2>2
<1>2. ASSUME NEW n \in Nat, n \in I PROVE n + 1 \in I
  <2>1. PICK g : FoldedUpTo(ch, nx, path, dirsOnly, g, n)
    BY <1>2
  <2> DEFINE Val(s) == IF n + 1 \in s THEN StepTo(ch, nx, dirsOnly, g[s \ {n + 1}], path[n + 1]) ELSE g[s]
             h == [s \in SUBSET (1..(n + 1)) |-> Val(s)]
  <2>2. ASSUME NEW s \in SUBSET (1..(n + 1)), n + 1 \in s PROVE Max(s) = n + 1
    <3>1. n + 1 \in Nat /\ s \subseteq 1..(n + 1) /\ s # {}
      BY <2>2
    <3>2. Max(s) \in s /\ \A k \in s : k <= Max(s)
      BY <3>1, MaxOf
    <3>3. Max(s) \in 1..(n + 1)
      BY <3>2
    <3> QED BY <2>2, <3>2, <3>3
  <2>3. ASSUME NEW s \in SUBSET (1..(n + 1)), n + 1 \notin s PROVE s \in SUBSET (1..n)
    BY <2>3
  <2>4. ASSUME NEW s \in SUBSET (1..(n + 1))
        PROVE  h[s] = IF s = {} THEN Start
                      ELSE StepTo(ch, nx, dirsOnly, h[s \ {Max(s)}], path[Max(s)])
    <3>1. CASE n + 1 \in s
      <4>1. Max(s) = n + 1 /\ s # {}
        BY <2>2, <3>1
      <4>2. s \ {n + 1} \in SUBSET (1..(n + 1)) /\ n + 1 \notin s \ {n + 1}
        OBVIOUS
      <4>3. h[s \ {n + 1}] = g[s \ {n + 1}]
        BY <4>2
      <4>4. h[s] = StepTo(ch, nx, dirsOnly, g[s \ {n + 1}], path[n + 1])
        BY <3>1
      <4> QED BY <4>1, <4>3, <4>4
    <3>2. CASE n + 1 \notin s
      <4>1. s \in SUBSET (1..n) /\ h[s] = g[s]
        BY <2>3, <3>2
      <4>2. CASE s = {}
        BY <2>1, <4>1, <4>2 DEF FoldedUpTo
      <4>3. CASE s # {}
        <5>1. s \ {Max(s)} \in SUBSET (1..(n + 1)) /\ n + 1 \notin s \ {Max(s)}
          BY <3>2
        <5>2. h[s \ {Max(s)}] = g[s \ {Max(s)}]
          BY <5>1
        <5>3. g[s] = StepTo(ch, nx, dirsOnly, g[s \ {Max(s)}], path[Max(s)])
          BY <2>1, <4>1, <4>3 DEF FoldedUpTo
        <5> QED BY <4>1, <4>3, <5>2, <5>3
      <4> QED BY <4>2, <4>3
    <3> QED BY <3>1, <3>2
  <2> HIDE DEF h
  <2>5. FoldedUpTo(ch, nx, path, dirsOnly, h, n + 1)
    BY <2>4 DEF FoldedUpTo
  <2> QED BY <2>5
<1> HIDE DEF I
<1>3. \A n \in Nat : n \in I
  BY <1>1, <1>2, NatSetInduction
<1> QED BY <1>3 DEF I

\* Whatever holds at the start, and after each component if it did before,
\* holds of the result.
LEMMA ResolveInduction ==
    ASSUME NEW ch, NEW nx, NEW path, path \in Seq(Names \cup {".", ".."}), NEW dirsOnly, NEW J, <<0, Start>> \in J,
           \A k \in 0..(Len(path) - 1) : \A r :
               <<k, r>> \in J => <<k + 1, StepTo(ch, nx, dirsOnly, r, path[k + 1])>> \in J
    PROVE  <<Len(path), Resolve(ch, nx, path, dirsOnly)>> \in J
<1> DEFINE n == Len(path)
<1>1. n \in Nat /\ DOMAIN path = 1..n
  BY LenProperties
<1>2. PICK g : FoldedUpTo(ch, nx, path, dirsOnly, g, n)
  BY <1>1, FoldExists
<1> DEFINE h == [s \in SUBSET (1..n) |-> g[s]]
<1>3. h = Folded(ch, nx, path, dirsOnly, h)
  <2>1. ASSUME NEW s \in SUBSET (1..n)
        PROVE  h[s] = IF s = {} THEN Start
                      ELSE StepTo(ch, nx, dirsOnly, h[s \ {Max(s)}], path[Max(s)])
    <3>1. s \ {Max(s)} \in SUBSET (1..n)
      OBVIOUS
    <3>2. h[s \ {Max(s)}] = g[s \ {Max(s)}] /\ h[s] = g[s]
      BY <3>1
    <3> QED BY <1>2, <3>2 DEF FoldedUpTo
  <2>2. h = [s \in SUBSET (1..n) |-> h[s]]
    OBVIOUS
  <2> HIDE DEF h, n
  <2> QED BY <1>1, <2>1, <2>2 DEF Folded
<1> DEFINE F == CHOOSE f : f = Folded(ch, nx, path, dirsOnly, f)
<1> HIDE DEF h
<1>4. F = Folded(ch, nx, path, dirsOnly, F)
  BY <1>3
<1> HIDE DEF F, n
<1>5. \A s \in SUBSET (1..n) : F[s] = IF s = {} THEN Start
                                   ELSE StepTo(ch, nx, dirsOnly, F[s \ {Max(s)}], path[Max(s)])
  BY <1>1, <1>4 DEF Folded
<1> DEFINE I == {k \in Nat : <<k, F[1..k]>> \in J}
<1>6. 0 \in I
  <2>1. 1..0 = {} /\ {} \in SUBSET (1..n)
    OBVIOUS
  <2> QED BY <1>5, <2>1
<1>7. ASSUME NEW k \in Nat, k < n, k \in I PROVE k + 1 \in I
  <2>1. 1..(k + 1) \in SUBSET (1..n) /\ 1..(k + 1) # {}
    <3>1. k + 1 <= n /\ n \in Nat /\ 1 \in 1..(k + 1)
      BY <1>1, <1>7
    <3>2. \A j \in 1..(k + 1) : j \in 1..n
      BY <3>1
    <3>3. 1..(k + 1) \in SUBSET (1..n)
      BY <3>2
    <3> QED BY <3>1, <3>3
  <2>2. Max(1..(k + 1)) = k + 1
    <3>1. PICK s : s = 1..(k + 1)
      OBVIOUS
    <3>2. s \subseteq 1..(k + 1) /\ s # {} /\ k + 1 \in Nat
      BY <2>1, <3>1
    <3>3. Max(s) \in s /\ \A j \in s : j <= Max(s)
      BY <3>2, MaxOf
    <3>4. Max(s) \in 1..(k + 1) /\ k + 1 <= Max(s)
      BY <3>1, <3>3
    <3> QED BY <3>1, <3>4
  <2>3. (1..(k + 1)) \ {k + 1} = 1..k
    OBVIOUS
  <2>4. F[1..(k + 1)] = StepTo(ch, nx, dirsOnly, F[1..k], path[k + 1])
    BY <1>5, <2>1, <2>2, <2>3
  <2>5. k \in 0..(Len(path) - 1)
    BY <1>1, <1>7 DEF n
  <2> QED BY <1>7, <2>4, <2>5
<1> HIDE DEF I
<1>8. \A k \in 0..n : k \in I
  BY <1>1, <1>6, <1>7, StartsAt
<1>9. <<n, F[1..n]>> \in J
  BY <1>1, <1>8 DEF I
<1>10. Resolve(ch, nx, path, dirsOnly) = F[1..n]
  BY <1>1, ResolveFolds DEF F
<1> QED BY <1>9, <1>10 DEF n

-----------------------------------------------------------------------------
(* Where a path leads, if the pointers of the nodes of U stay in U.        *)

Within(U, ch, nx) ==
    U \subseteq Nodes /\ cur \in U \cup {Nil} /\ Kept(U, ch) /\ Kept(U, nx) /\ Kept(U, parent)

Finds(U, nx, x, m) ==
    /\ Listed(nx, x) \subseteq U /\ Find(nx, x, m) \in U \cup {Nil, Stuck}
    /\ Find(nx, x, m) \in U <=> Find(nx, x, m) \notin {Nil, Stuck}
    /\ Find(nx, x, m) \in U => Find(nx, x, m) \in Listed(nx, x) /\ name[Find(nx, x, m)] = m
    /\ Find(nx, x, m) = Stuck => Endless(nx, x)
    /\ Find(nx, x, m) = Nil => \A y \in Listed(nx, x) : name[y] # m

LEMMA FoundWithin ==
    ASSUME MaxNodes \in Nat, NEW U, U \subseteq Nodes, NEW nx, Kept(U, nx), NEW x, x \in U \cup {Nil}, NEW m
    PROVE  Finds(U, nx, x, m)
<1>1. Listed(nx, x) \subseteq U
  BY ListedWithin DEF Kept
<1>2. \A y \in U : y \notin {Nil, Stuck}
  BY DEF Nodes, Nil, Stuck
<1>3. Nil # Stuck
  BY DEF Nil, Stuck
<1> QED BY <1>1, <1>2, <1>3, Found DEF Finds

Outcome == [how : {"at", "missing", "crash", "hang"}, node : Nodes \cup {Nil}, done : Nat]

GoesTo(r, n, q) == q \in Outcome /\ q.how = r.how /\ q.node = n /\ q.done = r.done + 1

LEMMA GoesOn ==
    ASSUME NEW r \in Outcome, NEW n, n \in Nodes \cup {Nil}
    PROVE  GoesTo(r, n, [r EXCEPT !.node = n, !.done = @ + 1])
<1> DEFINE p == [r EXCEPT !.node = n]
<1>1. p \in Outcome /\ p.how = r.how /\ p.node = n /\ p.done = r.done
  BY DEF Outcome
<1>2. [r EXCEPT !.node = n, !.done = @ + 1] = [p EXCEPT !.done = @ + 1]
  OBVIOUS
<1> HIDE DEF p
<1>3. [p EXCEPT !.done = @ + 1] \in Outcome
  BY <1>1 DEF Outcome
<1>4. GoesTo(r, n, [p EXCEPT !.done = @ + 1])
  BY <1>1, <1>3 DEF Outcome, GoesTo
<1> QED BY <1>2, <1>4

LeadsTo(U, ch, nx, path, dirsOnly, k, r) ==
    /\ r \in Outcome /\ r.node \in U \cup {Nil}
    /\ r.how = "at" => r.done = k
    /\ r.how = "crash" => r.node = Nil
    /\ r.how = "hang" => \E y \in U : Endless(nx, ch[y])
    /\ r.how = "missing" =>
         /\ r.done < k /\ r.node # Nil /\ path[r.done + 1] \in Names
         /\ dirsOnly \/ \A y \in Listed(nx, ch[r.node]) : name[y] # path[r.done + 1]
    /\ dirsOnly /\ r.node # Nil => type[r.node] = "directory"

\* By induction over the components of the path.
LEMMA PathLeads ==
    ASSUME TreeConstants, NEW U, NEW ch, NEW nx, Within(U, ch, nx), NEW path \in Paths, NEW dirsOnly \in BOOLEAN,
           type \in [Nodes -> {"file", "directory"}],
           dirsOnly => /\ cur # Nil => type[cur] = "directory"
                       /\ \A y \in U : parent[y] # Nil => type[parent[y]] = "directory"
    PROVE  LeadsTo(U, ch, nx, path, dirsOnly, Len(path), Resolve(ch, nx, path, dirsOnly))
<1>0. MaxNodes \in Nat /\ path \in Seq(Names \cup {".", ".."}) /\ Len(path) \in Nat
  BY LenProperties DEF TreeConstants
<1> DEFINE J == {kr \in Nat \X Outcome : LeadsTo(U, ch, nx, path, dirsOnly, kr[1], kr[2])}
<1>1. <<0, Start>> \in J
  BY DEF LeadsTo, Start, Outcome, Within
<1>2. ASSUME NEW k \in 0..(Len(path) - 1), NEW r, LeadsTo(U, ch, nx, path, dirsOnly, k, r)
      PROVE  LeadsTo(U, ch, nx, path, dirsOnly, k + 1, StepTo(ch, nx, dirsOnly, r, path[k + 1]))
  <2> DEFINE c == path[k + 1]
             y == Find(nx, ch[r.node], c)
  <2>1. k + 1 \in 1..Len(path) /\ c \in Names \cup {".", ".."}
    BY <1>0, ElementOfSeq
  <2>2. k \in Nat /\ r \in Outcome
    BY <1>0, <1>2 DEF LeadsTo
  <2>3. CASE r.how # "at"
    BY <1>2, <2>2, <2>3 DEF StepTo, LeadsTo, Outcome
  <2>4. CASE r.how = "at" /\ c = "."
    BY <1>2, <2>2, <2>4 DEF StepTo, LeadsTo, Outcome
  <2>5. CASE r.how = "at" /\ c # "." /\ r.node = Nil
    BY <1>2, <2>2, <2>5 DEF StepTo, LeadsTo, Outcome
  <2>6. CASE r.how = "at" /\ c = ".." /\ r.node # Nil
    <3>1. parent[r.node] \in U \cup {Nil} /\ parent[r.node] \in Nodes \cup {Nil}
      BY <1>2, <2>6 DEF LeadsTo, Within, Kept
    <3>2. dirsOnly /\ parent[r.node] # Nil => type[parent[r.node]] = "directory"
      BY <1>2, <2>6 DEF LeadsTo
    <3> DEFINE q == [r EXCEPT !.node = parent[r.node], !.done = @ + 1]
    <3>3. q \in Outcome /\ q.how = "at" /\ q.node = parent[r.node] /\ q.done = k + 1
      <4>1. r.done = k
        BY <1>2, <2>6 DEF LeadsTo
      <4>2. GoesTo(r, parent[r.node], q)
        BY <2>2, <3>1, GoesOn
      <4> QED BY <2>6, <4>1, <4>2 DEF GoesTo
    <3>4. StepTo(ch, nx, dirsOnly, r, c) = q
      BY <2>6 DEF StepTo
    <3> HIDE DEF q, c
    <3>5. LeadsTo(U, ch, nx, path, dirsOnly, k + 1, q)
      BY <3>1, <3>2, <3>3 DEF LeadsTo
    <3> QED BY <3>4, <3>5 DEF c
  <2>7. CASE r.how = "at" /\ c \notin {".", ".."} /\ r.node # Nil
    <3>1. r.node \in U /\ ch[r.node] \in U \cup {Nil} /\ c \in Names
      BY <1>2, <2>1, <2>7 DEF LeadsTo, Within, Kept
    <3>2. /\ y \in U \cup {Nil, Stuck} /\ (y \in U <=> y \notin {Nil, Stuck})
          /\ y = Stuck => Endless(nx, ch[r.node])
          /\ y = Nil => \A z \in Listed(nx, ch[r.node]) : name[z] # c
      <4>1. U \subseteq Nodes /\ Kept(U, nx)
        BY DEF Within
      <4>2. PICK x, m : x = ch[r.node] /\ m = c
        OBVIOUS
      <4> HIDE DEF c
      <4>3. x \in U \cup {Nil}
        BY <3>1, <4>2
      <4>4. Finds(U, nx, x, m)
        BY <1>0, <4>1, <4>3, FoundWithin
      <4> QED BY <4>2, <4>4 DEF Finds
    <3> HIDE DEF y
    <3>3. StepTo(ch, nx, dirsOnly, r, c) = IF y = Stuck THEN [r EXCEPT !.how = "hang"]
              ELSE IF y = Nil \/ (dirsOnly /\ type[y] = "file") THEN [r EXCEPT !.how = "missing"]
              ELSE [r EXCEPT !.node = y, !.done = @ + 1]
      BY <2>7 DEF StepTo, y
    <3> HIDE DEF c
    <3>4. CASE y = Stuck
      <4> DEFINE q == [r EXCEPT !.how = "hang"]
      <4>1. q \in Outcome /\ q.how = "hang" /\ q.node = r.node
        BY <2>2 DEF Outcome
      <4>2. StepTo(ch, nx, dirsOnly, r, c) = q
        BY <3>3, <3>4
      <4>3. \E z \in U : Endless(nx, ch[z])
        BY <3>1, <3>2, <3>4
      <4> HIDE DEF q
      <4>4. LeadsTo(U, ch, nx, path, dirsOnly, k + 1, q)
        BY <1>2, <4>1, <4>3 DEF LeadsTo
      <4> QED BY <4>2, <4>4 DEF c
    <3>5. CASE y # Stuck /\ (y = Nil \/ (dirsOnly /\ type[y] = "file"))
      <4>1. [r EXCEPT !.how = "missing"] \in Outcome
        BY <2>2 DEF Outcome
      <4>2. r.done = k /\ path[r.done + 1] = c
        BY <1>2, <2>7 DEF LeadsTo, c
      <4> QED BY <1>2, <2>2, <2>7, <3>1, <3>2, <3>3, <3>5, <4>1, <4>2 DEF LeadsTo, Outcome
    <3>6. CASE y # Stuck /\ ~(y = Nil \/ (dirsOnly /\ type[y] = "file"))
      <4>1. y \in U /\ y \in Nodes
        BY <3>2, <3>6 DEF Within
      <4>2. dirsOnly => type[y] = "directory"
        BY <3>6, <4>1
      <4> DEFINE q == [r EXCEPT !.node = y, !.done = @ + 1]
      <4>3. q \in Outcome /\ q.how = "at" /\ q.node = y /\ q.done = k + 1
        <5>1. r.done = k
          BY <1>2, <2>7 DEF LeadsTo
        <5>2. GoesTo(r, y, q)
          BY <2>2, <4>1, GoesOn
        <5> QED BY <2>7, <5>1, <5>2 DEF GoesTo
      <4>4. StepTo(ch, nx, dirsOnly, r, c) = q
        BY <3>3, <3>6
      <4> HIDE DEF q
      <4>5. LeadsTo(U, ch, nx, path, dirsOnly, k + 1, q)
        BY <4>1, <4>2, <4>3 DEF LeadsTo
      <4> QED BY <4>4, <4>5 DEF c
    <3> QED BY <3>4, <3>5, <3>6
  <2> QED BY <2>3, <2>4, <2>5, <2>6, <2>7
<1>3. ASSUME NEW k \in 0..(Len(path) - 1), NEW r, <<k, r>> \in J
      PROVE  <<k + 1, StepTo(ch, nx, dirsOnly, r, path[k + 1])>> \in J
  <2>1. LeadsTo(U, ch, nx, path, dirsOnly, k, r)
    BY <1>3
  <2>2. LeadsTo(U, ch, nx, path, dirsOnly, k + 1, StepTo(ch, nx, dirsOnly, r, path[k + 1]))
    BY <1>2, <2>1
  <2>3. StepTo(ch, nx, dirsOnly, r, path[k + 1]) \in Outcome /\ k + 1 \in Nat
    BY <1>0, <2>2 DEF LeadsTo
  <2> QED BY <2>2, <2>3
<1> HIDE DEF J
<1>4. <<Len(path), Resolve(ch, nx, path, dirsOnly)>> \in J
  BY <1>0, <1>1, <1>3, ResolveInduction
<1> QED BY <1>4 DEF J

-----------------------------------------------------------------------------
(* Whatever the user types: the pointers lead to nodes that were allocated *)
(* and to nothing below a file.                                            *)

InUse == 0..used

Forms(U, ty, ch, nx) ==
    /\ ch \in [Nodes -> U \cup {Nil}] /\ nx \in [Nodes -> U \cup {Nil}]
    /\ \A y \in Nodes \ U : ch[y] = Nil /\ nx[y] = Nil
    /\ \A y \in Nodes : ty[y] = "file" => ch[y] = Nil

Folders(U, ty, p) == p \in U \cup {Nil} /\ (p # Nil => ty[p] = "directory")

AnyInv ==
    /\ TypeOK /\ Forms(InUse, type, child, next)
    /\ \A y \in Nodes : Folders(InUse, type, parent[y])
    /\ Folders(InUse, type, cur)

LEMMA FormsKept ==
    ASSUME NEW U, U \subseteq Nodes, NEW ty, NEW ch, NEW nx, Forms(U, ty, ch, nx)
    PROVE  Kept(U, ch) /\ Kept(U, nx)
BY DEF Forms, Kept

LEMMA FormsHang ==
    ASSUME NEW U, U \subseteq Nodes, NEW ty, NEW ch, NEW nx, Forms(U, ty, ch, nx), NEW d \in U, ty[d] # "file",
           NEW x \in U \cup {Nil}, NEW h, h = [ch EXCEPT ![d] = x]
    PROVE  Forms(U, ty, h, nx)
BY DEF Forms

LEMMA FormsChain ==
    ASSUME NEW U, U \subseteq Nodes, NEW ty, NEW ch, NEW nx, Forms(U, ty, ch, nx), NEW d \in U \cup {Nil},
           NEW x \in U \cup {Nil}, NEW h, h = [nx EXCEPT ![d] = x]
    PROVE  Forms(U, ty, ch, h)
<1>1. CASE d \in U
  BY <1>1 DEF Forms
<1>2. CASE d = Nil
  <2>1. d \notin Nodes
    BY <1>2 DEF Nodes, Nil
  <2>2. h = nx
    BY <2>1 DEF Forms
  <2> QED BY <2>2
<1> QED BY <1>1, <1>2

LEMMA LinkedForms ==
    ASSUME MaxNodes \in Nat, NEW U, U \subseteq Nodes, NEW ty, NEW ch, NEW nx, Forms(U, ty, ch, nx),
           NEW d \in U, ty[d] # "file", NEW x \in U
    PROVE  LET l == Linked(ch, nx, d, x) IN Forms(U, ty, l.ch, l.nx) /\ l.ok \in BOOLEAN
<1>1. CASE ch[d] = Nil
  <2>1. PICK h : h = [ch EXCEPT ![d] = x]
    OBVIOUS
  <2>2. Forms(U, ty, h, nx)
    BY <2>1, FormsHang
  <2> QED BY <1>1, <2>1, <2>2 DEF Linked
<1>2. CASE ch[d] # Nil /\ Endless(nx, ch[d])
  BY <1>2 DEF Linked
<1>3. CASE ch[d] # Nil /\ ~Endless(nx, ch[d])
  <2>1. ch[d] \in U
    BY <1>3 DEF Forms
  <2>2. Kept(U, nx)
    BY FormsKept
  <2>3. PICK f : f = ch[d]
    OBVIOUS
  <2>4. \E y \in Listed(nx, f) : nx[y] = Nil
    BY <1>3, <2>3, ListedLast
  <2>5. Listed(nx, f) \subseteq U
    BY <2>1, <2>2, <2>3, ListedWithin DEF Kept
  <2> DEFINE last == CHOOSE y \in Listed(nx, f) : nx[y] = Nil
  <2>6. last \in U
    BY <2>4, <2>5
  <2>7. Linked(ch, nx, d, x) = [ch |-> ch, nx |-> [nx EXCEPT ![last] = x], ok |-> TRUE]
    BY <1>3, <2>3 DEF Linked
  <2> HIDE DEF last
  <2>8. PICK h : h = [nx EXCEPT ![last] = x]
    OBVIOUS
  <2>9. Forms(U, ty, ch, h)
    BY <2>6, <2>8, FormsChain
  <2> QED BY <2>7, <2>8, <2>9
<1> QED BY <1>1, <1>2, <1>3

\* mkdir and tobigfs.
LEMMA AllocateAny ==
    ASSUME TreeConstants, AnyInv, used < MaxNodes, cur # Nil, NEW m \in Names, NEW kind \in {"file", "directory"},
           Allocate(m, kind), UNCHANGED <<cur, awaits>>
    PROVE  AnyInv'
<1>0. /\ MaxNodes \in Nat /\ used \in Nat /\ used' = used + 1 /\ InUse' = 0..(used + 1) /\ InUse' \subseteq Nodes
      /\ New \in Nodes /\ New \in InUse' /\ New \notin InUse /\ InUse \subseteq InUse' /\ cur \in InUse /\ type[cur] = "directory"
  BY DEF TreeConstants, AnyInv, TypeOK, Allocate, New, InUse, Nodes, Folders
<1>1. /\ type' = [type EXCEPT ![New] = kind] /\ type' \in [Nodes -> {"file", "directory"}]
      /\ name' = [name EXCEPT ![New] = m] /\ name' \in [Nodes -> Names \cup {"home"}]
      /\ parent' = [parent EXCEPT ![New] = cur] /\ parent' \in [Nodes -> Nodes \cup {Nil}]
  BY <1>0 DEF AnyInv, TypeOK, Allocate
<1>2. Forms(InUse', type', child, next)
  <2>1. \A y \in Nodes \ InUse : child[y] = Nil /\ next[y] = Nil
    BY DEF AnyInv, Forms
  <2>2. \A y \in Nodes : type'[y] = "file" => child[y] = Nil
    BY <1>0, <1>1, <2>1 DEF AnyInv, TypeOK, Forms
  <2> QED BY <1>0, <2>1, <2>2 DEF AnyInv, Forms
<1>3. type'[cur] # "file" /\ cur \in InUse'
  BY <1>0, <1>1 DEF AnyInv, TypeOK
<1> DEFINE l == Linked(child, next, cur, New)
<1>4. Forms(InUse', type', l.ch, l.nx)
  <2>1. PICK U, ty, d : U = InUse' /\ ty = type' /\ d = cur
    OBVIOUS
  <2>2. Forms(U, ty, child, next) /\ U \subseteq Nodes /\ d \in U /\ ty[d] # "file" /\ New \in U
    BY <1>0, <1>2, <1>3, <2>1
  <2>3. Forms(U, ty, Linked(child, next, d, New).ch, Linked(child, next, d, New).nx)
    BY <1>0, <2>2, LinkedForms
  <2> QED BY <2>1, <2>3
<1>5. Forms(InUse', type', child', next')
  BY <1>4 DEF Allocate
<1>6. \A p : Folders(InUse, type, p) => Folders(InUse', type', p)
  BY <1>0, <1>1 DEF Folders, AnyInv, TypeOK
<1>7. Folders(InUse', type', cur)
  BY <1>6 DEF AnyInv
<1>8. \A y \in Nodes : Folders(InUse', type', parent'[y])
  BY <1>1, <1>6, <1>7 DEF AnyInv, TypeOK
<1>9. child' \in [Nodes -> Nodes \cup {Nil}] /\ next' \in [Nodes -> Nodes \cup {Nil}]
  BY <1>0, <1>5 DEF Forms
<1>10. used' \in 0..MaxNodes /\ cur' = cur /\ awaits' = awaits /\ up' \in {"runs", "dead", "hangs"} /\ removed' = removed
  BY <1>0 DEF Allocate, AnyInv, TypeOK
<1> QED BY <1>1, <1>5, <1>7, <1>8, <1>9, <1>10 DEF AnyInv, TypeOK

LEMMA AnyFacts ==
    ASSUME TreeConstants, AnyInv
    PROVE  /\ MaxNodes \in Nat /\ used \in Nat /\ InUse \subseteq Nodes /\ Home \in InUse
           /\ Within(InUse, child, next)
<1>1. MaxNodes \in Nat /\ used \in Nat /\ InUse \subseteq Nodes /\ Home \in InUse
  BY DEF TreeConstants, AnyInv, TypeOK, InUse, Nodes, Home
<1>2. Kept(InUse, child) /\ Kept(InUse, next)
  BY <1>1, FormsKept DEF AnyInv
<1>3. Kept(InUse, parent) /\ cur \in InUse \cup {Nil}
  BY <1>1 DEF AnyInv, Folders, Kept
<1> QED BY <1>1, <1>2, <1>3 DEF Within

\* A handler that changes no node.
LEMMA RestAny ==
    ASSUME TreeConstants, AnyInv, UNCHANGED <<used, fields>>, Folders(InUse, type, cur'), up' \in {"runs", "dead", "hangs"},
           awaits' \in BOOLEAN, removed' \subseteq Nodes
    PROVE  AnyInv'
<1>1. UNCHANGED <<InUse, used, name, type, child, next, parent>>
  BY DEF fields, InUse
<1>2. cur' \in Nodes \cup {Nil}
  BY AnyFacts DEF Folders
<1>3. TypeOK'
  BY <1>1, <1>2 DEF AnyInv, TypeOK
<1>4. Forms(InUse, type, child, next)' /\ \A y \in Nodes : Folders(InUse, type, parent[y])'
  BY <1>1 DEF AnyInv, Forms, Folders
<1>5. Folders(InUse, type, cur)'
  BY <1>1 DEF Folders
<1> QED BY <1>3, <1>4, <1>5 DEF AnyInv

LEMMA MakeAny ==
    ASSUME TreeConstants, AnyInv, NEW m \in Names, MakeDirectory(m) \/ ToBigFS(m)
    PROVE  AnyInv'
<1>1. UNCHANGED <<cur, awaits>> /\ used < MaxNodes
  BY DEF MakeDirectory, ToBigFS
<1>2. CASE \/ cur # Nil /\ Allocate(m, "directory")
           \/ cur # Nil /\ Allocate(m, "file")
  BY <1>1, <1>2, AllocateAny
<1>3. CASE up' \in {"runs", "dead", "hangs"} /\ UNCHANGED <<used, fields, removed>>
  <2>1. Folders(InUse, type, cur') /\ awaits' \in BOOLEAN /\ removed' \subseteq Nodes
    BY <1>1, <1>3 DEF AnyInv, TypeOK
  <2> QED BY <1>3, <2>1, RestAny
<1>4. up \in {"runs", "dead", "hangs"}
  BY DEF AnyInv, TypeOK
<1> QED BY <1>2, <1>3, <1>4 DEF MakeDirectory, ToBigFS, Here

LEMMA ChangeAny ==
    ASSUME TreeConstants, AnyInv, NEW path \in Paths, ChangeDirectory(path)
    PROVE  AnyInv'
<1> DEFINE r == Resolve(child, next, path, TRUE)
<1>1. LeadsTo(InUse, child, next, path, TRUE, Len(path), r)
  <2>1. /\ cur # Nil => type[cur] = "directory"
        /\ \A y \in InUse : parent[y] # Nil => type[parent[y]] = "directory"
    BY AnyFacts DEF AnyInv, Folders
  <2>2. type \in [Nodes -> {"file", "directory"}]
    BY DEF AnyInv, TypeOK
  <2> QED BY <2>1, <2>2, AnyFacts, PathLeads
<1>2. Folders(InUse, type, r.node)
  BY <1>1 DEF LeadsTo, Folders
<1> HIDE DEF r
<1>3. Folders(InUse, type, cur') /\ up' \in {"runs", "dead", "hangs"} /\ UNCHANGED <<used, fields, awaits, removed>>
  BY <1>2 DEF ChangeDirectory, r, Failure, AnyInv, TypeOK
<1>4. awaits' \in BOOLEAN /\ removed' \subseteq Nodes
  BY <1>3 DEF AnyInv, TypeOK
<1> QED BY <1>3, <1>4, RestAny

LEMMA ParentsAny ==
    ASSUME TreeConstants, AnyInv, NEW d, Folders(InUse, type, d), NEW x, NEW p, p = [parent EXCEPT ![x] = d]
    PROVE  p \in [Nodes -> Nodes \cup {Nil}] /\ \A y \in Nodes : Folders(InUse, type, p[y])
<1>1. d \in Nodes \cup {Nil}
  BY AnyFacts DEF Folders
<1> QED BY <1>1 DEF AnyInv, TypeOK

\* A handler that changes the lists.
LEMMA RelistAny ==
    ASSUME TreeConstants, AnyInv, Forms(InUse, type, child', next'), UNCHANGED <<used, type, cur>>,
           parent' \in [Nodes -> Nodes \cup {Nil}], \A y \in Nodes : Folders(InUse, type, parent'[y]),
           name' \in [Nodes -> Names \cup {"home"}], up' \in {"runs", "dead", "hangs"}, awaits' \in BOOLEAN,
           removed' \subseteq Nodes
    PROVE  AnyInv'
<1>1. InUse' = InUse /\ InUse \subseteq Nodes
  BY AnyFacts DEF InUse
<1>2. child' \in [Nodes -> Nodes \cup {Nil}] /\ next' \in [Nodes -> Nodes \cup {Nil}]
  BY <1>1 DEF Forms
<1>3. Forms(InUse, type, child, next)' /\ (\A y \in Nodes : Folders(InUse, type, parent[y])') /\ Folders(InUse, type, cur)'
  BY <1>1 DEF AnyInv, Forms, Folders
<1> QED BY <1>2, <1>3 DEF AnyInv, TypeOK

LEMMA RemoveAny ==
    ASSUME TreeConstants, AnyInv, NEW m \in Names, RemoveFile(m)
    PROVE  AnyInv'
<1>1. UNCHANGED <<cur, awaits>> /\ awaits' \in BOOLEAN
  BY DEF RemoveFile, AnyInv, TypeOK
<1>2. CASE cur = Nil
  <2>1. UNCHANGED <<used, fields, removed>> /\ up' = "dead"
    BY <1>2 DEF RemoveFile, Here
  <2> QED BY <1>1, <2>1, RestAny DEF AnyInv, TypeOK
<1>3. CASE cur # Nil
  <2>0. cur \in InUse /\ type[cur] # "file" /\ Forms(InUse, type, child, next)
    BY <1>3 DEF AnyInv, Folders
  <2>1. ASSUME UnlinkFirst(m) PROVE AnyInv'
    <3>1. child[cur] \in InUse /\ UNCHANGED <<used, name, type, parent, up>>
      BY <2>0, <2>1, AnyFacts DEF UnlinkFirst, FirstIs, Forms
    <3>2. next[child[cur]] \in InUse \cup {Nil}
      BY <2>0, <3>1, AnyFacts DEF Forms
    <3>3. Forms(InUse, type, child', next)
      <4>1. child' = [child EXCEPT ![cur] = next[child[cur]]]
        BY <2>1 DEF UnlinkFirst
      <4>2. PICK n : n = next[child[cur]]
        OBVIOUS
      <4>3. PICK h : h = [child EXCEPT ![cur] = n]
        OBVIOUS
      <4>4. n \in InUse \cup {Nil}
        BY <3>2, <4>2
      <4>5. Forms(InUse, type, h, next)
        BY <2>0, <4>3, <4>4, AnyFacts, FormsHang
      <4> QED BY <4>1, <4>2, <4>3, <4>5
    <3>4. Forms(InUse, type, child', next')
      <4>1. PICK c, h, n : c = child' /\ n = child[cur] /\ h = [next EXCEPT ![n] = Nil]
        OBVIOUS
      <4>2. next' = h
        BY <2>1, <4>1 DEF UnlinkFirst
      <4>3. n \in InUse \cup {Nil} /\ Nil \in InUse \cup {Nil}
        BY <3>1, <4>1
      <4>4. Forms(InUse, type, c, next)
        BY <3>3, <4>1
      <4>5. Forms(InUse, type, c, h)
        BY <4>1, <4>3, <4>4, AnyFacts, FormsChain
      <4> QED BY <4>1, <4>2, <4>5
    <3>5. removed' \subseteq Nodes
      <4>1. PICK n : n = child[cur]
        OBVIOUS
      <4>2. Kept(Nodes, child) /\ Kept(Nodes, next) /\ n \in Nodes
        BY <3>1, <4>1, AnyFacts DEF Kept, AnyInv, TypeOK
      <4>3. Subtree(child, next, n) \subseteq Nodes
        BY <4>2, AnyFacts, SubtreeHolds
      <4> QED BY <2>1, <4>1, <4>3 DEF UnlinkFirst, AnyInv, TypeOK
    <3> QED BY <1>1, <3>1, <3>4, <3>5, RelistAny DEF AnyInv, TypeOK
  <2>2. ASSUME UnlinkLater(m) PROVE AnyInv'
    <3> DEFINE a == At(next, child[cur])
               hits == {k \in Hits(next, child[cur], m) : type[a[k]] = "file"}
    <3>1. ~FirstIs(m) /\ UNCHANGED <<used, name, type, child, parent>>
      BY <2>2 DEF UnlinkLater
    <3>2. CASE hits = {}
      <4>1. UNCHANGED <<used, fields>> /\ up' \in {"runs", "dead", "hangs"} /\ removed' = removed
        BY <2>2, <3>1, <3>2 DEF UnlinkLater, fields
      <4> QED BY <1>1, <4>1, RestAny DEF AnyInv, TypeOK
    <3>3. CASE hits # {}
      <4>1. PICK k : k = Min(hits)
        OBVIOUS
      <4>2. k \in Hits(next, child[cur], m)
        <5>1. hits \subseteq Nat
          BY DEF Hits
        <5>2. Min(hits) \in hits
          BY <3>3, <5>1, MinOf
        <5> QED BY <4>1, <5>2
      <4>3. k \in 0..MaxNodes /\ a[k] # Nil /\ name[a[k]] = m
        BY <4>2 DEF Hits
      <4>4. k # 0
        <5>1. a[0] = child[cur]
          BY AnyFacts, AtSteps
        <5> QED BY <3>1, <4>3, <5>1 DEF FirstIs
      <4>5. \A j \in 0..(MaxNodes + 1) : a[j] \in InUse \cup {Nil}
        <5>1. PICK c : c = child[cur]
          OBVIOUS
        <5>2. c \in InUse \cup {Nil}
          BY <2>0, <5>1, AnyFacts DEF Forms
        <5>3. \A j \in 0..(MaxNodes + 1) : At(next, c)[j] \in InUse \cup {Nil}
          BY <5>2, AnyFacts, ListedWithin DEF Within, Kept
        <5> QED BY <5>1, <5>3
      <4>6. k - 1 \in 0..(MaxNodes + 1) /\ k \in 0..(MaxNodes + 1)
        BY <4>3, <4>4, AnyFacts
      <4>7. PICK p, x, b, g, h : /\ p = a[k - 1] /\ x = a[k] /\ b = next[x]
                                 /\ g = [next EXCEPT ![p] = b] /\ h = [g EXCEPT ![x] = Nil]
        OBVIOUS
      <4>8. p \in InUse \cup {Nil} /\ x \in InUse
        BY <4>3, <4>5, <4>6, <4>7
      <4>9. b \in InUse \cup {Nil}
        BY <2>0, <4>7, <4>8, AnyFacts DEF Forms
      <4>10. Forms(InUse, type, child, g)
        BY <2>0, <4>7, <4>8, <4>9, AnyFacts, FormsChain
      <4>11. x \in InUse \cup {Nil} /\ Nil \in InUse \cup {Nil}
        BY <4>8
      <4>12. Forms(InUse, type, child, h)
        BY <4>7, <4>10, <4>11, AnyFacts, FormsChain
      <4>13. /\ next' = [next EXCEPT ![a[Min(hits) - 1]] = next[a[Min(hits)]], ![a[Min(hits)]] = Nil]
             /\ removed' = removed \cup {a[Min(hits)]} /\ up' = up
        BY <2>2, <3>3 DEF UnlinkLater
      <4>14. next' = h
        BY <4>1, <4>7, <4>13
      <4>15. removed' \subseteq Nodes
        BY <4>1, <4>7, <4>8, <4>13, AnyFacts DEF AnyInv, TypeOK
      <4>16. Forms(InUse, type, child', next')
        BY <3>1, <4>12, <4>14
      <4> HIDE DEF hits, a
      <4>17. /\ UNCHANGED <<used, type, cur>> /\ up' \in {"runs", "dead", "hangs"}
             /\ parent' \in [Nodes -> Nodes \cup {Nil}] /\ name' \in [Nodes -> Names \cup {"home"}]
             /\ \A y \in Nodes : Folders(InUse, type, parent'[y])
        BY <1>1, <3>1, <4>13 DEF AnyInv, TypeOK
      <4> QED BY <1>1, <4>15, <4>16, <4>17, RelistAny
    <3> QED BY <3>2, <3>3
  <2> QED BY <1>3, <2>1, <2>2 DEF RemoveFile, Here
<1> QED BY <1>2, <1>3

LEMMA UnlinkedForms ==
    ASSUME TreeConstants, AnyInv, NEW x \in InUse, parent[x] # Nil, child[parent[x]] # Nil
    PROVE  Forms(InUse, type, Unlinked(x).ch, Unlinked(x).nx) /\ Unlinked(x).ok \in BOOLEAN
<1> DEFINE d == parent[x]
           first == child[d]
           hits == Hits(next, first, name[x])
           a == At(next, first)
<1>0. Forms(InUse, type, child, next) /\ next[x] \in InUse \cup {Nil} /\ Nil \in InUse \cup {Nil}
  BY AnyFacts DEF AnyInv, Forms
<1>1. d \in InUse /\ type[d] # "file" /\ first \in InUse
  BY <1>0, AnyFacts DEF AnyInv, Folders, Forms
<1>2. PICK n, c : n = next[x] /\ c = [child EXCEPT ![d] = n]
  OBVIOUS
<1>3. PICK g : g = [next EXCEPT ![x] = Nil]
  OBVIOUS
<1>4. CASE name[first] = name[x]
  <2>1. Unlinked(x) = [ch |-> c, nx |-> g, ok |-> TRUE]
    BY <1>2, <1>3, <1>4 DEF Unlinked
  <2>2. Forms(InUse, type, c, next)
    <3> HIDE DEF d, first
    <3> QED BY <1>0, <1>1, <1>2, AnyFacts, FormsHang
  <2>3. x \in InUse \cup {Nil}
    OBVIOUS
  <2>4. Forms(InUse, type, c, g)
    BY <1>0, <1>3, <2>2, <2>3, AnyFacts, FormsChain
  <2> QED BY <2>1, <2>4
<1>5. CASE name[first] # name[x] /\ hits # {}
  <2>1. PICK k : k = Min(hits)
    OBVIOUS
  <2>2. k \in hits
    <3>1. hits \subseteq Nat
      BY DEF Hits
    <3> HIDE DEF hits
    <3> QED BY <1>5, <2>1, <3>1, MinOf
  <2>3. k \in 0..MaxNodes /\ a[k] # Nil /\ name[a[k]] = name[x]
    BY <2>2 DEF Hits
  <2>4. k # 0
    <3>1. a[0] = first
      BY AnyFacts, AtSteps
    <3> QED BY <1>5, <2>3, <3>1
  <2>5. \A j \in 0..(MaxNodes + 1) : a[j] \in InUse \cup {Nil}
    <3>1. first \in InUse \cup {Nil} /\ \A y \in InUse : next[y] \in InUse \cup {Nil}
      BY <1>1, AnyFacts DEF Within, Kept
    <3> HIDE DEF first
    <3> QED BY <3>1, AnyFacts, ListedWithin
  <2>6. k - 1 \in 0..(MaxNodes + 1)
    BY <2>3, <2>4, AnyFacts
  <2>7. PICK p, e, h : p = a[k - 1] /\ e = [next EXCEPT ![p] = n] /\ h = [e EXCEPT ![x] = Nil]
    OBVIOUS
  <2>8. Unlinked(x) = [ch |-> child, ok |-> TRUE, nx |-> h]
    <3>1. Unlinked(x) = [ch |-> child, ok |-> TRUE,
                         nx |-> [next EXCEPT ![a[Min(hits) - 1]] = n, ![x] = Nil]]
      BY <1>2, <1>5 DEF Unlinked
    <3>2. [next EXCEPT ![a[Min(hits) - 1]] = n, ![x] = Nil] = h
      BY <2>1, <2>7
    <3> QED BY <3>1, <3>2
  <2>9. p \in InUse \cup {Nil} /\ n \in InUse \cup {Nil} /\ x \in InUse \cup {Nil}
    BY <1>0, <1>2, <2>5, <2>6, <2>7
  <2>10. Forms(InUse, type, child, e)
    BY <1>0, <2>7, <2>9, AnyFacts, FormsChain
  <2>11. Forms(InUse, type, child, h)
    BY <1>0, <2>7, <2>9, <2>10, AnyFacts, FormsChain
  <2> QED BY <2>8, <2>11
<1>6. CASE name[first] # name[x] /\ hits = {}
  <2>1. Unlinked(x) = [ch |-> child, nx |-> next, ok |-> ~Endless(next, first)]
    BY <1>6 DEF Unlinked
  <2> QED BY <1>0, <2>1
<1> QED BY <1>4, <1>5, <1>6

\* The name of a node at its destination is a name.
LEMMA NamedName ==
    ASSUME TreeConstants, NEW U, NEW ch, NEW nx, NEW dst \in Paths, NEW r,
           LeadsTo(U, ch, nx, dst, FALSE, Len(dst), r), NEW old, old \in Names \cup {"home"}
    PROVE  Named(dst, r, old) \in Names \cup {"home"}
<1>1. dst \in Seq(Names \cup {".", ".."}) /\ Len(dst) \in Nat
  BY LenProperties DEF TreeConstants
<1>2. ASSUME NewName(dst, r) PROVE Last(dst) \in Names
  <2>1. r.done + 1 = Len(dst)
    BY <1>1, <1>2 DEF NewName, LeadsTo, Outcome
  <2> QED BY <1>1, <1>2, <2>1 DEF NewName, LeadsTo, Last
<1> QED BY <1>2 DEF Named

LEMMA PathAny ==
    ASSUME TreeConstants, AnyInv, NEW ch, NEW nx, Forms(InUse, type, ch, nx), NEW path \in Paths
    PROVE  LeadsTo(InUse, ch, nx, path, FALSE, Len(path), Resolve(ch, nx, path, FALSE))
<1>1. Within(InUse, ch, nx)
  BY AnyFacts, FormsKept DEF Within
<1>2. type \in [Nodes -> {"file", "directory"}]
  BY DEF AnyInv, TypeOK
<1> QED BY <1>1, <1>2, PathLeads

LEMMA RelinkAny ==
    ASSUME TreeConstants, AnyInv, NEW x \in InUse, NEW dst \in Paths, NEW u, Forms(InUse, type, u.ch, u.nx),
           Relink(x, dst, u), UNCHANGED <<type, used, cur, awaits, removed>>
    PROVE  AnyInv'
<1> DEFINE r == Resolve(u.ch, u.nx, dst, FALSE)
           l == Linked(u.ch, u.nx, r.node, x)
<1>1. LeadsTo(InUse, u.ch, u.nx, dst, FALSE, Len(dst), r)
  BY PathAny
<1>2. /\ awaits' \in BOOLEAN /\ removed' \subseteq Nodes /\ up \in {"runs", "dead", "hangs"}
      /\ name \in [Nodes -> Names \cup {"home"}] /\ parent \in [Nodes -> Nodes \cup {Nil}]
      /\ \A y \in Nodes : Folders(InUse, type, parent[y])
  BY DEF AnyInv, TypeOK
<1>3. CASE ~Accepted(dst, r)
  <2>1. child' = u.ch /\ next' = u.nx /\ UNCHANGED <<parent, name>> /\ up' \in {"runs", "dead", "hangs"}
    BY <1>2, <1>3 DEF Relink, Failure
  <2> QED BY <1>2, <2>1, RelistAny
<1>4. CASE Accepted(dst, r)
  <2>1. r.node \in InUse /\ type[r.node] # "file" /\ Folders(InUse, type, r.node)
    <3>1. r.node \in InUse /\ type[r.node] # "file"
      BY <1>1, <1>4 DEF Accepted, LeadsTo
    <3> QED BY <3>1, AnyFacts DEF Folders, AnyInv, TypeOK
  <2>2. Forms(InUse, type, l.ch, l.nx) /\ l.ok \in BOOLEAN
    <3>1. PICK d, ch, nx : d = r.node /\ ch = u.ch /\ nx = u.nx
      OBVIOUS
    <3>2. Forms(InUse, type, ch, nx) /\ d \in InUse /\ type[d] # "file"
      BY <2>1, <3>1
    <3>3. Forms(InUse, type, Linked(ch, nx, d, x).ch, Linked(ch, nx, d, x).nx) /\ Linked(ch, nx, d, x).ok \in BOOLEAN
      BY <3>2, AnyFacts, LinkedForms
    <3> QED BY <3>1, <3>3
  <2>3. PICK new : new = Named(dst, r, name[x])
    OBVIOUS
  <2>4. new \in Names \cup {"home"}
    <3>1. PICK old : old = name[x]
      OBVIOUS
    <3>2. old \in Names \cup {"home"}
      BY <1>2, <3>1, AnyFacts
    <3> HIDE DEF r
    <3> QED BY <1>1, <2>3, <3>1, <3>2, NamedName
  <2> HIDE DEF l, r
  <2>5. /\ child' = l.ch /\ next' = l.nx /\ parent' = [parent EXCEPT ![x] = r.node]
        /\ name' = IF l.ok THEN [name EXCEPT ![x] = new] ELSE name
        /\ up' = IF l.ok THEN up ELSE "hangs"
    BY <1>4, <2>3 DEF Relink, l, r
  <2>6. name' \in [Nodes -> Names \cup {"home"}] /\ up' \in {"runs", "dead", "hangs"}
    BY <1>2, <2>4, <2>5
  <2>7. parent' \in [Nodes -> Nodes \cup {Nil}] /\ \A y \in Nodes : Folders(InUse, type, parent'[y])
    BY <2>1, <2>5, ParentsAny
  <2> QED BY <1>2, <2>2, <2>5, <2>6, <2>7, RelistAny
<1> QED BY <1>3, <1>4

LEMMA MoveAny ==
    ASSUME TreeConstants, AnyInv, NEW src \in Paths, NEW dst \in Paths, MoveFile(src, dst)
    PROVE  AnyInv'
<1> DEFINE r == Resolve(child, next, src, FALSE)
           x == r.node
<1>1. LeadsTo(InUse, child, next, src, FALSE, Len(src), r)
  BY PathAny DEF AnyInv
<1>2. UNCHANGED <<used, cur, awaits, removed>> /\ awaits' \in BOOLEAN /\ removed' \subseteq Nodes
  BY DEF MoveFile, AnyInv, TypeOK
<1>3. CASE UNCHANGED fields /\ up' \in {"runs", "dead", "hangs"}
  BY <1>2, <1>3, RestAny DEF AnyInv
<1>4. CASE r.how = "at" /\ x # Nil /\ parent[x] # Nil /\ child[parent[x]] # Nil /\ Unlinked(x).ok
           /\ Relink(x, dst, Unlinked(x)) /\ UNCHANGED type
  <2>1. x \in InUse
    BY <1>1, <1>4 DEF LeadsTo
  <2>2. Forms(InUse, type, Unlinked(x).ch, Unlinked(x).nx)
    BY <1>4, <2>1, UnlinkedForms
  <2> QED BY <1>2, <1>4, <2>1, <2>2, RelinkAny
<1> HIDE DEF r
<1>5. up \in {"runs", "dead", "hangs"}
  BY DEF AnyInv, TypeOK
<1> QED BY <1>3, <1>4, <1>5 DEF MoveFile, Failure, r

LEMMA DuplicateAny ==
    ASSUME TreeConstants, AnyInv, used < MaxNodes, NEW x \in InUse, NEW dst \in Paths, NEW r,
           LeadsTo(InUse, child, next, dst, FALSE, Len(dst), r), Duplicate(x, dst, r), UNCHANGED <<cur, removed>>
    PROVE  AnyInv'
<1>0. /\ used' = used + 1 /\ InUse' = 0..(used + 1) /\ InUse' \subseteq Nodes
      /\ New \in Nodes /\ New \in InUse' /\ New \notin InUse /\ InUse \subseteq InUse'
  BY AnyFacts DEF AnyInv, TypeOK, Duplicate, New, InUse, Nodes
<1>1. r.node \in InUse /\ type[r.node] # "file" /\ Folders(InUse, type, r.node)
  <2>1. r.node \in InUse /\ type[r.node] # "file"
    BY DEF Duplicate, Accepted, LeadsTo
  <2> QED BY <2>1, AnyFacts DEF Folders, AnyInv, TypeOK
<1>2. PICK kind, new : kind = type[x] /\ new = Named(dst, r, name[x])
  OBVIOUS
<1>3. kind \in {"file", "directory"} /\ new \in Names \cup {"home"}
  <2>1. PICK old : old = name[x]
    OBVIOUS
  <2>2. old \in Names \cup {"home"}
    BY <2>1, AnyFacts DEF AnyInv, TypeOK
  <2>3. Named(dst, r, old) \in Names \cup {"home"}
    BY <2>2, NamedName
  <2> QED BY <1>2, <2>1, <2>3, AnyFacts DEF AnyInv, TypeOK
<1>4. /\ type' = [type EXCEPT ![New] = kind] /\ type' \in [Nodes -> {"file", "directory"}]
      /\ name' = [name EXCEPT ![New] = new] /\ name' \in [Nodes -> Names \cup {"home"}]
      /\ parent' = [parent EXCEPT ![x] = r.node]
  BY <1>2, <1>3 DEF AnyInv, TypeOK, Duplicate
<1>5. Forms(InUse', type', child, next)
  <2>1. \A y \in Nodes \ InUse : child[y] = Nil /\ next[y] = Nil
    BY DEF AnyInv, Forms
  <2>2. \A y \in Nodes : type'[y] = "file" => child[y] = Nil
    BY <1>0, <1>4, <2>1 DEF AnyInv, TypeOK, Forms
  <2> QED BY <1>0, <2>1, <2>2 DEF AnyInv, Forms
<1>6. type'[r.node] # "file" /\ r.node \in InUse'
  BY <1>0, <1>1, <1>4 DEF AnyInv, TypeOK
<1> DEFINE l == Linked(child, next, r.node, New)
<1>7. Forms(InUse', type', l.ch, l.nx) /\ l.ok \in BOOLEAN
  <2>1. PICK U, ty, d : U = InUse' /\ ty = type' /\ d = r.node
    OBVIOUS
  <2>2. Forms(U, ty, child, next) /\ U \subseteq Nodes /\ d \in U /\ ty[d] # "file" /\ New \in U
    BY <1>0, <1>5, <1>6, <2>1
  <2>3. /\ Forms(U, ty, Linked(child, next, d, New).ch, Linked(child, next, d, New).nx)
        /\ Linked(child, next, d, New).ok \in BOOLEAN
    BY <2>2, AnyFacts, LinkedForms
  <2> QED BY <2>1, <2>3
<1> HIDE DEF l
<1>8. /\ child' = l.ch /\ next' = l.nx /\ up' = (IF l.ok THEN up ELSE "hangs")
      /\ awaits' = (l.ok /\ type[x] = "directory")
  BY DEF Duplicate, l
<1>9. Forms(InUse', type', child', next')
  BY <1>7, <1>8
<1>10. \A p : Folders(InUse, type, p) => Folders(InUse', type', p)
  BY <1>0, <1>4 DEF Folders, AnyInv, TypeOK
<1>11. parent' \in [Nodes -> Nodes \cup {Nil}] /\ \A y \in Nodes : Folders(InUse, type, parent'[y])
  BY <1>1, <1>4, ParentsAny
<1>12. \A y \in Nodes : Folders(InUse', type', parent'[y])
  BY <1>10, <1>11
<1>13. Folders(InUse', type', cur)
  BY <1>10 DEF AnyInv
<1>14. child' \in [Nodes -> Nodes \cup {Nil}] /\ next' \in [Nodes -> Nodes \cup {Nil}]
  BY <1>0, <1>9 DEF Forms
<1>15. up' \in {"runs", "dead", "hangs"} /\ awaits' \in BOOLEAN
  BY <1>7, <1>8 DEF AnyInv, TypeOK
<1>16. used' \in 0..MaxNodes /\ cur' = cur /\ removed' = removed
  BY <1>0, AnyFacts DEF AnyInv, TypeOK
<1> QED BY <1>4, <1>9, <1>11, <1>12, <1>13, <1>14, <1>15, <1>16 DEF AnyInv, TypeOK

LEMMA CopyAny ==
    ASSUME TreeConstants, AnyInv, NEW src \in Paths, NEW dst \in Paths, CopyFile(src, dst)
    PROVE  AnyInv'
<1> DEFINE s == Resolve(child, next, src, FALSE)
           r == Resolve(child, next, dst, FALSE)
<1>1. /\ LeadsTo(InUse, child, next, src, FALSE, Len(src), s)
      /\ LeadsTo(InUse, child, next, dst, FALSE, Len(dst), r)
  BY PathAny DEF AnyInv
<1>2. UNCHANGED <<cur, removed>> /\ removed' \subseteq Nodes /\ used < MaxNodes
  BY DEF CopyFile, AnyInv, TypeOK
<1>3. CASE UNCHANGED <<used, fields, awaits>> /\ up' \in {"runs", "dead", "hangs"}
  BY <1>2, <1>3, RestAny DEF AnyInv, TypeOK
<1>4. CASE s.node # Nil /\ Duplicate(s.node, dst, r)
  <2>1. s.node \in InUse
    BY <1>1, <1>4 DEF LeadsTo
  <2> HIDE DEF s, r
  <2>2. PICK x : x = s.node
    OBVIOUS
  <2>3. x \in InUse /\ Duplicate(x, dst, r)
    BY <1>4, <2>1, <2>2
  <2> QED BY <1>1, <1>2, <2>3, DuplicateAny
<1> HIDE DEF s, r
<1>5. up \in {"runs", "dead", "hangs"}
  BY DEF AnyInv, TypeOK
<1> QED BY <1>3, <1>4, <1>5 DEF CopyFile, Failure, s, r

LEMMA AnyNext == ASSUME TreeConstants, AnyInv, [Next]_vars PROVE AnyInv'
<1>1. CASE LoseCommand
  BY <1>1, RestAny DEF LoseCommand, AnyInv, TypeOK
<1>2. CASE UNCHANGED vars
  BY <1>2, RestAny DEF vars, AnyInv, TypeOK
<1> QED BY <1>1, <1>2, MakeAny, RemoveAny, ChangeAny, MoveAny, CopyAny DEF Next

LEMMA AnyInit == ASSUME TreeConstants, Init PROVE AnyInv
<1>1. MaxNodes \in Nat /\ used = 0 /\ InUse = {0} /\ InUse \subseteq Nodes /\ Home \in Nodes
  BY DEF TreeConstants, Init, InUse, Nodes, Home
<1>2. TypeOK
  <2>1. /\ name \in [Nodes -> Names \cup {"home"}] /\ type \in [Nodes -> {"file", "directory"}]
        /\ child \in [Nodes -> Nodes \cup {Nil}] /\ next \in [Nodes -> Nodes \cup {Nil}]
        /\ parent \in [Nodes -> Nodes \cup {Nil}]
    BY DEF Init
  <2>2. cur \in Nodes \cup {Nil} /\ up \in {"runs", "dead", "hangs"} /\ awaits \in BOOLEAN /\ removed \subseteq Nodes
    BY <1>1 DEF Init
  <2> QED BY <1>1, <2>1, <2>2 DEF TypeOK
<1>3. Forms(InUse, type, child, next) /\ \A y \in Nodes : Folders(InUse, type, parent[y])
  BY <1>1 DEF Init, Forms, Folders
<1>4. Folders(InUse, type, cur)
  BY <1>1 DEF Init, Folders, Home
<1> QED BY <1>2, <1>3, <1>4 DEF AnyInv

LEMMA AlwaysAny == Spec => []AnyInv
<1>1. Init => AnyInv
  BY AnyInit, TreeConstantsOK
<1>2. AnyInv /\ [Next]_vars => AnyInv'
  BY AnyNext, TreeConstantsOK
<1> QED BY <1>1, <1>2, PTL DEF Spec

\* Every field of every node keeps its type, whatever the user types: no
\* pointer leads outside the nodes, and no path into nowhere.
THEOREM TreeTypeCorrect == Spec => []TypeOK
<1>1. AnyInv => TypeOK
  BY DEF AnyInv
<1> QED BY <1>1, AlwaysAny, PTL

\* Nothing is ever put below a file, however the pointers are twisted: cur and
\* all parents are directories and files have no children.
THEOREM NothingBelowFiles == Spec => []FilesAreLeaves
<1>1. AnyInv => FilesAreLeaves
  BY DEF AnyInv, Forms, Folders, FilesAreLeaves
<1> QED BY <1>1, AlwaysAny, PTL

-----------------------------------------------------------------------------
(* The shape of the lists, if the nodes of L are those on them: D gives    *)
(* each node the directory that lists it, and nothing is entered twice.    *)

LEMMA NodeIsOne == \A y \in Nodes : y # Nil /\ y # Stuck
BY DEF Nodes, Nil, Stuck

Shape(L, D, ch, nx) ==
    /\ ch \in [Nodes -> Nodes \cup {Nil}] /\ nx \in [Nodes -> Nodes \cup {Nil}]
    /\ L \subseteq Nodes \ {Home} /\ Home \in Nodes
    /\ \A d \in Nodes : ch[d] # Nil => d \in L \cup {Home} /\ ch[d] \in L /\ D[ch[d]] = d
    /\ \A y \in Nodes : nx[y] # Nil => y \in L /\ nx[y] \in L /\ D[nx[y]] = D[y]
    /\ \A y, z \in Nodes : nx[y] = nx[z] /\ nx[y] # Nil => y = z
    /\ \A y, d \in Nodes : nx[y] # Nil => nx[y] # ch[d]

LEMMA ShapeEnds ==
    ASSUME MaxNodes \in Nat, NEW L, NEW D, NEW ch, NEW nx, Shape(L, D, ch, nx), NEW d \in Nodes
    PROVE  ~Endless(nx, ch[d])
<1>1. PICK x : x = ch[d]
  OBVIOUS
<1>2. x \in Nodes \cup {Nil} /\ Links(nx)
  BY <1>1 DEF Shape, Links
<1>3. \A y, z \in Nodes : nx[y] = nx[z] /\ nx[y] # Nil => y = z
  BY DEF Shape
<1>4. \A y \in Nodes : nx[y] # Nil => nx[y] # x
  BY <1>1 DEF Shape
<1>5. ~Endless(nx, x)
  BY <1>2, <1>3, <1>4, ListEnds
<1> QED BY <1>1, <1>5

LEMMA ShapeLists ==
    ASSUME MaxNodes \in Nat, NEW L, NEW D, NEW ch, NEW nx, Shape(L, D, ch, nx), NEW d \in Nodes,
           NEW y \in Listed(nx, ch[d])
    PROVE  y \in L /\ D[y] = d
<1> DEFINE S == {z \in L : D[z] = d}
<1>1. PICK x : x = ch[d]
  OBVIOUS
<1>2. x \in S \cup {Nil}
  BY <1>1 DEF Shape
<1>3. \A z \in S : nx[z] \in S \cup {Nil}
  BY DEF Shape
<1> HIDE DEF S
<1>4. Listed(nx, x) \subseteq S
  BY <1>2, <1>3, ListedWithin
<1> QED BY <1>1, <1>4 DEF S

\* The nodes below home, by the pointers.
LEMMA HomeLeast ==
    ASSUME MaxNodes \in Nat, NEW ch, NEW nx, NEW S, Home \in S, Kept(S, ch), Kept(S, nx)
    PROVE  Subtree(ch, nx, Home) \subseteq S
<1>1. ASSUME NEW y \in S PROVE Listed(nx, ch[y]) \subseteq S
  <2>1. PICK x : x = ch[y]
    OBVIOUS
  <2>2. x \in S \cup {Nil} /\ \A z \in S : nx[z] \in S \cup {Nil}
    BY <2>1 DEF Kept
  <2>3. Listed(nx, x) \subseteq S
    BY <2>2, ListedWithin
  <2> QED BY <2>1, <2>3
<1>2. Holds(ch, nx, S)
  BY <1>1 DEF Holds
<1> QED BY <1>2, SubtreeLeast

LEMMA ShapeKept ==
    ASSUME NEW L, NEW D, NEW ch, NEW nx, Shape(L, D, ch, nx) PROVE Kept(Nodes, ch) /\ Kept(Nodes, nx)
BY DEF Shape, Kept

\* Below x there are x and what is on a list below x.
LEMMA SubtreeListed ==
    ASSUME MaxNodes \in Nat, NEW L, NEW D, NEW ch, NEW nx, Shape(L, D, ch, nx), NEW x \in Nodes,
           NEW y \in Subtree(ch, nx, x), y # x
    PROVE  D[y] \in Subtree(ch, nx, x) /\ y \in Listed(nx, ch[D[y]]) /\ y \in L
<1> DEFINE T == Subtree(ch, nx, x)
           S == {x} \cup UNION {Listed(nx, ch[z]) : z \in T}
<1>1. x \in T /\ T \subseteq Nodes /\ Holds(ch, nx, T)
  BY ShapeKept, SubtreeHolds
<1>2. Holds(ch, nx, S) /\ x \in S
  BY <1>1 DEF Holds
<1>3. T \subseteq S
  <2> HIDE DEF S
  <2> QED BY <1>2, SubtreeLeast
<1>4. PICK z \in T : y \in Listed(nx, ch[z])
  BY <1>3
<1>5. y \in L /\ D[y] = z
  BY <1>1, <1>4, ShapeLists
<1> QED BY <1>4, <1>5

LEMMA HomeHolds ==
    ASSUME MaxNodes \in Nat, NEW L, NEW D, NEW ch, NEW nx, Shape(L, D, ch, nx)
    PROVE  /\ Home \in Subtree(ch, nx, Home) /\ Subtree(ch, nx, Home) \subseteq L \cup {Home}
           /\ Kept(Subtree(ch, nx, Home), ch) /\ Kept(Subtree(ch, nx, Home), nx)
<1> DEFINE T == Subtree(ch, nx, Home)
<1>0. Home \in Nodes
  BY DEF Shape
<1>1. Home \in T /\ T \subseteq Nodes /\ Holds(ch, nx, T)
  BY <1>0, ShapeKept, SubtreeHolds
<1>2. T \subseteq L \cup {Home}
  BY <1>0, SubtreeListed
<1>3. ASSUME NEW y \in T PROVE ch[y] \in T \cup {Nil}
  <2>1. ch[y] # Nil => ch[y] \in Listed(nx, ch[y])
    BY ListedFirst
  <2> QED BY <1>1, <2>1 DEF Holds
<1>4. ASSUME NEW y \in T PROVE nx[y] \in T \cup {Nil}
  <2>1. CASE y = Home
    BY <1>0, <2>1 DEF Shape
  <2>2. CASE y # Home /\ nx[y] # Nil
    <3>1. D[y] \in T /\ y \in Listed(nx, ch[D[y]])
      BY <1>0, <2>2, SubtreeListed
    <3>2. PICK f : f = ch[D[y]]
      OBVIOUS
    <3>3. ~Endless(nx, f) /\ y \in Listed(nx, f)
      BY <1>1, <3>1, <3>2, ShapeEnds
    <3>4. nx[y] \in Listed(nx, f)
      BY <2>2, <3>3, ListedNext
    <3> QED BY <1>1, <3>1, <3>2, <3>4 DEF Holds
  <2> QED BY <2>1, <2>2
<1> QED BY <1>1, <1>2, <1>3, <1>4 DEF Kept

\* No pointer leads to x.
Loose(x, ch, nx) == \A y \in Nodes : ch[y] # x /\ nx[y] # x

LEMMA LooseOutside ==
    ASSUME MaxNodes \in Nat, NEW L, NEW D, NEW ch, NEW nx, Shape(L, D, ch, nx), NEW x \in L, Loose(x, ch, nx)
    PROVE  x \notin Subtree(ch, nx, Home)
<1> DEFINE T == Subtree(ch, nx, Home)
           S == T \ {x}
<1>1. Home \in T /\ T \subseteq Nodes /\ Kept(T, ch) /\ Kept(T, nx) /\ Home # x
  BY HomeHolds DEF Shape
<1>2. Home \in S /\ Kept(S, ch) /\ Kept(S, nx)
  BY <1>1 DEF Kept, Loose
<1> HIDE DEF S
<1>3. T \subseteq S
  BY <1>2, HomeLeast
<1> QED BY <1>3 DEF S

-----------------------------------------------------------------------------
(* Linking a loose node.                                                   *)

\* h and n are ch and nx with x at the end of the list of d.
Put(ch, nx, d, x, h, n) ==
    \/ ch[d] = Nil /\ h = [ch EXCEPT ![d] = x] /\ n = nx
    \/ /\ ch[d] # Nil /\ h = ch
       /\ \E y \in Listed(nx, ch[d]) : nx[y] = Nil /\ n = [nx EXCEPT ![y] = x]

LEMMA LinkedPuts ==
    ASSUME MaxNodes \in Nat, NEW L, NEW D, NEW ch, NEW nx, Shape(L, D, ch, nx), NEW d \in Nodes, NEW x
    PROVE  Linked(ch, nx, d, x).ok /\ Put(ch, nx, d, x, Linked(ch, nx, d, x).ch, Linked(ch, nx, d, x).nx)
<1>1. CASE ch[d] = Nil
  BY <1>1 DEF Linked, Put
<1>2. CASE ch[d] # Nil
  <2>1. ~Endless(nx, ch[d])
    BY ShapeEnds
  <2>2. PICK f : f = ch[d]
    OBVIOUS
  <2>3. \E y \in Listed(nx, f) : nx[y] = Nil
    BY <1>2, <2>1, <2>2, ListedLast
  <2> DEFINE last == CHOOSE y \in Listed(nx, f) : nx[y] = Nil
  <2>4. last \in Listed(nx, f) /\ nx[last] = Nil
    BY <2>3
  <2>5. Linked(ch, nx, d, x) = [ch |-> ch, nx |-> [nx EXCEPT ![last] = x], ok |-> TRUE]
    BY <1>2, <2>1, <2>2 DEF Linked
  <2> HIDE DEF last
  <2>6. PICK n : n = [nx EXCEPT ![last] = x]
    OBVIOUS
  <2>7. Put(ch, nx, d, x, ch, n)
    BY <1>2, <2>2, <2>4, <2>6 DEF Put
  <2> QED BY <2>5, <2>6, <2>7
<1> QED BY <1>1, <1>2

Gives(f, x, v, g) == g = [f EXCEPT ![x] = v]

LEMMA PutShape ==
    ASSUME MaxNodes \in Nat, NEW L, NEW D, NEW ch, NEW nx, Shape(L, D, ch, nx), D \in [Nodes -> Nodes],
           NEW d \in L \cup {Home}, NEW x \in L, Loose(x, ch, nx), nx[x] = Nil,
           NEW h, NEW n, Put(ch, nx, d, x, h, n), NEW E, Gives(D, x, d, E)
    PROVE  Shape(L, E, h, n) /\ E \in [Nodes -> Nodes]
<1>1. d \in Nodes /\ x \in Nodes /\ L \subseteq Nodes /\ x # Home /\ x # Nil
  BY NodeIsOne DEF Shape
<1>2. E \in [Nodes -> Nodes] /\ E[x] = d /\ \A y \in Nodes : y # x => E[y] = D[y]
  BY <1>1 DEF Gives
<1>3. CASE ch[d] = Nil /\ h = [ch EXCEPT ![d] = x] /\ n = nx
  <2>1. h \in [Nodes -> Nodes \cup {Nil}] /\ h[d] = x /\ \A e \in Nodes : e # d => h[e] = ch[e]
    BY <1>1, <1>3 DEF Shape
  <2>2. \A e \in Nodes : h[e] # Nil => e \in L \cup {Home} /\ h[e] \in L /\ E[h[e]] = e
    BY <1>1, <1>2, <2>1 DEF Shape, Loose
  <2>3. \A y \in Nodes : n[y] # Nil => y \in L /\ n[y] \in L /\ E[n[y]] = E[y]
    BY <1>1, <1>2, <1>3 DEF Shape, Loose
  <2>4. \A y, e \in Nodes : n[y] # Nil => n[y] # h[e]
    BY <1>1, <1>3, <2>1 DEF Shape, Loose
  <2> QED BY <1>2, <1>3, <2>1, <2>2, <2>3, <2>4 DEF Shape
<1>4. CASE ch[d] # Nil /\ h = ch /\ \E y \in Listed(nx, ch[d]) : nx[y] = Nil /\ n = [nx EXCEPT ![y] = x]
  <2>1. PICK y \in Listed(nx, ch[d]) : nx[y] = Nil /\ n = [nx EXCEPT ![y] = x]
    BY <1>4
  <2>2. y \in L /\ D[y] = d
    BY <1>1, ShapeLists
  <2>3. y # x
    <3>1. SUFFICES ASSUME y = x PROVE FALSE
      OBVIOUS
    <3>2. PICK S : S = {z \in Nodes : z # x}
      OBVIOUS
    <3>3. PICK f : f = ch[d]
      OBVIOUS
    <3>4. f \in S \cup {Nil} /\ \A z \in S : nx[z] \in S \cup {Nil}
      BY <1>1, <3>2, <3>3 DEF Shape, Loose
    <3>5. Listed(nx, f) \subseteq S
      BY <3>4, ListedWithin
    <3> QED BY <3>1, <3>2, <3>3, <3>5
  <2>4. n \in [Nodes -> Nodes \cup {Nil}] /\ n[y] = x /\ \A e \in Nodes : e # y => n[e] = nx[e]
    BY <1>1, <2>1, <2>2 DEF Shape
  <2>5. \A e \in Nodes : h[e] # Nil => e \in L \cup {Home} /\ h[e] \in L /\ E[h[e]] = e
    BY <1>1, <1>2, <1>4 DEF Shape, Loose
  <2>6. \A e \in Nodes : n[e] # Nil => e \in L /\ n[e] \in L /\ E[n[e]] = E[e]
    <3>1. E[n[y]] = E[y]
      BY <1>1, <1>2, <2>2, <2>3, <2>4
    <3> QED BY <1>1, <1>2, <2>2, <2>4, <3>1 DEF Shape, Loose
  <2>7. \A e, z \in Nodes : n[e] = n[z] /\ n[e] # Nil => e = z
    BY <1>1, <2>4 DEF Shape, Loose
  <2>8. \A e, z \in Nodes : n[e] # Nil => n[e] # h[z]
    BY <1>1, <1>4, <2>4 DEF Shape, Loose
  <2> QED BY <1>2, <1>4, <2>4, <2>5, <2>6, <2>7, <2>8 DEF Shape
<1> QED BY <1>3, <1>4 DEF Put

\* What was below home stays there, and x gets there.
LEMMA PutReach ==
    ASSUME MaxNodes \in Nat, NEW L, NEW D, NEW ch, NEW nx, Shape(L, D, ch, nx), NEW x \in Nodes,
           NEW E, NEW h, NEW n, Shape(L, E, h, n), NEW d \in Subtree(ch, nx, Home), Put(ch, nx, d, x, h, n)
    PROVE  Subtree(ch, nx, Home) \subseteq Subtree(h, n, Home) /\ x \in Subtree(h, n, Home)
<1> DEFINE S == Subtree(ch, nx, Home)
           T == Subtree(h, n, Home)
<1>1. Home \in T /\ T \subseteq L \cup {Home} /\ Kept(T, h) /\ Kept(T, n)
  BY HomeHolds
<1>2. S \subseteq L \cup {Home} /\ Home \in S /\ L \cup {Home} \subseteq Nodes
  BY HomeHolds DEF Shape
<1>3. /\ \A y \in Nodes : ch[y] # Nil => h[y] = ch[y]
      /\ \A y \in Nodes : nx[y] # Nil => n[y] = nx[y]
  BY DEF Put, Shape
<1>4. Kept(T, ch) /\ Kept(T, nx)
  BY <1>1, <1>2, <1>3 DEF Kept
<1>5. S \subseteq T
  BY <1>1, <1>4, HomeLeast
<1>6. x \in T
  <2>0. x # Nil /\ d \in Nodes
    BY <1>2, NodeIsOne
  <2>1. CASE ch[d] = Nil /\ h = [ch EXCEPT ![d] = x]
    <3>1. h[d] = x
      BY <2>0, <2>1 DEF Shape
    <3> QED BY <1>1, <1>5, <2>0, <3>1 DEF Kept
  <2>2. ASSUME NEW y \in Listed(nx, ch[d]), n = [nx EXCEPT ![y] = x] PROVE x \in T
    <3>1. S \subseteq Nodes /\ Holds(ch, nx, S)
      <4>1. Home \in Nodes
        BY DEF Shape
      <4> QED BY <4>1, ShapeKept, SubtreeHolds
    <3>2. y \in S /\ y \in Nodes
      BY <2>2, <3>1 DEF Holds
    <3>3. n[y] = x
      BY <2>2, <3>2 DEF Shape
    <3> QED BY <1>1, <1>5, <2>0, <3>2, <3>3 DEF Kept
  <2> QED BY <2>1, <2>2 DEF Put
<1> QED BY <1>5, <1>6

-----------------------------------------------------------------------------
(* Unlinking a node.                                                       *)

\* h and n are ch and nx without x, which was first on the list of d or
\* behind p.
Cut(ch, nx, d, x, h, n) ==
    \/ ch[d] = x /\ h = [ch EXCEPT ![d] = nx[x]] /\ n = [nx EXCEPT ![x] = Nil]
    \/ h = ch /\ \E p \in Nodes : p # x /\ nx[p] = x /\ n = [nx EXCEPT ![p] = nx[x], ![x] = Nil]

LEMMA CutShape ==
    ASSUME NEW L, NEW D, NEW ch, NEW nx, Shape(L, D, ch, nx), NEW d \in Nodes, NEW x \in L,
           NEW h, NEW n, Cut(ch, nx, d, x, h, n)
    PROVE  Shape(L, D, h, n) /\ Loose(x, h, n) /\ n[x] = Nil /\ h[x] \in {ch[x], nx[x]}
<1>1. x \in Nodes /\ x # Nil /\ nx[x] \in Nodes \cup {Nil}
  BY NodeIsOne DEF Shape
<1>2. CASE ch[d] = x /\ h = [ch EXCEPT ![d] = nx[x]] /\ n = [nx EXCEPT ![x] = Nil]
  <2>1. h \in [Nodes -> Nodes \cup {Nil}] /\ h[d] = nx[x] /\ \A e \in Nodes : e # d => h[e] = ch[e]
    BY <1>1, <1>2 DEF Shape
  <2>2. n \in [Nodes -> Nodes \cup {Nil}] /\ n[x] = Nil /\ \A e \in Nodes : e # x => n[e] = nx[e]
    BY <1>1, <1>2 DEF Shape
  <2>3. D[x] = d /\ d \in L \cup {Home}
    BY <1>1, <1>2 DEF Shape
  <2>4. \A e \in Nodes : h[e] # Nil => e \in L \cup {Home} /\ h[e] \in L /\ D[h[e]] = e
    BY <1>1, <2>1, <2>3 DEF Shape
  <2>5. \A y \in Nodes : n[y] # Nil => y \in L /\ n[y] \in L /\ D[n[y]] = D[y]
    BY <2>2 DEF Shape
  <2>6. \A y, z \in Nodes : n[y] = n[z] /\ n[y] # Nil => y = z
    BY <2>2 DEF Shape
  <2>7. \A y, e \in Nodes : n[y] # Nil => n[y] # h[e]
    BY <1>1, <2>1, <2>2 DEF Shape
  <2>8. Loose(x, h, n)
    <3>1. ASSUME NEW e \in Nodes PROVE h[e] # x
      <4>1. CASE e = d
        BY <1>1, <1>2, <2>1, <4>1 DEF Shape
      <4>2. CASE e # d
        BY <1>1, <2>1, <2>3, <4>2 DEF Shape
      <4> QED BY <4>1, <4>2
    <3>2. ASSUME NEW e \in Nodes PROVE n[e] # x
      BY <1>1, <1>2, <2>2 DEF Shape
    <3> QED BY <3>1, <3>2 DEF Loose
  <2>9. Shape(L, D, h, n)
    BY <2>1, <2>2, <2>4, <2>5, <2>6, <2>7 DEF Shape
  <2> QED BY <1>1, <2>1, <2>2, <2>8, <2>9
<1>3. ASSUME h = ch, NEW p \in Nodes, p # x, nx[p] = x, n = [nx EXCEPT ![p] = nx[x], ![x] = Nil]
      PROVE  Shape(L, D, h, n) /\ Loose(x, h, n) /\ n[x] = Nil /\ h[x] \in {ch[x], nx[x]}
  <2>1. /\ n \in [Nodes -> Nodes \cup {Nil}] /\ n[x] = Nil /\ n[p] = nx[x]
        /\ \A e \in Nodes : e # x /\ e # p => n[e] = nx[e]
    BY <1>1, <1>3 DEF Shape
  <2>2. p \in L /\ D[x] = D[p] /\ nx[x] # x
    BY <1>1, <1>3 DEF Shape
  <2>3. \A y \in Nodes : n[y] # Nil => y \in L /\ n[y] \in L /\ D[n[y]] = D[y]
    BY <1>1, <2>1, <2>2 DEF Shape
  <2>4. \A y, z \in Nodes : n[y] = n[z] /\ n[y] # Nil => y = z
    BY <1>1, <2>1 DEF Shape
  <2>5. \A y, e \in Nodes : n[y] # Nil => n[y] # h[e]
    BY <1>1, <1>3, <2>1 DEF Shape
  <2>6. Shape(L, D, h, n)
    BY <1>3, <2>1, <2>3, <2>4, <2>5 DEF Shape
  <2>7. Loose(x, h, n)
    <3>1. ASSUME NEW e \in Nodes PROVE h[e] # x
      BY <1>1, <1>3 DEF Shape
    <3>2. ASSUME NEW e \in Nodes PROVE n[e] # x
      BY <1>1, <1>3, <2>1, <2>2 DEF Shape
    <3> QED BY <3>1, <3>2 DEF Loose
  <2> QED BY <1>3, <2>1, <2>6, <2>7
<1> QED BY <1>2, <1>3 DEF Cut

\* The node a that x was cut from is still below home.
Anchor(ch, nx, x, h, n, a) ==
    /\ a \in Nodes /\ a # x
    /\ \A y \in Nodes \ {a, x} : h[y] = ch[y] /\ n[y] = nx[y]
    /\ ch[a] \in {h[a], x} /\ nx[a] \in {n[a], x} /\ h[x] = ch[x] /\ nx[x] \in {h[a], n[a]}

LEMMA CutAnchor ==
    ASSUME MaxNodes \in Nat, NEW L, NEW D, NEW ch, NEW nx, Shape(L, D, ch, nx), L \subseteq Subtree(ch, nx, Home),
           NEW d \in Nodes, NEW x \in L, NEW h, NEW n, Cut(ch, nx, d, x, h, n)
    PROVE  \E a \in Subtree(h, n, Home) : Anchor(ch, nx, x, h, n, a)
<1> DEFINE T == Subtree(h, n, Home)
<1>0. Shape(L, D, h, n) /\ Loose(x, h, n)
  BY CutShape
<1>1. Shape(L, D, h, n) /\ Loose(x, h, n) /\ x \in Nodes /\ x # Nil /\ nx[x] \in Nodes \cup {Nil}
  BY <1>0, NodeIsOne DEF Shape
<1>2. Home \in T /\ T \subseteq L \cup {Home} /\ Kept(T, h) /\ Kept(T, n) /\ x \notin T /\ L \cup {Home} \subseteq Nodes
  BY <1>1, HomeHolds, LooseOutside DEF Shape
<1>3. ASSUME NEW a \in L \cup {Home}, \A y \in Nodes \ {a, x} : h[y] = ch[y] /\ n[y] = nx[y]
      PROVE  a \in T
  <2>1. SUFFICES ASSUME a \notin T PROVE FALSE
    OBVIOUS
  <2>2. Kept(T, ch) /\ Kept(T, nx)
    BY <1>2, <1>3, <2>1 DEF Kept
  <2>3. Subtree(ch, nx, Home) \subseteq T
    BY <1>2, <2>2, HomeLeast
  <2> QED BY <1>2, <2>1, <2>3
<1>4. CASE ch[d] = x /\ h = [ch EXCEPT ![d] = nx[x]] /\ n = [nx EXCEPT ![x] = Nil]
  <2>1. \A y \in Nodes \ {d, x} : h[y] = ch[y] /\ n[y] = nx[y]
    BY <1>1, <1>4 DEF Shape
  <2>2. d \in L \cup {Home}
    BY <1>1, <1>4 DEF Shape
  <2>3. d \in T
    BY <1>3, <2>1, <2>2
  <2>4. Anchor(ch, nx, x, h, n, d)
    BY <1>1, <1>2, <1>4, <2>1, <2>3 DEF Anchor, Shape
  <2> QED BY <2>3, <2>4
<1>5. ASSUME h = ch, NEW p \in Nodes, p # x, nx[p] = x, n = [nx EXCEPT ![p] = nx[x], ![x] = Nil]
      PROVE  \E a \in T : Anchor(ch, nx, x, h, n, a)
  <2>1. \A y \in Nodes \ {p, x} : h[y] = ch[y] /\ n[y] = nx[y]
    BY <1>1, <1>5 DEF Shape
  <2>2. p \in L \cup {Home}
    BY <1>1, <1>5 DEF Shape
  <2>3. p \in T
    BY <1>3, <2>1, <2>2
  <2>4. n[p] = nx[x]
    BY <1>1, <1>5 DEF Shape
  <2>5. Anchor(ch, nx, x, h, n, p)
    BY <1>1, <1>5, <2>1, <2>4 DEF Anchor
  <2> QED BY <2>3, <2>5
<1> QED BY <1>4, <1>5 DEF Cut

\* What was below home is so still, or is below x.
LEMMA CutReach ==
    ASSUME MaxNodes \in Nat, NEW L, NEW D, NEW ch, NEW nx, Shape(L, D, ch, nx), L \subseteq Subtree(ch, nx, Home),
           NEW d \in Nodes, NEW x \in L, NEW h, NEW n, Cut(ch, nx, d, x, h, n)
    PROVE  L \cup {Home} \subseteq Subtree(h, n, Home) \cup Subtree(ch, nx, x)
<1> DEFINE S0 == Subtree(h, n, Home)
           T == Subtree(ch, nx, x)
           S == S0 \cup T
<1>0. Shape(L, D, h, n) /\ Loose(x, h, n)
  BY CutShape
<1>1. Shape(L, D, h, n) /\ Loose(x, h, n) /\ x \in Nodes /\ L \cup {Home} \subseteq Nodes
  BY <1>0 DEF Shape
<1>2. Home \in S0 /\ S0 \subseteq L \cup {Home} /\ Kept(S0, h) /\ Kept(S0, n) /\ x \notin S0
  BY <1>1, HomeHolds, LooseOutside
<1>3. PICK a \in S0 : Anchor(ch, nx, x, h, n, a)
  BY CutAnchor
<1>4. x \in T /\ T \subseteq Nodes /\ Holds(ch, nx, T)
  BY <1>1, ShapeKept, SubtreeHolds
<1>5. ASSUME NEW y \in T PROVE ch[y] \in T \cup {Nil}
  <2>1. ch[y] # Nil => ch[y] \in Listed(nx, ch[y])
    BY ListedFirst
  <2> QED BY <1>4, <2>1 DEF Holds
<1>6. ASSUME NEW y \in T, y # x PROVE nx[y] \in T \cup {Nil}
  <2>1. D[y] \in T /\ y \in Listed(nx, ch[D[y]])
    BY <1>1, <1>6, SubtreeListed
  <2>2. PICK f : f = ch[D[y]]
    OBVIOUS
  <2>3. ~Endless(nx, f) /\ y \in Listed(nx, f)
    BY <1>4, <2>1, <2>2, ShapeEnds
  <2>4. nx[y] # Nil => nx[y] \in Listed(nx, f)
    BY <2>3, ListedNext
  <2> QED BY <1>4, <2>1, <2>2, <2>4 DEF Holds
<1>7. ASSUME NEW y \in S0 PROVE ch[y] \in S \cup {Nil} /\ nx[y] \in S \cup {Nil}
  <2>1. h[y] \in S0 \cup {Nil} /\ n[y] \in S0 \cup {Nil} /\ y # x /\ y \in Nodes
    BY <1>1, <1>2 DEF Kept
  <2>2. ch[y] \in {h[y], x} /\ nx[y] \in {n[y], x}
    BY <1>3, <2>1 DEF Anchor
  <2> QED BY <1>4, <2>1, <2>2
<1>8. nx[x] \in S \cup {Nil}
  BY <1>2, <1>3 DEF Kept, Anchor
<1>9. Kept(S, ch) /\ Kept(S, nx) /\ Home \in S
  BY <1>2, <1>5, <1>6, <1>7, <1>8 DEF Kept
<1> HIDE DEF S
<1>10. Subtree(ch, nx, Home) \subseteq S
  BY <1>9, HomeLeast
<1> QED BY <1>2, <1>10 DEF S

\* Linked again below home, x brings all below it along.
LEMMA CutPutReach ==
    ASSUME MaxNodes \in Nat, NEW L, NEW D, NEW ch, NEW nx, Shape(L, D, ch, nx), L \subseteq Subtree(ch, nx, Home),
           NEW d \in Nodes, NEW x \in L, NEW h, NEW n, Cut(ch, nx, d, x, h, n),
           NEW e \in Subtree(h, n, Home), NEW E, NEW g, NEW m, Shape(L, E, g, m), Put(h, n, e, x, g, m)
    PROVE  L \subseteq Subtree(g, m, Home)
<1> DEFINE S0 == Subtree(h, n, Home)
           S == Subtree(g, m, Home)
<1>0. Shape(L, D, h, n)
  BY CutShape
<1>1. Shape(L, D, h, n) /\ x \in Nodes /\ L \cup {Home} \subseteq Nodes
  BY <1>0 DEF Shape
<1>2. S0 \subseteq S /\ x \in S
  BY <1>1, PutReach
<1>3. Home \in S /\ S \subseteq L \cup {Home} /\ Kept(S, g) /\ Kept(S, m)
  BY HomeHolds
<1>4. PICK a \in S0 : Anchor(ch, nx, x, h, n, a)
  BY CutAnchor
<1>5. \A y \in Nodes : (h[y] # Nil => g[y] = h[y]) /\ (n[y] # Nil => m[y] = n[y])
  BY <1>1 DEF Put, Shape
<1>6. \A y \in S : h[y] \in S \cup {Nil} /\ n[y] \in S \cup {Nil}
  BY <1>1, <1>3, <1>5 DEF Kept
<1>7. Kept(S, ch) /\ Kept(S, nx)
  <2>1. ASSUME NEW y \in S PROVE ch[y] \in S \cup {Nil} /\ nx[y] \in S \cup {Nil}
    <3>1. CASE y = x
      BY <1>2, <1>4, <1>6, <3>1 DEF Anchor
    <3>2. CASE y # x
      <4>1. ch[y] \in {h[y], x} /\ nx[y] \in {n[y], x}
        BY <1>1, <1>3, <1>4, <3>2 DEF Anchor
      <4> QED BY <1>2, <1>6, <4>1
    <3> QED BY <3>1, <3>2
  <2> QED BY <2>1 DEF Kept
<1>8. Subtree(ch, nx, Home) \subseteq S
  BY <1>3, <1>7, HomeLeast
<1> QED BY <1>8

-----------------------------------------------------------------------------
(* Where the handlers find the node they unlink.                           *)

\* The first position of x on a list that does not begin with x: the node
\* before it is another one.
LEMMA FirstHit ==
    ASSUME MaxNodes \in Nat, NEW nx, NEW f, NEW x, x # Nil, x # f, x \in Listed(nx, f),
           NEW S, S = {k \in 0..MaxNodes : At(nx, f)[k] = x}
    PROVE  /\ S # {} /\ At(nx, f)[Min(S)] = x
           /\ At(nx, f)[Min(S) - 1] \in Listed(nx, f) /\ At(nx, f)[Min(S) - 1] # x
           /\ nx[At(nx, f)[Min(S) - 1]] = x
<1>1. S # {} /\ S \subseteq Nat
  BY ListedAt
<1>2. Min(S) \in S /\ \A k \in S : Min(S) <= k
  BY <1>1, MinOf
<1>3. PICK k : k = Min(S)
  OBVIOUS
<1>4. k \in 0..MaxNodes /\ At(nx, f)[k] = x /\ \A j \in S : k <= j
  BY <1>2, <1>3
<1>5. k # 0
  BY <1>4, AtSteps
<1>6. PICK p : p = At(nx, f)[k - 1]
  OBVIOUS
<1>7. k - 1 \in 0..MaxNodes /\ (k - 1) + 1 = k
  BY <1>4, <1>5
<1>8. x = Behind(nx, p)
  BY <1>4, <1>6, <1>7, AtSteps
<1>9. p # Nil /\ nx[p] = x
  BY <1>8 DEF Behind
<1>10. p # x
  <2>1. p = x => k - 1 \in S
    BY <1>6, <1>7
  <2> QED BY <1>4, <1>7, <2>1
<1>11. p \in Listed(nx, f)
  BY <1>6, <1>7, <1>9, ListedAt
<1> QED BY <1>1, <1>3, <1>4, <1>6, <1>9, <1>10, <1>11

\* No two nodes of a directory have one name.
Distinct(L, D, nm) == \A y, z \in L : D[y] = D[z] /\ nm[y] = nm[z] => y = z

LEMMA OnlyHit ==
    ASSUME MaxNodes \in Nat, NEW L, NEW D, NEW ch, NEW nx, Shape(L, D, ch, nx), Distinct(L, D, name),
           NEW d \in Nodes, NEW x \in Listed(nx, ch[d])
    PROVE  /\ \A y \in Listed(nx, ch[d]) : name[y] = name[x] => y = x
           /\ Hits(nx, ch[d], name[x]) = {k \in 0..MaxNodes : At(nx, ch[d])[k] = x}
           /\ x # Nil /\ ch[d] # Nil /\ (name[ch[d]] = name[x] <=> ch[d] = x)
<1>1. \A y \in Listed(nx, ch[d]) : y \in L /\ D[y] = d
  BY ShapeLists
<1>2. \A y \in Listed(nx, ch[d]) : name[y] = name[x] => y = x
  BY <1>1 DEF Distinct
<1>3. x # Nil /\ ch[d] # Nil
  BY ListedAt, ListedNil
<1>4. ch[d] \in Listed(nx, ch[d])
  BY <1>3, ListedFirst
<1>5. Hits(nx, ch[d], name[x]) = {k \in 0..MaxNodes : At(nx, ch[d])[k] = x}
  <2>1. ASSUME NEW k \in 0..MaxNodes, At(nx, ch[d])[k] # Nil PROVE At(nx, ch[d])[k] \in Listed(nx, ch[d])
    BY <2>1, ListedAt
  <2> QED BY <1>2, <1>3, <2>1 DEF Hits
<1> QED BY <1>2, <1>3, <1>4, <1>5

LEMMA CutFirst ==
    ASSUME NEW ch, NEW nx, NEW d, NEW x, ch[d] = x
    PROVE  Cut(ch, nx, d, x, [ch EXCEPT ![d] = nx[x]], [nx EXCEPT ![x] = Nil])
BY DEF Cut

\* The positions of x, and the pointers that lead from p around x.
Places(nx, f, x, S) == S = {k \in 0..MaxNodes : At(nx, f)[k] = x}
Around(nx, p, x)    == [nx EXCEPT ![p] = nx[x], ![x] = Nil]

LEMMA CutLater ==
    ASSUME MaxNodes \in Nat, NEW L, NEW D, NEW ch, NEW nx, Shape(L, D, ch, nx), NEW d \in Nodes,
           NEW x \in Listed(nx, ch[d]), ch[d] # x, NEW S, Places(nx, ch[d], x, S)
    PROVE  /\ S # {} /\ At(nx, ch[d])[Min(S)] = x
           /\ Cut(ch, nx, d, x, ch, Around(nx, At(nx, ch[d])[Min(S) - 1], x))
<1>1. PICK f : f = ch[d]
  OBVIOUS
<1>2. x # Nil
  BY ListedAt
<1>3. /\ S # {} /\ At(nx, f)[Min(S)] = x
      /\ At(nx, f)[Min(S) - 1] \in Listed(nx, f) /\ At(nx, f)[Min(S) - 1] # x
      /\ nx[At(nx, f)[Min(S) - 1]] = x
  <2>1. x \in Listed(nx, f) /\ x # f /\ S = {k \in 0..MaxNodes : At(nx, f)[k] = x}
    BY <1>1 DEF Places
  <2> QED BY <1>2, <2>1, FirstHit
<1>4. PICK p : p = At(nx, f)[Min(S) - 1]
  OBVIOUS
<1>5. p \in L
  BY <1>1, <1>3, <1>4, ShapeLists
<1>6. p \in Nodes
  BY <1>5 DEF Shape
<1>7. PICK n : n = Around(nx, p, x)
  OBVIOUS
<1>8. Cut(ch, nx, d, x, ch, n)
  BY <1>3, <1>4, <1>6, <1>7 DEF Cut, Around
<1> QED BY <1>1, <1>3, <1>4, <1>7, <1>8

-----------------------------------------------------------------------------
(* The tree of a careful user: D gives each node its directory.            *)

Careful == Habits \subseteq Avoids

\* The nodes that were created and not removed.
Living == {x \in 1..used : x \notin removed}
Rooted == Living \cup {Home}

Placed(D) ==
    /\ up = "runs" /\ ~awaits /\ cur # Nil /\ type[Home] = "directory"
    /\ D \in [Nodes -> Nodes] /\ Shape(Living, D, child, next)
    /\ Living \subseteq Subtree(child, next, Home)
    /\ Distinct(Living, D, name)
    /\ \A y \in Living : name[y] \in Names
    /\ \A y \in Living : type[y] = "directory" => parent[y] = D[y]
    /\ \A y \in removed : y \in 1..used /\ type[y] = "file"

Tree == AnyInv /\ \E D : Placed(D)

LEMMA PlacedFacts ==
    ASSUME TreeConstants, AnyInv, NEW D, Placed(D)
    PROVE  /\ MaxNodes \in Nat /\ used \in 0..MaxNodes /\ Living \subseteq Nodes \ {Home} /\ Rooted \subseteq Nodes
           /\ cur \in Rooted /\ type[cur] = "directory" /\ Kept(Rooted, parent) /\ Home \in Nodes
           /\ type \in [Nodes -> {"file", "directory"}] /\ name \in [Nodes -> Names \cup {"home"}]
           /\ Rooted \subseteq Subtree(child, next, Home)
           /\ \A y \in Nodes : type[y] = "file" => child[y] = Nil
<1>1. MaxNodes \in Nat /\ used \in 0..MaxNodes /\ used \in Nat
  BY AnyFacts DEF AnyInv, TypeOK
<1>2. Home \in Nodes /\ Living \subseteq Nodes \ {Home} /\ Rooted \subseteq Nodes
  <2>1. Home \in Nodes
    BY <1>1 DEF Nodes, Home
  <2>2. \A y \in 1..used : y \in Nodes /\ y # Home
    BY <1>1 DEF Nodes, Home
  <2>3. Living \subseteq 1..used
    BY DEF Living
  <2> QED BY <2>1, <2>2, <2>3 DEF Rooted
<1>3. ASSUME NEW y \in InUse, type[y] = "directory" PROVE y \in Rooted
  BY <1>1, <1>3 DEF Placed, InUse, Rooted, Living, Home
<1>4. cur \in Rooted /\ type[cur] = "directory"
  BY <1>3 DEF AnyInv, Folders, Placed
<1>5. Kept(Rooted, parent)
  BY <1>2, <1>3 DEF AnyInv, Folders, Kept
<1>6. Rooted \subseteq Subtree(child, next, Home)
  BY <1>1, HomeHolds DEF Placed, Rooted
<1>7. \A y \in Nodes : type[y] = "file" => child[y] = Nil
  BY DEF AnyInv, Forms
<1>8. type \in [Nodes -> {"file", "directory"}] /\ name \in [Nodes -> Names \cup {"home"}]
  BY DEF AnyInv, TypeOK
<1> QED BY <1>1, <1>2, <1>4, <1>5, <1>6, <1>7, <1>8

\* In lists of that shape no path runs in a circle.
LEMMA PathPlaced ==
    ASSUME TreeConstants, AnyInv, NEW D, Placed(D), NEW ch, NEW nx, Shape(Living, D, ch, nx), NEW path \in Paths,
           NEW dirsOnly \in BOOLEAN
    PROVE  /\ LeadsTo(Rooted, ch, nx, path, dirsOnly, Len(path), Resolve(ch, nx, path, dirsOnly))
           /\ Resolve(ch, nx, path, dirsOnly).how # "hang"
<1>1. Within(Rooted, ch, nx)
  <2>1. Kept(Rooted, ch) /\ Kept(Rooted, nx)
    BY PlacedFacts DEF Shape, Kept, Rooted
  <2> QED BY <2>1, PlacedFacts DEF Within
<1>2. /\ cur # Nil => type[cur] = "directory"
      /\ \A y \in Rooted : parent[y] # Nil => type[parent[y]] = "directory"
  BY PlacedFacts DEF AnyInv, Folders
<1>3. LeadsTo(Rooted, ch, nx, path, dirsOnly, Len(path), Resolve(ch, nx, path, dirsOnly))
  BY <1>1, <1>2, PlacedFacts, PathLeads
<1>4. \A y \in Rooted : ~Endless(nx, ch[y])
  BY PlacedFacts, ShapeEnds
<1> QED BY <1>3, <1>4 DEF LeadsTo

\* What a name leads to.
LEMMA FoundPlaced ==
    ASSUME TreeConstants, AnyInv, NEW D, Placed(D), NEW d \in Rooted, NEW m
    PROVE  \/ /\ Find(next, child[d], m) \in Living /\ Find(next, child[d], m) \in Listed(next, child[d])
              /\ name[Find(next, child[d], m)] = m /\ Find(next, child[d], m) # Nil /\ Find(next, child[d], m) # Stuck
           \/ Find(next, child[d], m) = Nil /\ \A y \in Listed(next, child[d]) : name[y] # m
<1>1. PICK x : x = child[d]
  OBVIOUS
<1>2. Shape(Living, D, child, next) /\ d \in Nodes /\ MaxNodes \in Nat
  BY PlacedFacts DEF Placed
<1>3. Kept(Living, next) /\ x \in Living \cup {Nil} /\ Living \subseteq Nodes
  BY <1>1, <1>2 DEF Shape, Kept
<1>4. ~Endless(next, x)
  BY <1>1, <1>2, ShapeEnds
<1>5. Finds(Living, next, x, m)
  BY <1>2, <1>3, FoundWithin
<1> QED BY <1>1, <1>4, <1>5 DEF Finds

\* Every node is on the list of its directory.
LEMMA LivingListed ==
    ASSUME TreeConstants, AnyInv, NEW D, Placed(D), NEW y \in Living
    PROVE  y \in Listed(next, child[D[y]])
<1>1. Shape(Living, D, child, next) /\ y # Home /\ y \in Subtree(child, next, Home) /\ MaxNodes \in Nat /\ Home \in Nodes
  BY PlacedFacts DEF Placed
<1> QED BY <1>1, SubtreeListed

\* A handler that changes no node.
LEMMA RestPlaced ==
    ASSUME TreeConstants, AnyInv, NEW D, Placed(D), UNCHANGED <<used, fields, removed>>, cur' # Nil,
           up' = "runs", ~awaits'
    PROVE  Placed(D)'
<1>1. UNCHANGED <<Living, used, name, type, child, next, parent, removed>>
  BY DEF fields, Living
<1> QED BY <1>1 DEF Placed

LEMMA DistinctKept ==
    ASSUME NEW L, NEW D, D \in [Nodes -> Nodes], L \subseteq Nodes, NEW nm, nm \in [Nodes -> Names \cup {"home"}],
           Distinct(L, D, nm), NEW x \in Nodes, NEW d, NEW new,
           \A y \in L \ {x} : D[y] = d => nm[y] # new,
           NEW E, E = [D EXCEPT ![x] = d], NEW names, names = [nm EXCEPT ![x] = new]
    PROVE  Distinct(L \cup {x}, E, names)
<1>1. E[x] = d /\ names[x] = new /\ \A y \in L \ {x} : E[y] = D[y] /\ names[y] = nm[y]
  OBVIOUS
<1> QED BY <1>1 DEF Distinct

\* What a step does to the nodes: nothing, or it creates one called m in d,
\* removes x, or makes x the node called m in d.  E gives the nodes their
\* directories afterwards.
Rests(D, E) == E = D /\ UNCHANGED <<used, name, type, removed>> /\ (cur' = cur \/ type[cur'] = "directory")

Creates(D, E, d, m, kind) ==
    /\ d \in Rooted /\ type[d] = "directory" /\ m \in Names /\ kind \in {"file", "directory"}
    /\ \A y \in Living : D[y] = d => name[y] # m
    /\ Gives(D, New, d, E) /\ used < MaxNodes /\ used' = New
    /\ name' = [name EXCEPT ![New] = m] /\ type' = [type EXCEPT ![New] = kind] /\ UNCHANGED <<cur, removed>>

Removes(D, E, x) ==
    /\ x \in Living /\ D[x] = cur /\ type[x] = "file" /\ E = D
    /\ removed' = removed \cup {x} /\ UNCHANGED <<used, name, type, cur>>

Moves(D, E, x, d, m) ==
    /\ x \in Living /\ d \in Rooted /\ type[d] = "directory" /\ m \in Names
    /\ d \notin Subtree(child, next, x)
    /\ \A y \in Living \ {x} : D[y] = d => name[y] # m
    /\ Gives(D, x, d, E) /\ name' = [name EXCEPT ![x] = m] /\ UNCHANGED <<used, type, cur, removed>>

Does(D, E) ==
    \/ Rests(D, E)
    \/ \E m, kind : Creates(D, E, cur, m, kind)
    \/ \E d, m : Creates(D, E, d, m, "file") /\ \E x \in Living : type[x] = "file"
    \/ \E x : Removes(D, E, x)
    \/ \E x, d, m : Moves(D, E, x, d, m)

\* A new node at the end of a list in which nothing has its name.
LEMMA CreatePlaced ==
    ASSUME TreeConstants, AnyInv, NEW D, Placed(D), used < MaxNodes, NEW d \in Rooted, type[d] = "directory",
           NEW kind \in {"file", "directory"}, NEW m \in Names, \A y \in Listed(next, child[d]) : name[y] # m,
           used' = New, name' = [name EXCEPT ![New] = m], type' = [type EXCEPT ![New] = kind],
           child' = Linked(child, next, d, New).ch, next' = Linked(child, next, d, New).nx,
           \A y \in Living : type[y] = "directory" => parent'[y] = parent[y],
           kind = "directory" => parent'[New] = d,
           up' = (IF Linked(child, next, d, New).ok THEN up ELSE "hangs"),
           ~awaits', UNCHANGED <<cur, removed>>
    PROVE  \E E : Placed(E)' /\ Creates(D, E, d, m, kind)
<1>1. /\ New \in Nodes \ {Home} /\ New \notin Living /\ New \notin Rooted /\ New \notin 1..used
      /\ 1..(used + 1) = 1..used \cup {New}
  <2>1. MaxNodes \in Nat /\ used \in 0..MaxNodes
    BY PlacedFacts
  <2>2. New \in Nodes \ {Home} /\ New \notin 1..used /\ 1..(used + 1) = 1..used \cup {New}
    BY <2>1 DEF New, Nodes, Home
  <2> QED BY <2>2 DEF Living, Rooted
<1>2. /\ Shape(Living, D, child, next) /\ D \in [Nodes -> Nodes] /\ Distinct(Living, D, name) /\ up = "runs"
      /\ d \in Nodes /\ MaxNodes \in Nat
  BY PlacedFacts DEF Placed
<1>3. Living' = Living \cup {New} /\ \A y \in removed' : y \in 1..used' /\ type'[y] = "file"
  <2>1. \A y \in removed : y \in 1..used /\ type[y] = "file"
    BY DEF Placed
  <2>2. used' = used + 1 /\ New \notin removed /\ 1..used \subseteq Nodes
    BY <1>1, <2>1, PlacedFacts DEF New, Nodes
  <2>3. Living' = {y \in 1..(used + 1) : y \notin removed}
    BY <2>2 DEF Living
  <2>4. \A y \in Nodes : y # New => type'[y] = type[y]
    BY PlacedFacts
  <2> QED BY <1>1, <2>1, <2>2, <2>3, <2>4 DEF Living
<1>4. PICK x, L, h, n : x = New /\ L = Living \cup {New} /\ h = child' /\ n = next'
  OBVIOUS
<1>5. PICK E : E = [D EXCEPT ![x] = d]
  OBVIOUS
<1>6. Shape(L, D, child, next) /\ Loose(x, child, next) /\ next[x] = Nil
  <2>1. x \in Nodes \ {Home} /\ x \notin Living /\ x # Nil
    BY <1>1, <1>4, NodeIsOne
  <2> QED BY <1>2, <1>4, <2>1 DEF Shape, Loose
<1>7. d \in L \cup {Home} /\ x \in L /\ x \in Nodes
  BY <1>1, <1>4 DEF Rooted
<1>8. Linked(child, next, d, x).ok /\ Put(child, next, d, x, h, n)
  BY <1>2, <1>4, <1>6, LinkedPuts
<1>9. Shape(L, E, h, n) /\ E \in [Nodes -> Nodes]
  <2>1. Gives(D, x, d, E)
    BY <1>5 DEF Gives
  <2> HIDE <1>5
  <2> QED BY <1>2, <1>6, <1>7, <1>8, <2>1, PutShape
<1>10. L \subseteq Subtree(h, n, Home)
  <2>1. d \in Subtree(child, next, Home) /\ Living \subseteq Subtree(child, next, Home)
    BY PlacedFacts DEF Rooted
  <2>2. Subtree(child, next, Home) \subseteq Subtree(h, n, Home) /\ x \in Subtree(h, n, Home)
    BY <1>2, <1>6, <1>7, <1>8, <1>9, <2>1, PutReach
  <2> QED BY <1>4, <2>1, <2>2
<1>11. Distinct(L, E, name') /\ \A y \in Living : D[y] = d => name[y] # m
  <2>1. PICK names : names = [name EXCEPT ![x] = m]
    OBVIOUS
  <2>2. \A y \in Living : D[y] = d => name[y] # m
    BY LivingListed
  <2>3. Distinct(Living \cup {x}, E, names)
    <3>1. \A y \in Living \ {x} : D[y] = d => name[y] # m
      BY <2>2
    <3> QED BY <1>2, <1>5, <1>7, <2>1, <3>1, PlacedFacts, DistinctKept
  <2> QED BY <1>4, <2>1, <2>2, <2>3
<1>12. \A y \in L : type'[y] = "directory" => parent'[y] = E[y]
  <2>1. \A y \in Living : y \in Nodes /\ y # x
    BY <1>1, <1>4, PlacedFacts
  <2>2. \A y \in Living : type'[y] = type[y] /\ E[y] = D[y]
    BY <1>2, <1>4, <1>5, <2>1, PlacedFacts
  <2>3. type'[x] = kind /\ E[x] = d
    BY <1>2, <1>4, <1>5, <1>7, PlacedFacts
  <2> QED BY <1>4, <2>2, <2>3 DEF Placed
<1>13. up' = "runs" /\ cur' # Nil
  BY <1>2, <1>4, <1>8 DEF Placed
<1>14. \A y \in L : name'[y] \in Names
  <2>1. \A y \in Living : y \in Nodes /\ name[y] \in Names
    BY PlacedFacts DEF Placed
  <2> QED BY <1>4, <1>7, <2>1, PlacedFacts
<1>15. Placed(E)'
  <2>1. type'[Home] = "directory"
    BY <1>1, PlacedFacts DEF Placed
  <2> QED BY <1>3, <1>4, <1>9, <1>10, <1>11, <1>12, <1>13, <1>14, <2>1 DEF Placed
<1>16. Gives(D, New, d, E)
  BY <1>4, <1>5 DEF Gives
<1>17. Creates(D, E, d, m, kind)
  BY <1>11, <1>16 DEF Creates
<1> QED BY <1>15, <1>17

LEMMA MakePlaced ==
    ASSUME TreeConstants, Careful, AnyInv, NEW D, Placed(D), NEW m \in Names, MakeDirectory(m) \/ ToBigFS(m)
    PROVE  \E E : Placed(E)' /\ Does(D, E)
<1>1. cur \in Rooted /\ type[cur] = "directory" /\ cur # Nil /\ used < MaxNodes /\ UNCHANGED <<cur, awaits>> /\ ~awaits' /\ up = "runs"
  <2>1. cur \in Rooted /\ type[cur] = "directory"
    BY PlacedFacts
  <2>2. used < MaxNodes /\ UNCHANGED <<cur, awaits>>
    BY DEF MakeDirectory, ToBigFS
  <2>3. cur # Nil /\ ~awaits /\ up = "runs"
    BY DEF Placed
  <2> QED BY <2>1, <2>2, <2>3
<1>2. \/ Find(next, child[cur], m) \notin {Nil, Stuck}
      \/ Find(next, child[cur], m) = Nil /\ \A y \in Listed(next, child[cur]) : name[y] # m
  BY <1>1, FoundPlaced
<1>3. ASSUME NEW kind \in {"file", "directory"}, Allocate(m, kind), \A y \in Listed(next, child[cur]) : name[y] # m
      PROVE  \E E : Placed(E)' /\ Does(D, E)
  <2>1. PICK d : d = cur
    OBVIOUS
  <2>2. /\ used' = New /\ name' = [name EXCEPT ![New] = m] /\ type' = [type EXCEPT ![New] = kind]
        /\ child' = Linked(child, next, d, New).ch /\ next' = Linked(child, next, d, New).nx
        /\ up' = (IF Linked(child, next, d, New).ok THEN up ELSE "hangs") /\ UNCHANGED removed
    BY <1>3, <2>1 DEF Allocate
  <2>3. parent' = [parent EXCEPT ![New] = d] /\ parent \in [Nodes -> Nodes \cup {Nil}]
    BY <1>3, <2>1 DEF Allocate, AnyInv, TypeOK
  <2>4. New \in Nodes /\ New \notin Living
    BY <1>1, PlacedFacts DEF New, Nodes, Living
  <2>5. parent'[New] = d /\ \A y \in Living : parent'[y] = parent[y]
    BY <2>3, <2>4, PlacedFacts
  <2>6. d \in Rooted /\ type[d] = "directory" /\ \A y \in Listed(next, child[d]) : name[y] # m
    BY <1>1, <1>3, <2>1
  <2>7. PICK E : Placed(E)' /\ Creates(D, E, d, m, kind)
    BY <1>1, <2>2, <2>5, <2>6, CreatePlaced
  <2> QED BY <2>1, <2>7 DEF Does
<1>4. CASE MakeDirectory(m)
  <2>1. Find(next, child[cur], m) = Nil
    BY <1>4 DEF MakeDirectory, Careful, Habits
  <2>2. Allocate(m, "directory")
    BY <1>1, <1>4 DEF MakeDirectory, Here
  <2> QED BY <1>2, <1>3, <2>1, <2>2
<1>5. CASE ToBigFS(m)
  <2>1. CASE Find(next, child[cur], m) = Nil
    <3>1. Allocate(m, "file")
      BY <1>1, <1>5, <2>1 DEF ToBigFS, Here
    <3> QED BY <1>2, <1>3, <2>1, <3>1
  <2>2. CASE Find(next, child[cur], m) \notin {Nil, Stuck}
    <3>1. UNCHANGED <<used, fields, removed>> /\ up' = "runs"
      BY <1>1, <1>5, <2>2 DEF ToBigFS, Here
    <3>2. Placed(D)'
      BY <1>1, <3>1, RestPlaced
    <3>3. Does(D, D)
      BY <1>1, <3>1 DEF Does, Rests, fields
    <3> QED BY <3>2, <3>3
  <2> QED BY <1>2, <2>1, <2>2
<1> QED BY <1>4, <1>5

LEMMA ChangePlaced ==
    ASSUME TreeConstants, Careful, AnyInv, NEW D, Placed(D), NEW path \in Paths, ChangeDirectory(path)
    PROVE  Placed(D)' /\ Rests(D, D)
<1> DEFINE r == Resolve(child, next, path, TRUE)
<1>1. r.how # "hang" /\ r.how # "crash" /\ r.node # Nil /\ type[r.node] = "directory"
  <2>1. Shape(Living, D, child, next)
    BY DEF Placed
  <2>2. r.how # "hang" /\ (r.node # Nil => type[r.node] = "directory")
    BY <2>1, PathPlaced DEF LeadsTo
  <2> QED BY <2>2 DEF ChangeDirectory, Careful, Habits
<1> HIDE DEF r
<1>2. /\ UNCHANGED <<used, fields, removed>> /\ up' = up /\ awaits' = awaits
      /\ cur' = r.node \/ cur' = cur
  BY <1>1 DEF ChangeDirectory, r
<1>3. Placed(D)'
  BY <1>1, <1>2, RestPlaced DEF Placed
<1>4. Rests(D, D)
  BY <1>1, <1>2 DEF Rests, fields
<1> QED BY <1>3, <1>4

-----------------------------------------------------------------------------
(* rm and mv of a careful user.                                            *)

LEMMA LeafAlone ==
    ASSUME MaxNodes \in Nat, NEW ch, NEW nx, Kept(Nodes, ch), Kept(Nodes, nx), NEW x \in Nodes, ch[x] = Nil
    PROVE  Subtree(ch, nx, x) = {x}
<1>1. x \in Subtree(ch, nx, x)
  BY SubtreeHolds
<1>2. PICK S : S = {x}
  OBVIOUS
<1>3. Listed(nx, Nil) = {}
  BY ListedNil
<1>4. x \in S /\ Holds(ch, nx, S)
  BY <1>2, <1>3 DEF Holds
<1>5. Subtree(ch, nx, x) \subseteq S
  BY <1>4, SubtreeLeast
<1> QED BY <1>1, <1>2, <1>5

\* A cut node without children is off the lists.
LEMMA CutLeaf ==
    ASSUME MaxNodes \in Nat, NEW L, NEW D, NEW ch, NEW nx, Shape(L, D, ch, nx), L \subseteq Subtree(ch, nx, Home),
           NEW d \in Nodes, NEW x \in L, ch[x] = Nil, NEW h, NEW n, Cut(ch, nx, d, x, h, n)
    PROVE  Shape(L \ {x}, D, h, n) /\ L \ {x} \subseteq Subtree(h, n, Home)
<1>1. Shape(L, D, h, n) /\ Loose(x, h, n) /\ n[x] = Nil
  BY CutShape
<1>2. PICK a : Anchor(ch, nx, x, h, n, a)
  BY CutAnchor
<1>3. h[x] = Nil
  BY <1>2 DEF Anchor
<1>4. Shape(L \ {x}, D, h, n)
  BY <1>1, <1>3 DEF Shape, Loose
<1>5. x \in Nodes
  BY DEF Shape
<1>6. Subtree(ch, nx, x) = {x}
  BY <1>5, ShapeKept, LeafAlone
<1>7. L \cup {Home} \subseteq Subtree(h, n, Home) \cup Subtree(ch, nx, x)
  BY CutReach
<1> QED BY <1>4, <1>6, <1>7

LEMMA RemovePlaced ==
    ASSUME TreeConstants, Careful, AnyInv, NEW D, Placed(D), NEW m \in Names, RemoveFile(m)
    PROVE  Placed(D)' /\ Does(D, D)
<1>1. /\ UNCHANGED <<cur, awaits>> /\ cur # Nil /\ ~awaits /\ up = "runs"
      /\ Shape(Living, D, child, next) /\ Distinct(Living, D, name)
  BY DEF RemoveFile, Placed
<1>2. cur \in Rooted /\ cur \in Nodes /\ MaxNodes \in Nat /\ Kept(Nodes, child) /\ Kept(Nodes, next)
  BY <1>1, PlacedFacts, ShapeKept
<1>3. PICK x : x = Find(next, child[cur], m)
  OBVIOUS
<1>4. /\ x \in Living /\ x \in Listed(next, child[cur]) /\ name[x] = m /\ type[x] = "file"
      /\ x \in Nodes /\ child[x] = Nil
  <2>1. x # Nil /\ type[x] = "file"
    BY <1>3 DEF RemoveFile, Careful, Habits
  <2>2. x \in Living /\ x \in Listed(next, child[cur]) /\ name[x] = m
    BY <1>2, <1>3, <2>1, FoundPlaced
  <2> QED BY <2>1, <2>2, PlacedFacts
<1>5. /\ \A y \in Listed(next, child[cur]) : name[y] = m => y = x
      /\ Hits(next, child[cur], m) = {k \in 0..MaxNodes : At(next, child[cur])[k] = x}
      /\ x # Nil /\ child[cur] # Nil /\ (name[child[cur]] = m <=> child[cur] = x)
  BY <1>1, <1>2, <1>4, OnlyHit
<1>6. /\ Cut(child, next, cur, x, child', next') /\ removed' = removed \cup {x}
      /\ UNCHANGED <<used, name, type, parent, up>>
  <2>1. CASE UnlinkFirst(m)
    <3>1. /\ child[cur] = x /\ child' = [child EXCEPT ![cur] = next[x]] /\ next' = [next EXCEPT ![x] = Nil]
          /\ removed' = removed \cup Subtree(child, next, x) /\ UNCHANGED <<used, name, type, parent, up>>
      BY <1>5, <2>1 DEF UnlinkFirst, FirstIs
    <3>2. Cut(child, next, cur, x, child', next')
      BY <3>1, CutFirst
    <3>3. Subtree(child, next, x) = {x}
      BY <1>2, <1>4, LeafAlone
    <3> QED BY <3>1, <3>2, <3>3
  <2>2. CASE UnlinkLater(m)
    <3> DEFINE a == At(next, child[cur])
               hits == {k \in Hits(next, child[cur], m) : type[a[k]] = "file"}
    <3>1. child[cur] # x /\ UNCHANGED <<used, name, type, child, parent>>
      BY <1>5, <2>2 DEF UnlinkLater, FirstIs
    <3>2. PICK S : Places(next, child[cur], x, S)
      BY DEF Places
    <3>3. hits = S
      BY <1>4, <1>5, <3>2 DEF Places
    <3>4. /\ S # {} /\ a[Min(S)] = x
          /\ Cut(child, next, cur, x, child, Around(next, a[Min(S) - 1], x))
      BY <1>1, <1>2, <1>4, <3>1, <3>2, CutLater
    <3>5. /\ next' = [next EXCEPT ![a[Min(hits) - 1]] = next[a[Min(hits)]], ![a[Min(hits)]] = Nil]
          /\ removed' = removed \cup {a[Min(hits)]} /\ up' = up
      BY <2>2, <3>3, <3>4 DEF UnlinkLater
    <3> HIDE DEF hits, a
    <3>6. next' = Around(next, a[Min(S) - 1], x) /\ removed' = removed \cup {x}
      BY <3>3, <3>4, <3>5 DEF Around
    <3> QED BY <3>1, <3>4, <3>5, <3>6
  <2> QED BY <1>1, <2>1, <2>2 DEF RemoveFile, Here
<1>7. PICK L, h, n : L = Living /\ h = child' /\ n = next'
  OBVIOUS
<1>8. Shape(L \ {x}, D, h, n) /\ L \ {x} \subseteq Subtree(h, n, Home)
  <2>1. L \subseteq Subtree(child, next, Home)
    BY <1>7 DEF Placed
  <2> QED BY <1>1, <1>2, <1>4, <1>6, <1>7, <2>1, CutLeaf
<1>9. Living' = L \ {x} /\ \A y \in removed' : y \in 1..used' /\ type'[y] = "file"
  BY <1>4, <1>6, <1>7 DEF Living, Placed
<1>10. /\ Distinct(L \ {x}, D, name') /\ \A y \in L \ {x} : name'[y] \in Names
       /\ \A y \in L \ {x} : type'[y] = "directory" => parent'[y] = D[y]
  BY <1>1, <1>6, <1>7 DEF Distinct, Placed
<1>11. up' = "runs" /\ ~awaits' /\ cur' # Nil /\ D \in [Nodes -> Nodes] /\ type'[Home] = "directory"
  BY <1>1, <1>6 DEF Placed
<1>12. Placed(D)'
  BY <1>7, <1>8, <1>9, <1>10, <1>11 DEF Placed
<1>13. D[x] = cur
  BY <1>1, <1>2, <1>4, ShapeLists
<1>14. Removes(D, D, x)
  BY <1>1, <1>4, <1>6, <1>13 DEF Removes
<1>15. Does(D, D)
  BY <1>14 DEF Does
<1> QED BY <1>12, <1>15

\* A new name at the destination of mv and cp is not taken there.
LEMMA NewNameFree ==
    ASSUME TreeConstants, NEW U, NEW ch, NEW nx, NEW dst \in Paths, NEW r,
           LeadsTo(U, ch, nx, dst, FALSE, Len(dst), r), NewName(dst, r)
    PROVE  Last(dst) \in Names /\ \A y \in Listed(nx, ch[r.node]) : name[y] # Last(dst)
<1>1. dst \in Seq(Names \cup {".", ".."}) /\ Len(dst) \in Nat
  BY LenProperties DEF TreeConstants
<1>2. r.how = "missing" /\ r.done + 1 = Len(dst)
  BY <1>1 DEF NewName, LeadsTo, Outcome
<1>3. dst[r.done + 1] \in Names /\ \A y \in Listed(nx, ch[r.node]) : name[y] # dst[r.done + 1]
  BY <1>2 DEF LeadsTo
<1> QED BY <1>2, <1>3 DEF Last

\* mv, first half: a node that is listed by its parent is cut out.
LEMMA UnlinkedCuts ==
    ASSUME TreeConstants, AnyInv, NEW D, Placed(D), NEW x, parent[x] \in Nodes, x \in Listed(next, child[parent[x]])
    PROVE  /\ Unlinked(x).ok /\ child[parent[x]] # Nil
           /\ Cut(child, next, parent[x], x, Unlinked(x).ch, Unlinked(x).nx)
<1>1. PICK d : d = parent[x]
  OBVIOUS
<1>2. /\ Shape(Living, D, child, next) /\ Distinct(Living, D, name) /\ MaxNodes \in Nat
      /\ d \in Nodes /\ x \in Listed(next, child[d])
  BY <1>1, PlacedFacts DEF Placed
<1>3. /\ Hits(next, child[d], name[x]) = {k \in 0..MaxNodes : At(next, child[d])[k] = x}
      /\ child[d] # Nil /\ (name[child[d]] = name[x] <=> child[d] = x)
  BY <1>2, OnlyHit
<1>4. CASE child[d] = x
  <2>1. PICK h, n : h = [child EXCEPT ![d] = next[x]] /\ n = [next EXCEPT ![x] = Nil]
    OBVIOUS
  <2>2. Unlinked(x) = [ch |-> h, nx |-> n, ok |-> TRUE]
    BY <1>1, <1>3, <1>4, <2>1 DEF Unlinked
  <2>3. Cut(child, next, d, x, h, n)
    BY <1>4, <2>1, CutFirst
  <2> QED BY <1>1, <1>3, <2>2, <2>3
<1>5. CASE child[d] # x
  <2>1. PICK S : Places(next, child[d], x, S)
    BY DEF Places
  <2>2. S # {} /\ Cut(child, next, d, x, child, Around(next, At(next, child[d])[Min(S) - 1], x))
    BY <1>2, <1>5, <2>1, CutLater
  <2>3. S = Hits(next, child[d], name[x])
    BY <1>3, <2>1 DEF Places
  <2>4. PICK n : n = Around(next, At(next, child[d])[Min(S) - 1], x)
    OBVIOUS
  <2>5. Unlinked(x) = [ch |-> child, ok |-> TRUE, nx |-> n]
    BY <1>1, <1>3, <1>5, <2>2, <2>3, <2>4 DEF Unlinked, Around
  <2> QED BY <1>1, <1>3, <2>2, <2>4, <2>5
<1> QED BY <1>4, <1>5

\* What is in the directory d, which is not below x, is still listed there.
LEMMA CutListed ==
    ASSUME TreeConstants, AnyInv, NEW D, Placed(D), NEW e \in Nodes, NEW x \in Living, NEW h, NEW n,
           Cut(child, next, e, x, h, n), NEW d \in Rooted, d \notin Subtree(child, next, x)
    PROVE  d \in Subtree(h, n, Home) /\ \A y \in Living \ {x} : D[y] = d => y \in Listed(n, h[d])
<1>1. PICK L : L = Living
  OBVIOUS
<1>2. /\ Shape(L, D, child, next) /\ L \subseteq Subtree(child, next, Home) /\ MaxNodes \in Nat
      /\ L \subseteq Nodes \ {Home} /\ x \in L /\ Home \in Nodes /\ d \in L \cup {Home}
  BY <1>1, PlacedFacts DEF Placed, Rooted
<1>3. L \cup {Home} \subseteq Subtree(h, n, Home) \cup Subtree(child, next, x)
  BY <1>2, CutReach
<1>4. Shape(L, D, h, n)
  BY <1>2, CutShape
<1>5. ASSUME NEW y \in L \ {x}, D[y] = d PROVE y \in Listed(n, h[d])
  <2>1. y \notin Subtree(child, next, x)
    <3>1. SUFFICES ASSUME y \in Subtree(child, next, x) PROVE FALSE
      OBVIOUS
    <3>2. x \in Nodes /\ y # x
      BY <1>2, <1>5
    <3>3. D[y] \in Subtree(child, next, x)
      BY <1>2, <3>1, <3>2, SubtreeListed
    <3> QED BY <1>5, <3>3
  <2>2. y \in Subtree(h, n, Home) /\ y # Home
    BY <1>2, <1>3, <2>1
  <2>3. y \in Listed(n, h[D[y]])
    BY <1>2, <1>4, <2>2, SubtreeListed
  <2> QED BY <1>5, <2>3
<1> QED BY <1>1, <1>2, <1>3, <1>5

\* Nothing else in d has the name new.
Free(D, x, d, new) == \A y \in Living \ {x} : D[y] = d => name[y] # new

Relinks(h, n, d, x, new) ==
    /\ child' = Linked(h, n, d, x).ch /\ next' = Linked(h, n, d, x).nx /\ parent' = [parent EXCEPT ![x] = d]
    /\ name' = (IF Linked(h, n, d, x).ok THEN [name EXCEPT ![x] = new] ELSE name)
    /\ up' = (IF Linked(h, n, d, x).ok THEN up ELSE "hangs")
    /\ UNCHANGED <<type, used, cur, awaits, removed>>

\* mv, second half.
LEMMA RelinkPlaced ==
    ASSUME TreeConstants, AnyInv, NEW D, Placed(D), NEW e \in Nodes, NEW x \in Living, NEW h, NEW n,
           Cut(child, next, e, x, h, n), NEW d \in Rooted, type[d] = "directory", d \notin Subtree(child, next, x), NEW new \in Names,
           Free(D, x, d, new), Relinks(h, n, d, x, new)
    PROVE  \E E : Placed(E)' /\ Moves(D, E, x, d, new)
<1>0. /\ \A y \in Living \ {x} : D[y] = d => name[y] # new
      /\ child' = Linked(h, n, d, x).ch /\ next' = Linked(h, n, d, x).nx /\ parent' = [parent EXCEPT ![x] = d]
      /\ name' = (IF Linked(h, n, d, x).ok THEN [name EXCEPT ![x] = new] ELSE name)
      /\ up' = (IF Linked(h, n, d, x).ok THEN up ELSE "hangs")
      /\ UNCHANGED <<type, used, cur, awaits, removed>>
  BY DEF Free, Relinks
<1>1. PICK L, g, m : L = Living /\ g = child' /\ m = next'
  OBVIOUS
<1>2. /\ Shape(L, D, child, next) /\ L \subseteq Subtree(child, next, Home) /\ MaxNodes \in Nat
      /\ L \subseteq Nodes \ {Home} /\ x \in L /\ x \in Nodes /\ d \in L \cup {Home} /\ D \in [Nodes -> Nodes]
      /\ Distinct(L, D, name) /\ d \in Nodes
  BY <1>1, PlacedFacts DEF Placed, Rooted
<1>3. Shape(L, D, h, n) /\ Loose(x, h, n) /\ n[x] = Nil
  BY <1>2, CutShape
<1>4. d \in Subtree(h, n, Home)
  BY CutListed
<1>5. Linked(h, n, d, x).ok /\ Put(h, n, d, x, g, m)
  BY <1>0, <1>1, <1>2, <1>3, LinkedPuts
<1>6. PICK E : Gives(D, x, d, E)
  BY DEF Gives
<1>7. Shape(L, E, g, m) /\ E \in [Nodes -> Nodes]
  BY <1>2, <1>3, <1>5, <1>6, PutShape
<1>8. L \subseteq Subtree(g, m, Home)
  BY <1>2, <1>4, <1>5, <1>7, CutPutReach
<1>9. Distinct(L, E, name')
  <2>1. PICK names : names = [name EXCEPT ![x] = new]
    OBVIOUS
  <2>2. E = [D EXCEPT ![x] = d]
    BY <1>6 DEF Gives
  <2>3. Distinct(L \cup {x}, E, names)
    <3>1. \A y \in L \ {x} : D[y] = d => name[y] # new
      BY <1>0, <1>1
    <3>2. L \subseteq Nodes /\ name \in [Nodes -> Names \cup {"home"}]
      BY <1>2, PlacedFacts
    <3> QED BY <1>2, <2>1, <2>2, <3>1, <3>2, DistinctKept
  <2>4. L \cup {x} = L /\ name' = names
    BY <1>0, <1>2, <1>5, <2>1
  <2> QED BY <2>3, <2>4
<1>10. \A y \in L : type'[y] = "directory" => parent'[y] = E[y]
  <2>1. parent \in [Nodes -> Nodes \cup {Nil}]
    BY DEF AnyInv, TypeOK
  <2>2. E = [D EXCEPT ![x] = d]
    BY <1>6 DEF Gives
  <2> QED BY <1>0, <1>1, <1>2, <2>1, <2>2 DEF Placed
<1>11. Living' = L /\ UNCHANGED <<type, used, removed>> /\ type'[Home] = "directory"
  BY <1>0, <1>1 DEF Living, Placed
<1>12. up' = "runs" /\ cur' # Nil /\ ~awaits'
  <2>1. cur' = cur /\ awaits' = awaits /\ up' = up
    BY <1>0, <1>5
  <2> QED BY <2>1 DEF Placed
<1>13. \A y \in removed' : y \in 1..used' /\ type'[y] = "file"
  BY <1>11 DEF Placed
<1>14. \A y \in L : name'[y] \in Names
  <2>1. \A y \in L : y \in Nodes /\ name[y] \in Names
    BY <1>1, PlacedFacts DEF Placed
  <2>2. name' = [name EXCEPT ![x] = new] /\ name \in [Nodes -> Names \cup {"home"}]
    BY <1>0, <1>5, PlacedFacts
  <2> QED BY <1>2, <2>1, <2>2
<1>15. Placed(E)'
  BY <1>1, <1>7, <1>8, <1>9, <1>10, <1>11, <1>12, <1>13, <1>14 DEF Placed
<1>16. Moves(D, E, x, d, new)
  <2>1. name' = [name EXCEPT ![x] = new] /\ UNCHANGED <<used, type, cur, removed>>
    BY <1>0, <1>5
  <2> QED BY <1>0, <1>6, <2>1 DEF Moves
<1> QED BY <1>15, <1>16

LEMMA MovePlaced ==
    ASSUME TreeConstants, Careful, AnyInv, NEW D, Placed(D), NEW src \in Paths, NEW dst \in Paths, MoveFile(src, dst)
    PROVE  \E E : Placed(E)' /\ Does(D, E)
<1> DEFINE s == Resolve(child, next, src, FALSE)
<1>1. s.how \notin {"hang", "crash"} /\ s.node \in Living
  <2>1. s.how # "hang" /\ s.node \in Rooted \cup {Nil}
    BY PathPlaced DEF Placed, LeadsTo
  <2>2. s.how # "crash" /\ s.node \notin {Nil, Home}
    BY DEF MoveFile, Careful, Habits
  <2> QED BY <2>1, <2>2 DEF Rooted
<1>2. PICK x : x = s.node
  OBVIOUS
<1>3. x \in Living /\ x # Nil /\ x \in Nodes
  BY <1>1, <1>2, PlacedFacts, NodeIsOne
<1>4. UNCHANGED <<used, cur, awaits, removed>> /\ ~awaits' /\ cur' # Nil /\ up = "runs"
  <2>1. UNCHANGED <<used, cur, awaits, removed>>
    BY DEF MoveFile
  <2>2. ~awaits /\ cur # Nil /\ up = "runs"
    BY DEF Placed
  <2> QED BY <2>1, <2>2
<1>5. CASE s.how # "at"
  <2>1. UNCHANGED <<fields, up>>
    BY <1>1, <1>5 DEF MoveFile
  <2>2. Placed(D)'
    BY <1>4, <2>1, RestPlaced
  <2>3. Does(D, D)
    BY <1>4, <2>1 DEF Does, Rests, fields
  <2> QED BY <2>2, <2>3
<1>6. CASE s.how = "at"
  <2>1. MvCareful(x, dst)
    BY <1>2, <1>3, <1>6 DEF MoveFile
  <2>2. parent[x] \in Nodes /\ x \in Listed(next, child[parent[x]])
    <3>1. Listing(x) = {parent[x]}
      BY <2>1 DEF MvCareful, Careful, Habits
    <3> QED BY <3>1 DEF Listing
  <2>3. PICK e : e = parent[x]
    OBVIOUS
  <2>4. PICK h, n : h = Unlinked(x).ch /\ n = Unlinked(x).nx
    OBVIOUS
  <2>5. /\ Unlinked(x).ok /\ child[parent[x]] # Nil /\ parent[x] # Nil
        /\ e \in Nodes /\ Cut(child, next, e, x, h, n)
    BY <2>2, <2>3, <2>4, UnlinkedCuts, NodeIsOne
  <2> DEFINE r == Resolve(h, n, dst, FALSE)
  <2>6. LeadsTo(Rooted, h, n, dst, FALSE, Len(dst), r)
    <3>1. Shape(Living, D, child, next)
      BY DEF Placed
    <3>2. Shape(Living, D, h, n)
      BY <1>3, <2>5, <3>1, CutShape
    <3> QED BY <3>2, PathPlaced
  <2>7. /\ Accepted(dst, r) /\ r.node \notin Subtree(child, next, x)
        /\ r.how = "at" => \A y \in Listed(next, child[r.node]) : name[y] = name[x] => y = x
    BY <2>1, <2>4, <2>5 DEF MvCareful, Careful, Habits, Accepted
  <2>8. Relink(x, dst, Unlinked(x)) /\ UNCHANGED type
    BY <1>2, <1>3, <1>6, <2>5 DEF MoveFile
  <2>9. PICK d, new : d = r.node /\ new = Named(dst, r, name[x])
    OBVIOUS
  <2>10. d \in Rooted /\ type[d] = "directory" /\ d \notin Subtree(child, next, x)
    <3>1. d \in Rooted /\ type[d] # "file"
      BY <2>6, <2>7, <2>9 DEF LeadsTo, Accepted
    <3> QED BY <2>7, <2>9, <3>1, PlacedFacts
  <2>11. /\ child' = Linked(h, n, d, x).ch /\ next' = Linked(h, n, d, x).nx /\ parent' = [parent EXCEPT ![x] = d]
         /\ name' = (IF Linked(h, n, d, x).ok THEN [name EXCEPT ![x] = new] ELSE name)
         /\ up' = (IF Linked(h, n, d, x).ok THEN up ELSE "hangs")
    BY <2>4, <2>7, <2>8, <2>9 DEF Relink
  <2>12. \A y \in Living \ {x} : D[y] = d => name[y] # new
    <3>1. CASE NewName(dst, r)
      <4>1. \A y \in Listed(n, h[d]) : name[y] # new
        BY <2>6, <2>9, <3>1, NewNameFree DEF Named
      <4>2. \A y \in Living \ {x} : D[y] = d => y \in Listed(n, h[d])
        BY <1>3, <2>5, <2>10, CutListed
      <4> QED BY <4>1, <4>2
    <3>2. CASE ~NewName(dst, r)
      <4>1. new = name[x] /\ r.how = "at"
        BY <2>7, <2>9, <3>2 DEF Named, Accepted
      <4> QED BY <2>7, <2>9, <4>1, LivingListed
    <3> QED BY <3>1, <3>2
  <2> HIDE DEF r
  <2>13. Free(D, x, d, new) /\ Relinks(h, n, d, x, new)
    BY <1>4, <2>8, <2>11, <2>12 DEF Free, Relinks
  <2>14. new \in Names
    BY <1>3, <2>6, <2>9, NewNameFree DEF Named, Placed
  <2>15. PICK E : Placed(E)' /\ Moves(D, E, x, d, new)
    BY <1>3, <2>5, <2>10, <2>13, <2>14, RelinkPlaced
  <2> QED BY <2>15 DEF Does
<1> QED BY <1>5, <1>6

LEMMA CopyPlaced ==
    ASSUME TreeConstants, Careful, AnyInv, NEW D, Placed(D), NEW src \in Paths, NEW dst \in Paths, CopyFile(src, dst)
    PROVE  \E E : Placed(E)' /\ Does(D, E)
<1> DEFINE s == Resolve(child, next, src, FALSE)
           r == Resolve(child, next, dst, FALSE)
<1>1. Shape(Living, D, child, next)
  BY DEF Placed
<1>2. s.how \notin {"hang", "crash"} /\ s.node \in Rooted /\ s.node # Nil
  <2>1. s.how # "hang" /\ s.node \in Rooted \cup {Nil}
    BY <1>1, PathPlaced DEF LeadsTo
  <2>2. s.how # "crash" /\ s.node # Nil
    BY DEF CopyFile, Careful, Habits
  <2> QED BY <2>1, <2>2
<1>3. r.how # "hang" /\ LeadsTo(Rooted, child, next, dst, FALSE, Len(dst), r)
  BY <1>1, PathPlaced
<1>4. UNCHANGED <<cur, removed>> /\ ~awaits /\ cur' # Nil /\ up = "runs" /\ used < MaxNodes
  <2>1. UNCHANGED <<cur, removed>> /\ used < MaxNodes
    BY DEF CopyFile
  <2>2. ~awaits /\ cur # Nil /\ up = "runs"
    BY DEF Placed
  <2> QED BY <2>1, <2>2
<1>5. ASSUME UNCHANGED <<used, fields, up, awaits>> PROVE \E E : Placed(E)' /\ Does(D, E)
  <2>1. Placed(D)'
    BY <1>4, <1>5, RestPlaced
  <2>2. Does(D, D)
    BY <1>4, <1>5 DEF Does, Rests, fields
  <2> QED BY <2>1, <2>2
<1>6. PICK x : x = s.node
  OBVIOUS
<1>7. CASE s.how = "at"
  <2>1. /\ type[x] = "file" /\ r.how # "crash" /\ r.node # Nil
        /\ r.how = "at" => Find(next, child[r.node], name[x]) = Nil
    BY <1>2, <1>6, <1>7 DEF CopyFile, CpCareful, Careful, Habits
  <2>2. CASE ~Accepted(dst, r)
    <3>1. UNCHANGED <<used, fields, up, awaits>>
      BY <1>2, <1>3, <1>6, <1>7, <2>1, <2>2 DEF CopyFile, Fails, Duplicate
    <3> QED BY <1>5, <3>1
  <2>3. CASE Accepted(dst, r)
    <3>1. Duplicate(x, dst, r)
      BY <1>2, <1>6, <1>7, <2>3 DEF CopyFile
    <3>2. PICK d, new : d = r.node /\ new = Named(dst, r, name[x])
      OBVIOUS
    <3>3. d \in Rooted /\ type[d] = "directory" /\ x \in Living /\ new \in Names
      <4>1. d \in Rooted /\ type[d] # "file"
        BY <1>3, <2>1, <2>3, <3>2 DEF LeadsTo, Accepted
      <4>2. x \in Living
        BY <1>2, <1>6, <2>1 DEF Rooted, Placed
      <4>3. name[x] \in Names
        BY <4>2 DEF Placed
      <4> QED BY <1>3, <3>2, <4>1, <4>2, <4>3, NewNameFree, PlacedFacts DEF Named
    <3>4. \A y \in Listed(next, child[d]) : name[y] # new
      <4>1. CASE NewName(dst, r)
        BY <1>3, <3>2, <4>1, NewNameFree DEF Named
      <4>2. CASE ~NewName(dst, r)
        <5>1. new = name[x] /\ Find(next, child[d], name[x]) = Nil
          BY <2>1, <2>3, <3>2, <4>2 DEF Named, Accepted
        <5> QED BY <3>3, <5>1, FoundPlaced
      <4> QED BY <4>1, <4>2
    <3> HIDE DEF r
    <3>5. /\ used' = New /\ name' = [name EXCEPT ![New] = new] /\ type' = [type EXCEPT ![New] = "file"]
          /\ child' = Linked(child, next, d, New).ch /\ next' = Linked(child, next, d, New).nx
          /\ up' = (IF Linked(child, next, d, New).ok THEN up ELSE "hangs")
          /\ parent' = [parent EXCEPT ![x] = d] /\ awaits' = FALSE
      BY <2>1, <3>1, <3>2 DEF Duplicate
    <3>6. \A y \in Living : type[y] = "directory" => parent'[y] = parent[y]
      BY <2>1, <3>5, PlacedFacts DEF AnyInv, TypeOK
    <3>7. PICK E : Placed(E)' /\ Creates(D, E, d, new, "file")
      BY <1>4, <3>3, <3>4, <3>5, <3>6, CreatePlaced
    <3> QED BY <2>1, <3>3, <3>7 DEF Does
  <2> QED BY <2>2, <2>3
<1>8. CASE s.how # "at"
  <2>1. UNCHANGED <<used, fields, up, awaits>>
    BY <1>2, <1>8 DEF CopyFile
  <2> QED BY <1>5, <2>1
<1> QED BY <1>7, <1>8

-----------------------------------------------------------------------------
(* What the careful user may rely on.                                      *)

LEMMA TreeInit == ASSUME TreeConstants, Init PROVE Tree
<1>1. AnyInv
  BY AnyInit
<1>2. PICK D : D = [y \in Nodes |-> Home]
  OBVIOUS
<1>3. used = 0 /\ removed = {} /\ Living = {} /\ MaxNodes \in Nat /\ Home \in Nodes
  BY AnyFacts, <1>1 DEF Init, Living, InUse
<1>4. D \in [Nodes -> Nodes]
  BY <1>2, <1>3
<1>5. Shape({}, D, child, next)
  BY <1>3 DEF Init, Shape
<1>6. up = "runs" /\ ~awaits /\ cur # Nil /\ type[Home] = "directory"
  BY <1>3 DEF Init, Home, Nil
<1>7. Placed(D)
  BY <1>3, <1>4, <1>5, <1>6 DEF Placed, Distinct
<1> QED BY <1>1, <1>7 DEF Tree

LEMMA NextDoes ==
    ASSUME TreeConstants, Careful, AnyInv, NEW D, Placed(D), [Next]_vars
    PROVE  \E E : Placed(E)' /\ Does(D, E)
<1>1. CASE LoseCommand
  BY <1>1 DEF LoseCommand, Placed
<1>2. CASE UNCHANGED vars
  <2>1. UNCHANGED <<used, fields, removed, cur>> /\ cur' # Nil /\ up' = "runs" /\ ~awaits'
    <3>1. UNCHANGED <<used, fields, removed, cur, up, awaits>>
      BY <1>2 DEF vars
    <3>2. cur # Nil /\ up = "runs" /\ ~awaits
      BY DEF Placed
    <3> QED BY <3>1, <3>2
  <2>2. Placed(D)'
    BY <2>1, RestPlaced
  <2>3. Does(D, D)
    BY <2>1 DEF Does, Rests, fields
  <2> QED BY <2>2, <2>3
<1>3. ASSUME NEW m \in Names, MakeDirectory(m) \/ ToBigFS(m) \/ RemoveFile(m)
      PROVE  \E E : Placed(E)' /\ Does(D, E)
  BY <1>3, MakePlaced, RemovePlaced
<1>4. ASSUME NEW p \in Paths, ChangeDirectory(p) PROVE \E E : Placed(E)' /\ Does(D, E)
  BY <1>4, ChangePlaced DEF Does
<1>5. ASSUME NEW p \in Paths, NEW q \in Paths, MoveFile(p, q) \/ CopyFile(p, q)
      PROVE  \E E : Placed(E)' /\ Does(D, E)
  BY <1>5, MovePlaced, CopyPlaced
<1> QED BY <1>1, <1>2, <1>3, <1>4, <1>5 DEF Next

LEMMA TreeNext == ASSUME TreeConstants, Careful, Tree, [Next]_vars PROVE Tree'
<1>1. AnyInv /\ AnyInv'
  BY AnyNext DEF Tree
<1>2. PICK D : Placed(D)
  BY DEF Tree
<1>3. \E E : Placed(E)'
  BY <1>1, <1>2, NextDoes
<1> QED BY <1>1, <1>3 DEF Tree

LEMMA AlwaysTree == ASSUME Careful PROVE Spec => []Tree
<1>1. Init => Tree
  BY TreeInit, TreeConstantsOK
<1>2. Tree /\ [Next]_vars => Tree'
  BY TreeNext, TreeConstantsOK
<1> QED BY <1>1, <1>2, PTL DEF Spec

\* If the user avoids the six habits, the lists are a tree whatever he types:
\* no list runs in a circle, no node is on two lists, home is on none, and cd
\* .. undoes cd.
THEOREM AlwaysProperTree == ASSUME Careful PROVE Spec => []ProperTree
<1>1. Tree => ProperTree
  <2>1. SUFFICES ASSUME Tree PROVE ProperTree
    OBVIOUS
  <2>2. PICK D : Placed(D)
    BY <2>1 DEF Tree
  <2>3. AnyInv
    BY <2>1 DEF Tree
  <2>4. Shape(Living, D, child, next) /\ MaxNodes \in Nat /\ Living \subseteq Nodes \ {Home} /\ Home \in Nodes
    <3>1. Shape(Living, D, child, next)
      BY <2>2 DEF Placed
    <3> QED BY <2>2, <2>3, <3>1, PlacedFacts, TreeConstantsOK
  <2>5. \A x \in Nodes : \A d \in Listing(x) : x \in Living /\ D[x] = d
    BY <2>4, ShapeLists DEF Listing
  <2>6. \A d \in Nodes : ~Endless(next, child[d])
    BY <2>4, ShapeEnds
  <2>7. \A x \in Nodes : \A d, e \in Listing(x) : d = e
    BY <2>5
  <2>8. Listing(Home) = {}
    BY <2>4, <2>5
  <2>9. \A x \in Nodes \ {Home} : type[x] = "directory" => Listing(x) \subseteq {parent[x]}
    BY <2>2, <2>5 DEF Placed
  <2> QED BY <2>6, <2>7, <2>8, <2>9 DEF ProperTree
<1> QED BY <1>1, AlwaysTree, PTL

\* Then nothing is lost either: whatever was created and not removed can be
\* reached from home, through any number of mkdir, tobigfs, cp, mv and rm.
THEOREM NothingGetsLost == ASSUME Careful PROVE Spec => []NothingLost
<1>1. Tree => NothingLost
  BY DEF Tree, Placed, Living, NothingLost
<1> QED BY <1>1, AlwaysTree, PTL

\* And the name server goes on serving: no command of a careful user follows a
\* NULL pointer, runs in a circle, or waits for a location that nobody sends.
THEOREM CarefulSurvives == ASSUME Careful PROVE Spec => []Survives
<1>1. Tree => Survives
  BY DEF Tree, Placed, Survives
<1> QED BY <1>1, AlwaysTree, PTL

-----------------------------------------------------------------------------
(* Paths: what is below a path, and how it is moved.                       *)

Under(s, q) == \E t \in Seq(Names) : q = s \o t

LEMMA PrefixUnder ==
    ASSUME NEW s \in Seq(Names), NEW q \in Seq(Names)
    PROVE  /\ Under(s, q) <=> TheSpace!IsPrefix(s, q)
           /\ Under(s, q) => q = s \o SubSeq(q, Len(s) + 1, Len(q)) /\ SubSeq(q, Len(s) + 1, Len(q)) \in Seq(Names)
<1>1. Len(s) \in Nat /\ Len(q) \in Nat
  BY LenProperties
<1>2. ASSUME NEW t \in Seq(Names), q = s \o t
      PROVE  Len(s) <= Len(q) /\ SubSeq(s, 1, Len(s)) = SubSeq(q, 1, Len(s))
  <2>1. Len(t) \in Nat /\ Len(q) = Len(s) + Len(t)
    BY <1>2, LenProperties, ConcatProperties
  <2>2. SubSeq(s, 1, Len(s)) = s
    BY SubSeqFull
  <2>3. CASE Len(s) = 0
    <3>1. SubSeq(s, 1, Len(s)) = <<>> /\ SubSeq(q, 1, Len(s)) = <<>>
      BY <2>3, SubSeqEmpty
    <3> QED BY <2>1, <3>1
  <2>4. CASE Len(s) > 0
    <3>1. 1 \in 1..Len(s) /\ Len(s) \in 1..Len(s)
      BY <1>1, <2>4
    <3>2. SubSeq(q, 1, Len(s)) = SubSeq(s, 1, Len(s))
      BY <1>2, <3>1, SubSeqOfConcat1
    <3> QED BY <2>1, <3>2, <1>1
  <2> QED BY <1>1, <2>3, <2>4
<1>3. ASSUME Len(s) <= Len(q), SubSeq(s, 1, Len(s)) = SubSeq(q, 1, Len(s))
      PROVE  q = s \o SubSeq(q, Len(s) + 1, Len(q)) /\ SubSeq(q, Len(s) + 1, Len(q)) \in Seq(Names)
  <2>1. SubSeq(q, 1, Len(s)) = s /\ SubSeq(q, 1, Len(q)) = q
    BY <1>3, SubSeqFull
  <2>2. 1 \in 1..(Len(q) + 1) /\ Len(s) \in (1 - 1)..Len(q) /\ Len(q) \in Len(s)..Len(q)
    BY <1>1, <1>3
  <2>3. SubSeq(q, 1, Len(s)) \o SubSeq(q, Len(s) + 1, Len(q)) = SubSeq(q, 1, Len(q))
    BY <2>2, ConcatAdjacentSubSeq
  <2>4. ASSUME NEW i \in (Len(s) + 1)..Len(q) PROVE q[i] \in Names
    <3>1. i \in 1..Len(q)
      BY <1>1
    <3> QED BY <3>1, ElementOfSeq
  <2>5. SubSeq(q, Len(s) + 1, Len(q)) \in Seq(Names)
    <3>1. Len(s) + 1 \in Int /\ Len(q) \in Int
      BY <1>1
    <3> QED BY <2>4, <3>1, SubSeqProperties
  <2> QED BY <2>1, <2>3, <2>5
<1>4. TheSpace!IsPrefix(s, q) <=> Len(s) <= Len(q) /\ SubSeq(s, 1, Len(s)) = SubSeq(q, 1, Len(s))
  BY DEF TheSpace!IsPrefix
<1> QED BY <1>2, <1>3, <1>4 DEF Under

LEMMA RebasedUnder ==
    ASSUME NEW s \in Seq(Names), NEW t \in Seq(Names), NEW p \in Seq(Names)
    PROVE  TheSpace!Rebased(s \o t, s, p) = p \o t
<1>1. PICK q : q = s \o t
  OBVIOUS
<1>2. q \in Seq(Names) /\ Under(s, q)
  BY <1>1, ConcatProperties DEF Under
<1>3. PICK u : u = SubSeq(q, Len(s) + 1, Len(q))
  OBVIOUS
<1>4. TheSpace!IsPrefix(s, q) /\ q = s \o u /\ u \in Seq(Names)
  BY <1>2, <1>3, PrefixUnder
<1>5. u = t
  BY <1>1, <1>4, ConcatSimplifications
<1>6. TheSpace!Rebased(q, s, p) = p \o u
  BY <1>3, <1>4 DEF TheSpace!Rebased
<1> QED BY <1>1, <1>5, <1>6

LEMMA RebasedNot ==
    ASSUME NEW s \in Seq(Names), NEW q \in Seq(Names), NEW p, ~Under(s, q)
    PROVE  TheSpace!Rebased(q, s, p) = q
<1>1. ~TheSpace!IsPrefix(s, q)
  BY PrefixUnder
<1> QED BY <1>1 DEF TheSpace!Rebased

LEMMA RebasedSeq ==
    ASSUME NEW s \in Seq(Names), NEW q \in Seq(Names), NEW p \in Seq(Names)
    PROVE  TheSpace!Rebased(q, s, p) \in Seq(Names)
<1>1. CASE Under(s, q)
  <2>1. PICK t \in Seq(Names) : q = s \o t
    BY <1>1 DEF Under
  <2>2. p \o t \in Seq(Names)
    BY ConcatProperties
  <2>3. TheSpace!Rebased(s \o t, s, p) = p \o t
    BY RebasedUnder
  <2> QED BY <2>1, <2>2, <2>3
<1> QED BY <1>1, RebasedNot

LEMMA ConcatAppend ==
    ASSUME NEW s \in Seq(Names), NEW t \in Seq(Names), NEW m \in Names
    PROVE  s \o Append(t, m) = Append(s \o t, m)
<1>1. <<m>> \in Seq(Names) /\ s \o t \in Seq(Names)
  BY ConcatProperties
<1>2. Append(t, m) = t \o <<m>> /\ Append(s \o t, m) = (s \o t) \o <<m>>
  BY <1>1, AppendIsConcat
<1> QED BY <1>1, <1>2, ConcatAssociative

LEMMA UnderAppend ==
    ASSUME NEW s \in Seq(Names), NEW q \in Seq(Names), NEW m \in Names
    PROVE  /\ Under(s, q) => Under(s, Append(q, m))
           /\ Under(s, Append(q, m)) => s = Append(q, m) \/ Under(s, q)
<1>1. ASSUME NEW t \in Seq(Names), q = s \o t PROVE Append(q, m) = s \o Append(t, m) /\ Append(t, m) \in Seq(Names)
  BY <1>1, ConcatAppend, AppendProperties
<1>2. ASSUME Under(s, Append(q, m)), s # Append(q, m) PROVE Under(s, q)
  <2>1. PICK u \in Seq(Names) : Append(q, m) = s \o u
    BY <1>2 DEF Under
  <2>2. u # <<>>
    BY <1>2, <2>1, ConcatEmptySeq
  <2>3. PICK t \in Seq(Names), k \in Names : u = Append(t, k)
    BY <2>2, SequenceEmptyOrAppend
  <2>4. PICK w : w = s \o t
    OBVIOUS
  <2>5. Append(q, m) = Append(w, k) /\ w \in Seq(Names)
    BY <2>1, <2>3, <2>4, ConcatAppend, ConcatProperties
  <2>6. q = w
    BY <2>5, AppendInjective
  <2> QED BY <2>4, <2>6 DEF Under
<1> QED BY <1>1, <1>2 DEF Under

LEMMA RebasedAppend ==
    ASSUME NEW s \in Seq(Names), NEW q \in Seq(Names), NEW p \in Seq(Names), NEW m \in Names, s # Append(q, m)
    PROVE  TheSpace!Rebased(Append(q, m), s, p) = Append(TheSpace!Rebased(q, s, p), m)
<1>1. PICK a : a = Append(q, m)
  OBVIOUS
<1>2. a \in Seq(Names) /\ s # a
  BY <1>1, AppendProperties
<1>3. CASE Under(s, q)
  <2>1. PICK t \in Seq(Names) : q = s \o t
    BY <1>3 DEF Under
  <2>2. a = s \o Append(t, m) /\ Append(t, m) \in Seq(Names)
    <3>1. a = Append(s \o t, m) /\ Append(t, m) \in Seq(Names)
      BY <1>1, <2>1, AppendProperties
    <3> QED BY <3>1, ConcatAppend
  <2>3. TheSpace!Rebased(a, s, p) = p \o Append(t, m) /\ TheSpace!Rebased(q, s, p) = p \o t
    BY <2>1, <2>2, RebasedUnder
  <2>4. p \o Append(t, m) = Append(p \o t, m)
    BY ConcatAppend
  <2> QED BY <1>1, <2>3, <2>4
<1>4. CASE ~Under(s, q)
  <2>1. ~Under(s, a)
    BY <1>1, <1>2, <1>4, UnderAppend
  <2>2. TheSpace!Rebased(a, s, p) = a /\ TheSpace!Rebased(q, s, p) = q
    BY <1>2, <1>4, <2>1, RebasedNot
  <2> QED BY <1>1, <2>2
<1> QED BY <1>3, <1>4

-----------------------------------------------------------------------------
(* The paths of the nodes.                                                 *)

\* P gives each node the path that leads to it.
Paved(D, P) ==
    /\ P \in [Nodes -> Seq(Names)] /\ P[Home] = <<>>
    /\ \A y \in Living : P[y] = Append(P[D[y]], name[y])

LEMMA PavedFacts ==
    ASSUME TreeConstants, AnyInv, NEW D, Placed(D), NEW P, Paved(D, P), NEW y \in Living
    PROVE  /\ D[y] \in Rooted /\ D[y] \in Nodes /\ y \in Nodes /\ y \in Rooted /\ name[y] \in Names
           /\ P[D[y]] \in Seq(Names) /\ P[y] = Append(P[D[y]], name[y])
           /\ P[y] # <<>> /\ P[y] \in Seq(Names) /\ Len(P[D[y]]) \in Nat /\ Len(P[y]) = Len(P[D[y]]) + 1
<1>1. /\ Shape(Living, D, child, next) /\ MaxNodes \in Nat /\ Home \in Nodes /\ y \in Subtree(child, next, Home)
      /\ y \in Nodes /\ y # Home /\ name[y] \in Names
  BY PlacedFacts DEF Placed
<1>2. D[y] \in Subtree(child, next, Home)
  BY <1>1, SubtreeListed
<1>3. D[y] \in Rooted /\ D[y] \in Nodes /\ y \in Rooted
  BY <1>1, <1>2, HomeHolds, PlacedFacts DEF Rooted
<1>4. P[D[y]] \in Seq(Names) /\ P[y] = Append(P[D[y]], name[y])
  BY <1>3 DEF Paved
<1>5. PICK s, m : s = P[D[y]] /\ m = name[y]
  OBVIOUS
<1>6. Append(s, m) # <<>> /\ Append(s, m) \in Seq(Names) /\ Len(s) \in Nat /\ Len(Append(s, m)) = Len(s) + 1
  BY <1>1, <1>4, <1>5, AppendProperties, LenProperties
<1> QED BY <1>1, <1>3, <1>4, <1>5, <1>6

LEMMA RootedPath ==
    ASSUME TreeConstants, AnyInv, NEW D, Placed(D), NEW P, Paved(D, P), NEW y \in Rooted
    PROVE  y \in Nodes /\ P[y] \in Seq(Names) /\ Len(P[y]) \in Nat /\ (P[y] = <<>> <=> y = Home) /\ (y # Home => y \in Living)
<1>1. y \in Nodes
  BY PlacedFacts
<1>2. P[y] \in Seq(Names) /\ Len(P[y]) \in Nat /\ P[Home] = <<>>
  BY <1>1, LenProperties DEF Paved
<1>3. y # Home => y \in Living
  BY DEF Rooted
<1> QED BY <1>1, <1>2, <1>3, PavedFacts

\* Where the directory and the name are given, there is one node.
LEMMA ChildIsOne ==
    ASSUME TreeConstants, AnyInv, NEW D, Placed(D), NEW y \in Living, NEW z \in Living, D[y] = D[z], name[y] = name[z]
    PROVE  y = z
BY DEF Placed, Distinct

\* Different nodes have different paths, by induction over their length.
LEMMA PathIsOne ==
    ASSUME TreeConstants, AnyInv, NEW D, Placed(D), NEW P, Paved(D, P), NEW y \in Rooted, NEW z \in Rooted, P[y] = P[z]
    PROVE  y = z
<1> DEFINE I == {n \in Nat : \A v, w \in Rooted : Len(P[v]) = n /\ P[v] = P[w] => v = w}
<1>1. 0 \in I
  <2>1. ASSUME NEW v \in Rooted, Len(P[v]) = 0 PROVE v = Home
    BY <2>1, RootedPath, PavedFacts
  <2>2. ASSUME NEW v \in Rooted, NEW w \in Rooted, Len(P[v]) = 0, P[v] = P[w] PROVE v = w
    BY <2>1, <2>2
  <2> QED BY <2>2
<1>2. ASSUME NEW n \in Nat, n \in I PROVE n + 1 \in I
  <2>1. ASSUME NEW v \in Rooted, NEW w \in Rooted, Len(P[v]) = n + 1, P[v] = P[w] PROVE v = w
    <3>1. v # Home /\ w # Home
      <4>1. P[Home] = <<>> /\ Len(<<>>) = 0
        BY DEF Paved
      <4> QED BY <2>1, <4>1
    <3>2. v \in Living /\ w \in Living
      BY <3>1, RootedPath
    <3>3. PICK s, m, t, k : s = P[D[v]] /\ m = name[v] /\ t = P[D[w]] /\ k = name[w]
      OBVIOUS
    <3>4. /\ s \in Seq(Names) /\ m \in Names /\ Len(s) \in Nat /\ P[v] = Append(s, m) /\ Len(P[v]) = Len(s) + 1
          /\ D[v] \in Rooted
      BY <3>2, <3>3, PavedFacts
    <3>5. t \in Seq(Names) /\ k \in Names /\ P[w] = Append(t, k) /\ D[w] \in Rooted
      BY <3>2, <3>3, PavedFacts
    <3>6. s = t /\ m = k /\ Len(s) = n
      <4>1. Append(s, m) = Append(t, k)
        BY <2>1, <3>4, <3>5
      <4> QED BY <2>1, <3>4, <3>5, <4>1, AppendInjective
    <3>7. D[v] = D[w]
      BY <1>2, <3>3, <3>4, <3>5, <3>6
    <3> QED BY <3>2, <3>3, <3>6, <3>7, ChildIsOne
  <2> QED BY <2>1
<1> HIDE DEF I
<1>3. \A n \in Nat : n \in I
  BY <1>1, <1>2, NatSetInduction
<1>4. Len(P[y]) \in Nat
  BY RootedPath
<1> QED BY <1>3, <1>4 DEF I

\* What is below a path is below the node of that path.
LEMMA UnderBelow ==
    ASSUME TreeConstants, AnyInv, NEW D, Placed(D), NEW P, Paved(D, P), NEW x \in Rooted, NEW y \in Rooted,
           Under(P[x], P[y])
    PROVE  y \in Subtree(child, next, x)
<1> DEFINE I == {n \in Nat : \A v \in Rooted : Len(P[v]) = n /\ Under(P[x], P[v]) => v \in Subtree(child, next, x)}
<1>0. x \in Subtree(child, next, x) /\ Holds(child, next, Subtree(child, next, x)) /\ x \in Nodes /\ P[x] \in Seq(Names)
  <2>1. Shape(Living, D, child, next) /\ MaxNodes \in Nat /\ x \in Nodes
    BY PlacedFacts DEF Placed
  <2> QED BY <2>1, ShapeKept, SubtreeHolds, RootedPath
<1>1. ASSUME NEW v \in Rooted, P[x] = P[v] PROVE v \in Subtree(child, next, x)
  BY <1>0, <1>1, PathIsOne
<1>2. 0 \in I
  <2>1. ASSUME NEW v \in Rooted, Len(P[v]) = 0, Under(P[x], P[v]) PROVE P[x] = P[v]
    <3>1. v = Home
      BY <2>1, RootedPath, PavedFacts
    <3>2. PICK t \in Seq(Names) : <<>> = P[x] \o t
      BY <2>1, <3>1 DEF Under, Paved
    <3>3. P[x] = <<>>
      <4>1. PICK s : s = P[x]
        OBVIOUS
      <4>2. s \o t = <<>> /\ s \in Seq(Names)
        BY <1>0, <3>2, <4>1
      <4>3. s = <<>>
        BY <4>2, ConcatEqualIffEmpty
      <4> QED BY <4>1, <4>3
    <3> QED BY <3>1, <3>3 DEF Paved
  <2> QED BY <1>1, <2>1
<1>3. ASSUME NEW n \in Nat, n \in I PROVE n + 1 \in I
  <2>1. ASSUME NEW v \in Rooted, Len(P[v]) = n + 1, Under(P[x], P[v]) PROVE v \in Subtree(child, next, x)
    <3>1. v \in Living
      <4>1. P[Home] = <<>> /\ Len(<<>>) = 0
        BY DEF Paved
      <4> QED BY <2>1, <4>1, RootedPath
    <3>2. PICK q, m : q = P[D[v]] /\ m = name[v]
      OBVIOUS
    <3>3. q \in Seq(Names) /\ m \in Names /\ P[v] = Append(q, m) /\ D[v] \in Rooted /\ Len(q) = n
      <4>1. Len(q) \in Nat /\ Len(P[v]) = Len(q) + 1
        BY <3>1, <3>2, PavedFacts
      <4>2. Len(q) = n
        BY <2>1, <4>1
      <4> QED BY <3>1, <3>2, <4>2, PavedFacts
    <3>4. P[x] = P[v] \/ Under(P[x], q)
      <4>1. Under(P[x], Append(q, m))
        BY <2>1, <3>3
      <4> QED BY <1>0, <3>3, <4>1, UnderAppend
    <3>5. ASSUME Under(P[x], q) PROVE v \in Subtree(child, next, x)
      <4>1. D[v] \in Subtree(child, next, x)
        BY <1>3, <3>2, <3>3, <3>5
      <4>2. v \in Listed(next, child[D[v]])
        BY <3>1, LivingListed
      <4> QED BY <1>0, <4>1, <4>2 DEF Holds
    <3> QED BY <1>1, <3>4, <3>5
  <2> QED BY <2>1
<1> HIDE DEF I
<1>4. \A n \in Nat : n \in I
  BY <1>2, <1>3, NatSetInduction
<1>5. Len(P[y]) \in Nat
  BY RootedPath
<1> QED BY <1>4, <1>5 DEF I

-----------------------------------------------------------------------------
(* The entries are the nodes with their paths.                             *)

Grown(K) ==
    K \cup UNION {{<<Append(e[1], name[y]), y>> : y \in Listed(next, child[e[2]])} : e \in K}

KnownFrom(f) ==
    [k \in 0..MaxNodes |->
        IF k = 0 THEN {<<<<>>, Home>>} ELSE Grown(f[k - 1])]

Marked(P, S) == {<<P[y], y>> : y \in S}

\* What is known after one more step, of nodes with their paths.
LEMMA MarkedStep ==
    ASSUME TreeConstants, AnyInv, NEW D, Placed(D), NEW P, Paved(D, P), NEW S, S \subseteq Rooted
    PROVE  /\ Below(child, next, S) \subseteq Rooted
           /\ Marked(P, Below(child, next, S)) = Grown(Marked(P, S))
<1>1. \A d \in S : \A y \in Listed(next, child[d]) : y \in Living /\ D[y] = d
  <2>1. Shape(Living, D, child, next) /\ MaxNodes \in Nat /\ S \subseteq Nodes
    BY PlacedFacts DEF Placed
  <2> QED BY <2>1, ShapeLists
<1>2. Below(child, next, S) \subseteq Rooted
  BY <1>1 DEF Below, Rooted
<1>3. \A d \in S : \A y \in Listed(next, child[d]) : P[y] = Append(P[d], name[y])
  BY <1>1 DEF Paved
<1> DEFINE U == UNION {{<<Append(e[1], name[y]), y>> : y \in Listed(next, child[e[2]])} : e \in Marked(P, S)}
<1>4. \A z : z \in U <=> \E d \in S : \E y \in Listed(next, child[d]) : z = <<Append(P[d], name[y]), y>>
  <2>1. ASSUME NEW z \in U PROVE \E d \in S : \E y \in Listed(next, child[d]) : z = <<Append(P[d], name[y]), y>>
    <3>1. PICK e \in Marked(P, S) : z \in {<<Append(e[1], name[y]), y>> : y \in Listed(next, child[e[2]])}
      OBVIOUS
    <3>2. PICK d \in S : e = <<P[d], d>>
      BY <3>1 DEF Marked
    <3>3. PICK y \in Listed(next, child[e[2]]) : z = <<Append(e[1], name[y]), y>>
      BY <3>1
    <3>4. e[1] = P[d] /\ e[2] = d
      BY <3>2
    <3> QED BY <3>3, <3>4
  <2>2. ASSUME NEW d \in S, NEW y \in Listed(next, child[d]) PROVE <<Append(P[d], name[y]), y>> \in U
    <3>1. PICK e : e = <<P[d], d>>
      OBVIOUS
    <3>2. e \in Marked(P, S) /\ e[1] = P[d] /\ e[2] = d
      BY <3>1 DEF Marked
    <3>3. <<Append(P[d], name[y]), y>> \in {<<Append(e[1], name[z]), z>> : z \in Listed(next, child[e[2]])}
      BY <3>2
    <3> QED BY <3>2, <3>3
  <2> HIDE DEF U
  <2>3. ASSUME NEW z, NEW d \in S, NEW y \in Listed(next, child[d]), z = <<Append(P[d], name[y]), y>> PROVE z \in U
    BY <2>2, <2>3
  <2> QED BY <2>1, <2>3
<1> HIDE DEF U
<1>5. \A z : z \in U <=> \E d \in S : \E y \in Listed(next, child[d]) : z = <<P[y], y>>
  BY <1>3, <1>4
<1>6. \A z : z \in Marked(P, Below(child, next, S)) <=> z \in Marked(P, S) \/ z \in U
  BY <1>5 DEF Marked, Below
<1>7. Marked(P, Below(child, next, S)) = Marked(P, S) \cup U
  BY <1>6
<1> QED BY <1>2, <1>7 DEF U, Grown

LEMMA EntriesMarked ==
    ASSUME TreeConstants, AnyInv, NEW D, Placed(D), NEW P, Paved(D, P)
    PROVE  Entries = Marked(P, Rooted)
<1>0. Shape(Living, D, child, next) /\ MaxNodes \in Nat /\ Rooted = Subtree(child, next, Home)
  <2>1. Shape(Living, D, child, next) /\ MaxNodes \in Nat /\ Rooted \subseteq Subtree(child, next, Home)
    BY PlacedFacts DEF Placed
  <2> QED BY <2>1, HomeHolds DEF Rooted
<1>1. PICK g : Deeper(child, next, Home, g, MaxNodes) /\ Subtree(child, next, Home) = g[MaxNodes]
  BY <1>0, SubtreeSteps
<1> DEFINE h == [k \in 0..MaxNodes |-> Marked(P, g[k])]
<1>2. \A k \in 0..MaxNodes : g[k] \subseteq Rooted
  <2> DEFINE I == {k \in Nat : g[k] \subseteq Rooted}
  <2>1. 0 \in I
    BY <1>1 DEF Deeper, Rooted
  <2>2. ASSUME NEW k \in Nat, k < MaxNodes, k \in I PROVE k + 1 \in I
    <3>1. g[k + 1] = Below(child, next, g[k])
      BY <1>1, <2>2 DEF Deeper
    <3>2. PICK S : S = g[k]
      OBVIOUS
    <3>3. Below(child, next, S) \subseteq Rooted
      BY <2>2, <3>2, MarkedStep
    <3> QED BY <3>1, <3>2, <3>3
  <2> HIDE DEF I
  <2>3. \A k \in 0..MaxNodes : k \in I
    BY <1>0, <2>1, <2>2, StartsAt
  <2> QED BY <2>3 DEF I
<1>3. h[0] = {<<<<>>, Home>>}
  <2>1. 0 \in 0..MaxNodes /\ g[0] = {Home} /\ P[Home] = <<>>
    BY <1>0, <1>1 DEF Deeper, Paved
  <2> QED BY <2>1 DEF Marked
<1>4. ASSUME NEW k \in Nat, k < MaxNodes
      PROVE  h[k + 1] = Grown(h[k])
  <2>1. g[k + 1] = Below(child, next, g[k])
    BY <1>1, <1>4 DEF Deeper
  <2>2. k \in 0..MaxNodes /\ k + 1 \in 0..MaxNodes
    BY <1>0, <1>4
  <2>3. PICK S : S = g[k]
    OBVIOUS
  <2>4. S \subseteq Rooted /\ h[k] = Marked(P, S) /\ h[k + 1] = Marked(P, Below(child, next, S))
    BY <1>2, <2>1, <2>2, <2>3
  <2> QED BY <2>4, MarkedStep
<1>5. DOMAIN h = 0..MaxNodes /\ h[MaxNodes] = Marked(P, Rooted) /\ h = [k \in 0..MaxNodes |-> h[k]]
  BY <1>0, <1>1
<1> HIDE DEF h
<1>6. h = KnownFrom(h)
  <2>1. ASSUME NEW k \in 0..MaxNodes
        PROVE  h[k] = IF k = 0 THEN {<<<<>>, Home>>}
                      ELSE Grown(h[k - 1])
    <3>1. CASE k = 0
      BY <1>3, <3>1
    <3>2. CASE k # 0
      <4>1. PICK j : j = k - 1
        OBVIOUS
      <4>2. j \in Nat /\ j < MaxNodes /\ j + 1 = k
        BY <1>0, <3>2, <4>1
      <4> QED BY <1>4, <3>2, <4>1, <4>2
    <3> QED BY <3>1, <3>2
  <2> QED BY <1>5, <2>1 DEF KnownFrom
<1> DEFINE F == CHOOSE f : f = KnownFrom(f)
<1>7. Entries = F[MaxNodes]
  BY DEF Entries, KnownFrom, Grown
<1>8. F = KnownFrom(F)
  BY <1>6
<1> HIDE DEF F
<1>9. ASSUME NEW k \in 0..MaxNodes
      PROVE  F[k] = IF k = 0 THEN {<<<<>>, Home>>}
                    ELSE Grown(F[k - 1])
  BY <1>8 DEF KnownFrom
<1> DEFINE J == {k \in Nat : F[k] = h[k]}
<1>10. 0 \in J
  <2>1. F[0] = {<<<<>>, Home>>}
    <3>1. PICK z : z = 0
      OBVIOUS
    <3>2. z \in 0..MaxNodes
      BY <1>0, <3>1
    <3> QED BY <1>9, <3>1, <3>2
  <2> QED BY <1>3, <2>1
<1>11. ASSUME NEW k \in Nat, k < MaxNodes, k \in J PROVE k + 1 \in J
  <2>1. PICK j : j = k + 1
    OBVIOUS
  <2>2. j \in 0..MaxNodes /\ j # 0 /\ j - 1 = k
    BY <1>0, <1>11, <2>1
  <2>3. F[j] = Grown(F[k])
    BY <1>9, <2>2
  <2>4. F[k] = h[k]
    BY <1>11
  <2>5. h[j] = Grown(h[k])
    BY <1>4, <1>11, <2>1
  <2>6. F[j] = h[j]
    BY <2>3, <2>4, <2>5
  <2> QED BY <2>1, <2>6
<1> HIDE DEF J
<1>12. \A k \in 0..MaxNodes : k \in J
  BY <1>0, <1>10, <1>11, StartsAt
<1>13. F[MaxNodes] = h[MaxNodes]
  <2>1. MaxNodes \in 0..MaxNodes
    BY <1>0
  <2> QED BY <1>12, <2>1 DEF J
<1> QED BY <1>5, <1>7, <1>13

\* So what the tree says under a path is what the node of that path is.
Mirrors(P) ==
    /\ TheTree = [q \in DOMAIN TheTree |-> TheTree[q]]
    /\ \A q : q \in DOMAIN TheTree <=> \E y \in Rooted : q = P[y]
    /\ \A y \in Rooted : TheTree[P[y]] = type[y]
    /\ TheCwd = P[cur] /\ cur \in Rooted
    /\ \A y, z \in Rooted : P[y] = P[z] => y = z

LEMMA PavedMirrors ==
    ASSUME TreeConstants, AnyInv, NEW D, Placed(D), NEW P, Paved(D, P)
    PROVE  Mirrors(P)
<1>1. Entries = Marked(P, Rooted)
  BY EntriesMarked
<1>2. \A e \in Entries : e[2] \in Rooted /\ e[1] = P[e[2]] /\ e = <<P[e[2]], e[2]>>
  BY <1>1 DEF Marked
<1>3. \A y \in Rooted : <<P[y], y>> \in Entries
  BY <1>1 DEF Marked
<1> DEFINE Q == {e[1] : e \in Entries}
           Chosen(q) == CHOOSE e \in Entries : e[1] = q
<1>4. \A q : q \in Q <=> \E y \in Rooted : q = P[y]
  <2>1. ASSUME NEW q \in Q PROVE \E y \in Rooted : q = P[y]
    BY <1>2
  <2>2. ASSUME NEW y \in Rooted PROVE P[y] \in Q
    <3>1. PICK e \in Entries : e = <<P[y], y>>
      BY <1>3
    <3>2. e[1] = P[y]
      BY <3>1
    <3> QED BY <3>2
  <2> QED BY <2>1, <2>2
<1>5. ASSUME NEW y \in Rooted PROVE Chosen(P[y])[2] = y
  <2>1. PICK q : q = P[y]
    OBVIOUS
  <2>2. \E e \in Entries : e[1] = q
    BY <1>3, <2>1
  <2>3. Chosen(q) \in Entries /\ Chosen(q)[1] = q
    BY <2>2
  <2>4. PICK z : z = Chosen(q)[2]
    OBVIOUS
  <2>5. z \in Rooted /\ P[z] = P[y]
    BY <1>2, <2>1, <2>3, <2>4
  <2>6. z = y
    BY <2>5, PathIsOne
  <2> QED BY <2>1, <2>4, <2>6
<1>6. TheTree = [q \in Q |-> type[Chosen(q)[2]]]
  BY DEF TheTree
<1>7. TheCwd = P[cur] /\ cur \in Rooted
  <2>1. cur \in Rooted
    BY PlacedFacts
  <2>2. \E e \in Entries : e[2] = cur
    BY <1>3, <2>1
  <2>3. PICK c : c = CHOOSE e \in Entries : e[2] = cur
    OBVIOUS
  <2>4. c \in Entries /\ c[2] = cur
    BY <2>2, <2>3
  <2>5. TheCwd = c[1]
    BY <2>3 DEF TheCwd
  <2> QED BY <1>2, <2>1, <2>4, <2>5
<1> HIDE DEF Q, Chosen
<1>8. DOMAIN TheTree = Q /\ \A q \in Q : TheTree[q] = type[Chosen(q)[2]]
  BY <1>6
<1>9. TheTree = [q \in DOMAIN TheTree |-> TheTree[q]]
  BY <1>6, <1>8
<1>10. \A y \in Rooted : TheTree[P[y]] = type[y]
  BY <1>4, <1>5, <1>8
<1>11. \A y, z \in Rooted : P[y] = P[z] => y = z
  BY PathIsOne
<1> QED BY <1>4, <1>7, <1>8, <1>9, <1>10, <1>11 DEF Mirrors

\* Also after a step.
AlwaysMirrors == \A D, P : TreeConstants /\ AnyInv /\ Placed(D) /\ Paved(D, P) => Mirrors(P)

LEMMA MirrorsHold == AlwaysMirrors
BY PavedMirrors DEF AlwaysMirrors

LEMMA MirrorsAfter ==
    ASSUME TreeConstants, AnyInv', NEW E, Placed(E)', NEW Q, Paved(E, Q)'
    PROVE  Mirrors(Q)'
<1>1. AlwaysMirrors'
  BY MirrorsHold, PTL
<1>2. TreeConstants'
  BY DEF TreeConstants
<1> QED BY <1>1, <1>2 DEF AlwaysMirrors

-----------------------------------------------------------------------------
(* The steps of NameSpace.                                                 *)

\* With what the paths are taken for, a step of NameSpace reads as follows.
LEMMA SpaceSteps ==
    /\ \A p, kind : TheSpace!Enter(p, kind) <=>
         /\ TheTree' = [q \in DOMAIN TheTree \cup {p} |-> IF q = p THEN kind ELSE TheTree[q]]
         /\ TheCwd' = TheCwd
    /\ \A p : p \in TheSpace!Directories <=> p \in DOMAIN TheTree /\ TheTree[p] = "directory"
    /\ \A p : p \in TheSpace!Free <=>
         p \notin DOMAIN TheTree /\ \E q \in TheSpace!Directories, m \in Names : p = Append(q, m)
BY DEF TheSpace!Enter, TheSpace!Directories, TheSpace!Free

LEMMA FrontOfPath == ASSUME NEW q \in Seq(Names), NEW m \in Names PROVE TheSpace!Front(Append(q, m)) = q
<1>1. PICK a : a = Append(q, m)
  OBVIOUS
<1>2. a \in Seq(Names) /\ a = q \o <<m>> /\ Len(a) = Len(q) + 1 /\ Len(q) \in Nat /\ <<m>> \in Seq(Names)
  BY <1>1, AppendProperties, AppendIsConcat, LenProperties
<1>3. Under(q, a)
  BY <1>2 DEF Under
<1>4. TheSpace!IsPrefix(q, a)
  BY <1>2, <1>3, PrefixUnder
<1>5. SubSeq(q, 1, Len(q)) = SubSeq(a, 1, Len(q)) /\ SubSeq(q, 1, Len(q)) = q
  BY <1>4, SubSeqFull DEF TheSpace!IsPrefix
<1>6. TheSpace!Front(a) = SubSeq(a, 1, Len(a) - 1)
  BY DEF TheSpace!Front
<1>7. Len(a) - 1 = Len(q)
  BY <1>2
<1> QED BY <1>1, <1>5, <1>6, <1>7

\* A path in the directory d that no node has is free.
LEMMA PathFree ==
    ASSUME TreeConstants, AnyInv, NEW D, Placed(D), NEW P, Paved(D, P), NEW d \in Rooted, type[d] = "directory",
           NEW m \in Names, NEW p, p = Append(P[d], m), NEW x, Free(D, x, d, m), x \in Living => P[x] # p
    PROVE  p \in TheSpace!Free /\ p \in Seq(Names) /\ p # <<>> /\ \A y \in Rooted : P[y] # p
<1>1. Mirrors(P)
  BY PavedMirrors
<1>2. PICK q : q = P[d]
  OBVIOUS
<1>3. q \in Seq(Names) /\ p = Append(q, m) /\ p \in Seq(Names) /\ p # <<>>
  BY <1>2, RootedPath, AppendProperties
<1>4. ASSUME NEW y \in Rooted, P[y] = p PROVE FALSE
  <2>1. y \in Living /\ y # x
    <3>1. y # Home
      BY <1>3, <1>4, RootedPath
    <3> QED BY <1>4, <3>1, RootedPath
  <2>2. PICK t, k : t = P[D[y]] /\ k = name[y]
    OBVIOUS
  <2>3. t \in Seq(Names) /\ k \in Names /\ P[y] = Append(t, k) /\ D[y] \in Rooted
    BY <2>1, <2>2, PavedFacts
  <2>4. t = q /\ k = m
    <3>1. Append(t, k) = Append(q, m)
      BY <1>3, <1>4, <2>3
    <3> QED BY <1>3, <2>3, <3>1, AppendInjective
  <2>5. D[y] = d
    BY <1>2, <2>2, <2>3, <2>4, PathIsOne
  <2> QED BY <2>1, <2>2, <2>4, <2>5 DEF Free
<1>5. q \in TheSpace!Directories
  BY <1>1, <1>2, SpaceSteps DEF Mirrors
<1>6. p \notin DOMAIN TheTree
  BY <1>1, <1>4 DEF Mirrors
<1>7. p \in TheSpace!Free
  BY <1>3, <1>5, <1>6, SpaceSteps
<1> QED BY <1>3, <1>4, <1>7

\* A new node is a new entry.
LEMMA CreateKeeps ==
    ASSUME TreeConstants, AnyInv, AnyInv', NEW D, Placed(D), NEW P, Paved(D, P), NEW E, Placed(E)',
           NEW d, NEW m, NEW kind, Creates(D, E, d, m, kind)
    PROVE  \E Q : Paved(E, Q)' /\ \E p \in TheSpace!Free : TheSpace!Front(p) = P[d] /\ TheSpace!Enter(p, kind)
<1>1. /\ d \in Rooted /\ type[d] = "directory" /\ m \in Names /\ Gives(D, New, d, E) /\ used' = New
      /\ \A y \in Living : D[y] = d => name[y] # m
      /\ name' = [name EXCEPT ![New] = m] /\ type' = [type EXCEPT ![New] = kind] /\ UNCHANGED <<cur, removed>>
      /\ used < MaxNodes /\ D \in [Nodes -> Nodes] /\ P \in [Nodes -> Seq(Names)]
      /\ name \in [Nodes -> Names \cup {"home"}] /\ type \in [Nodes -> {"file", "directory"}]
  BY PlacedFacts DEF Creates, Placed, Paved
<1>2. PICK x : x = New
  OBVIOUS
<1>3. x \in Nodes \ {Home} /\ x \notin Rooted /\ Living' = Living \cup {x} /\ Rooted' = Rooted \cup {x}
  <2>1. MaxNodes \in Nat /\ used \in 0..MaxNodes
    BY PlacedFacts
  <2>2. x \in Nodes \ {Home} /\ x \notin 1..used /\ 1..(used + 1) = 1..used \cup {x} /\ used' = used + 1
    <3>1. used < MaxNodes /\ x = used + 1
      BY <1>1, <1>2 DEF New
    <3>2. x \in Nodes \ {Home} /\ x \notin 1..used /\ 1..(used + 1) = 1..used \cup {x}
      BY <2>1, <3>1 DEF Nodes, Home
    <3> QED BY <1>1, <3>1, <3>2 DEF New
  <2>3. x \notin removed'
    BY <1>1, <2>2 DEF Placed
  <2>4. Living' = {y \in 1..(used + 1) : y \notin removed}
    BY <1>1, <2>2 DEF Living
  <2>5. Living' = Living \cup {x}
    BY <1>1, <2>2, <2>3, <2>4 DEF Living
  <2> QED BY <2>2, <2>5 DEF Living, Rooted, Home
<1>4. PICK s, p : s = P[d] /\ p = Append(s, m)
  OBVIOUS
<1>5. s \in Seq(Names) /\ d \in Nodes
  BY <1>1, <1>4, RootedPath
<1>6. p \in TheSpace!Free /\ p \in Seq(Names) /\ \A y \in Rooted : P[y] # p
  <2>1. Free(D, x, d, m)
    BY <1>1 DEF Free
  <2>2. x \in Living => P[x] # p
    BY <1>3 DEF Rooted
  <2>3. p = Append(P[d], m) /\ d \in Rooted /\ type[d] = "directory" /\ m \in Names
    BY <1>1, <1>4
  <2> HIDE <1>1
  <2> QED BY <2>1, <2>2, <2>3, PathFree
<1>7. PICK Q : Q = [P EXCEPT ![x] = p]
  OBVIOUS
<1>8. Q \in [Nodes -> Seq(Names)] /\ Q[x] = p /\ (\A y \in Nodes : y # x => Q[y] = P[y]) /\ \A y \in Rooted : Q[y] = P[y]
  BY <1>1, <1>3, <1>6, <1>7, PlacedFacts
<1>9. E[x] = d /\ name'[x] = m /\ type'[x] = kind
      /\ \A y \in Living : E[y] = D[y] /\ name'[y] = name[y] /\ y # x /\ D[y] \in Rooted
  <2>1. E = [D EXCEPT ![x] = d]
    BY <1>1, <1>2 DEF Gives
  <2>2. \A y \in Living : y \in Nodes /\ y # x /\ D[y] \in Rooted
    BY <1>3, PavedFacts DEF Rooted
  <2> QED BY <1>1, <1>2, <1>3, <2>1, <2>2
<1>10. Paved(E, Q)'
  <2>1. Q[Home] = <<>>
    BY <1>8 DEF Paved, Rooted
  <2>2. ASSUME NEW y \in Living PROVE Q[y] = Append(Q[E[y]], name'[y])
    <3>1. P[y] = Append(P[D[y]], name[y])
      BY DEF Paved
    <3>2. Q[y] = P[y] /\ Q[D[y]] = P[D[y]]
      BY <1>8, <1>9 DEF Rooted
    <3> QED BY <1>9, <3>1, <3>2
  <2>3. Q[x] = Append(Q[E[x]], name'[x])
    <3>1. Q[d] = s
      BY <1>1, <1>4, <1>8
    <3> QED BY <1>4, <1>8, <1>9, <3>1
  <2> QED BY <1>3, <1>8, <2>1, <2>2, <2>3 DEF Paved
<1>11. Mirrors(P) /\ Mirrors(Q)'
  BY <1>10, PavedMirrors, MirrorsAfter
<1>12. PICK T, U : T = TheTree /\ U = TheTree'
  OBVIOUS
<1>13. /\ U = [q \in DOMAIN U |-> U[q]]
       /\ \A q : q \in DOMAIN U <=> \E y \in Rooted' : q = Q[y]
       /\ \A y \in Rooted' : U[Q[y]] = type'[y]
       /\ TheCwd' = Q[cur] /\ cur \in Rooted /\ TheCwd = P[cur]
       /\ \A q : q \in DOMAIN T <=> \E y \in Rooted : q = P[y]
       /\ \A y \in Rooted : T[P[y]] = type[y]
  BY <1>1, <1>11, <1>12 DEF Mirrors
<1>14. \A q : q \in DOMAIN U <=> q \in DOMAIN T \cup {p}
  <2>1. ASSUME NEW q, q \in DOMAIN U PROVE q \in DOMAIN T \cup {p}
    <3>1. PICK y \in Rooted' : q = Q[y]
      BY <1>13, <2>1
    <3>2. CASE y = x
      BY <1>8, <3>1, <3>2
    <3>3. CASE y \in Rooted
      <4>1. q = P[y]
        BY <1>8, <3>1, <3>3
      <4> QED BY <1>13, <3>3, <4>1
    <3> QED BY <1>3, <3>2, <3>3
  <2>2. ASSUME NEW q, q \in DOMAIN T PROVE q \in DOMAIN U
    <3>1. PICK y \in Rooted : q = P[y]
      BY <1>13, <2>2
    <3>2. q = Q[y] /\ y \in Rooted'
      BY <1>3, <1>8, <3>1
    <3> QED BY <1>13, <3>2
  <2>3. p \in DOMAIN U
    BY <1>3, <1>8, <1>13
  <2> QED BY <2>1, <2>2, <2>3
<1>15. \A q \in DOMAIN U : U[q] = IF q = p THEN kind ELSE T[q]
  <2>1. ASSUME NEW y \in Rooted PROVE U[P[y]] = T[P[y]] /\ P[y] # p
    <3>1. y # x /\ y \in Nodes
      BY <1>3, RootedPath
    <3>2. type'[y] = type[y]
      BY <1>1, <1>2, <3>1
    <3>3. Q[y] = P[y] /\ y \in Rooted'
      BY <1>3, <1>8
    <3> QED BY <1>6, <1>13, <3>2, <3>3
  <2>2. U[p] = kind
    BY <1>3, <1>8, <1>9, <1>13
  <2> QED BY <1>13, <1>14, <2>1, <2>2
<1>16. U = [q \in DOMAIN T \cup {p} |-> IF q = p THEN kind ELSE T[q]]
  <2>1. DOMAIN U = DOMAIN T \cup {p}
    BY <1>14
  <2> QED BY <1>13, <1>15, <2>1
<1>17. TheCwd' = TheCwd
  BY <1>8, <1>13
<1>18. TheSpace!Enter(p, kind)
  BY <1>12, <1>16, <1>17, SpaceSteps
<1>19. TheSpace!Front(p) = P[d]
  BY <1>1, <1>4, <1>5, FrontOfPath
<1> QED BY <1>6, <1>10, <1>18, <1>19

\* A node that is removed is an entry that is.
LEMMA RemoveKeeps ==
    ASSUME TreeConstants, AnyInv, AnyInv', NEW D, Placed(D), NEW P, Paved(D, P), Placed(D)', NEW x, Removes(D, D, x)
    PROVE  Paved(D, P)' /\ \E p \in DOMAIN TheTree : TheSpace!RemoveFile(p)
<1>1. /\ x \in Living /\ D[x] = cur /\ type[x] = "file" /\ removed' = removed \cup {x}
      /\ UNCHANGED <<used, name, type, cur>>
  BY DEF Removes
<1>2. Living' = Living \ {x} /\ x # Home /\ Rooted' = Rooted \ {x}
  <2>1. Living' = Living \ {x} /\ x # Home
    BY <1>1, PlacedFacts DEF Living
  <2> QED BY <2>1 DEF Rooted
<1>3. Paved(D, P)'
  BY <1>1, <1>2 DEF Paved
<1>4. Mirrors(P) /\ Mirrors(P)'
  BY <1>3, PavedMirrors, MirrorsAfter
<1>5. PICK T, U, p : T = TheTree /\ U = TheTree' /\ p = P[x]
  OBVIOUS
<1>6. /\ U = [q \in DOMAIN U |-> U[q]]
      /\ \A q : q \in DOMAIN U <=> \E y \in Rooted' : q = P[y]
      /\ \A y \in Rooted' : U[P[y]] = type[y]
      /\ TheCwd' = P[cur] /\ TheCwd = P[cur]
      /\ \A q : q \in DOMAIN T <=> \E y \in Rooted : q = P[y]
      /\ \A y \in Rooted : T[P[y]] = type[y]
      /\ \A y, z \in Rooted : P[y] = P[z] => y = z
  BY <1>1, <1>4, <1>5 DEF Mirrors
<1>7. x \in Rooted
  BY <1>1 DEF Rooted
<1>8. DOMAIN U = DOMAIN T \ {p}
  <2>1. \A q : q \in DOMAIN U <=> q \in DOMAIN T \ {p}
    BY <1>2, <1>5, <1>6, <1>7
  <2> QED BY <2>1
<1>9. \A q \in DOMAIN U : U[q] = T[q]
  BY <1>2, <1>6
<1>10. U = [q \in DOMAIN T \ {p} |-> T[q]]
  BY <1>6, <1>8, <1>9
<1>11. p \in DOMAIN T /\ T[p] = "file"
  BY <1>1, <1>5, <1>6, <1>7
<1>12. TheSpace!Front(p) = TheCwd
  <2>1. PICK s, m : s = P[D[x]] /\ m = name[x]
    OBVIOUS
  <2>2. s \in Seq(Names) /\ m \in Names /\ p = Append(s, m)
    BY <1>1, <1>5, <2>1, PavedFacts
  <2> QED BY <1>1, <1>6, <2>1, <2>2, FrontOfPath
<1>13. TheSpace!RemoveFile(p)
  BY <1>5, <1>6, <1>10, <1>11, <1>12 DEF TheSpace!RemoveFile
<1> QED BY <1>3, <1>5, <1>11, <1>13

\* Where nothing happens to the nodes, nothing does to the entries.
LEMMA RestKeeps ==
    ASSUME TreeConstants, AnyInv, AnyInv', NEW D, Placed(D), NEW P, Paved(D, P), NEW E, Placed(E)', Rests(D, E)
    PROVE  /\ Paved(E, P)'
           /\ UNCHANGED <<TheTree, TheCwd>> \/ \E p \in DOMAIN TheTree : TheSpace!Change(p)
<1>1. E = D /\ UNCHANGED <<used, name, type, removed>> /\ (cur' = cur \/ type[cur'] = "directory")
  BY DEF Rests
<1>2. Living' = Living /\ Rooted' = Rooted
  BY <1>1 DEF Living, Rooted
<1>3. Paved(E, P)'
  BY <1>1, <1>2 DEF Paved
<1>4. Mirrors(P) /\ Mirrors(P)'
  BY <1>3, PavedMirrors, MirrorsAfter
<1>5. PICK T, U : T = TheTree /\ U = TheTree'
  OBVIOUS
<1>6. /\ U = [q \in DOMAIN U |-> U[q]] /\ T = [q \in DOMAIN T |-> T[q]]
      /\ \A q : q \in DOMAIN U <=> \E y \in Rooted : q = P[y]
      /\ \A y \in Rooted : U[P[y]] = type[y]
      /\ TheCwd' = P[cur'] /\ TheCwd = P[cur] /\ cur' \in Rooted
      /\ \A q : q \in DOMAIN T <=> \E y \in Rooted : q = P[y]
      /\ \A y \in Rooted : T[P[y]] = type[y]
  BY <1>1, <1>2, <1>4, <1>5 DEF Mirrors
<1>7. U = T
  <2>1. DOMAIN U = DOMAIN T
    <3>1. \A q : q \in DOMAIN U <=> q \in DOMAIN T
      BY <1>6
    <3> QED BY <3>1
  <2>2. \A q \in DOMAIN U : U[q] = T[q]
    BY <1>6
  <2> QED BY <1>6, <2>1, <2>2
<1>8. CASE cur' = cur
  <2>1. TheCwd' = TheCwd /\ TheTree' = TheTree
    BY <1>5, <1>6, <1>7, <1>8
  <2> QED BY <1>3, <2>1
<1>9. CASE type[cur'] = "directory"
  <2>1. PICK p : p = P[cur']
    OBVIOUS
  <2>2. p \in DOMAIN T /\ T[p] = "directory"
    BY <1>6, <1>9, <2>1
  <2>3. p \in TheSpace!Directories
    BY <1>5, <2>2, SpaceSteps
  <2>4. TheSpace!Change(p)
    BY <1>5, <1>6, <1>7, <2>1, <2>3 DEF TheSpace!Change
  <2> QED BY <1>3, <1>5, <2>2, <2>4
<1> QED BY <1>1, <1>8, <1>9

\* A node that is moved takes along what is below it.
LEMMA MoveKeeps ==
    ASSUME TreeConstants, AnyInv, AnyInv', NEW D, Placed(D), NEW P, Paved(D, P), NEW E, Placed(E)',
           NEW x, NEW d, NEW m, Moves(D, E, x, d, m)
    PROVE  \E Q : /\ Paved(E, Q)'
                  /\ \/ UNCHANGED <<TheTree, TheCwd>>
                     \/ \E s \in DOMAIN TheTree, p \in TheSpace!Free : TheSpace!Move(s, p)
<1>1. /\ x \in Living /\ d \in Rooted /\ type[d] = "directory" /\ m \in Names /\ d \notin Subtree(child, next, x)
      /\ \A y \in Living \ {x} : D[y] = d => name[y] # m
      /\ Gives(D, x, d, E) /\ name' = [name EXCEPT ![x] = m] /\ UNCHANGED <<used, type, cur, removed>>
      /\ D \in [Nodes -> Nodes] /\ P \in [Nodes -> Seq(Names)] /\ P[Home] = <<>>
      /\ name \in [Nodes -> Names \cup {"home"}]
  BY PlacedFacts DEF Moves, Placed, Paved
<1>2. Living' = Living /\ Rooted' = Rooted /\ x \in Rooted /\ x # Home /\ x \in Nodes
  <2>1. Living' = Living
    BY <1>1 DEF Living
  <2>2. x # Home /\ x \in Nodes
    BY <1>1, PlacedFacts
  <2> QED BY <1>1, <2>1, <2>2 DEF Rooted
<1>3. PICK s, t, p : s = P[x] /\ t = P[d] /\ p = Append(t, m)
  OBVIOUS
<1>4. s \in Seq(Names) /\ t \in Seq(Names) /\ p \in Seq(Names) /\ p # <<>> /\ s # <<>>
  <2>1. s \in Seq(Names) /\ t \in Seq(Names) /\ s # <<>>
    BY <1>1, <1>2, <1>3, RootedPath
  <2> QED BY <1>1, <1>3, <2>1, AppendProperties
<1>5. E[x] = d /\ name'[x] = m /\ \A y \in Living \ {x} : E[y] = D[y] /\ name'[y] = name[y]
  <2>1. E = [D EXCEPT ![x] = d] /\ \A y \in Living : y \in Nodes
    BY <1>1, PlacedFacts DEF Gives
  <2> QED BY <1>1, <1>2, <2>1
<1>6. CASE p = s
  <2>1. D[x] = d /\ name[x] = m
    <3>1. PICK q, k : q = P[D[x]] /\ k = name[x]
      OBVIOUS
    <3>2. q \in Seq(Names) /\ k \in Names /\ s = Append(q, k) /\ D[x] \in Rooted
      BY <1>1, <1>3, <3>1, PavedFacts
    <3>3. q = t /\ k = m
      <4>1. Append(q, k) = Append(t, m)
        BY <1>3, <1>6, <3>2
      <4> QED BY <1>1, <1>4, <3>2, <4>1, AppendInjective
    <3>4. PICK e : e = D[x]
      OBVIOUS
    <3>5. e \in Rooted /\ P[e] = P[d]
      BY <1>3, <3>1, <3>2, <3>3, <3>4
    <3>6. e = d
      BY <1>1, <3>5, PathIsOne
    <3> QED BY <3>1, <3>3, <3>4, <3>6
  <2>2. name' = name
    BY <1>1, <2>1
  <2>3. \A y \in Living : E[y] = D[y]
    BY <1>5, <2>1
  <2>4. Paved(E, P)'
    BY <1>1, <1>2, <2>2, <2>3 DEF Paved
  <2>5. Mirrors(P) /\ Mirrors(P)'
    BY <2>4, PavedMirrors, MirrorsAfter
  <2>6. PICK T, U : T = TheTree /\ U = TheTree'
    OBVIOUS
  <2>7. /\ U = [q \in DOMAIN U |-> U[q]] /\ T = [q \in DOMAIN T |-> T[q]]
        /\ \A q : q \in DOMAIN U <=> \E y \in Rooted : q = P[y]
        /\ \A y \in Rooted : U[P[y]] = type[y]
        /\ TheCwd' = P[cur] /\ TheCwd = P[cur]
        /\ \A q : q \in DOMAIN T <=> \E y \in Rooted : q = P[y]
        /\ \A y \in Rooted : T[P[y]] = type[y]
    BY <1>1, <1>2, <2>5, <2>6 DEF Mirrors
  <2>8. U = T
    <3>1. \A q : q \in DOMAIN U <=> q \in DOMAIN T
      BY <2>7
    <3>2. DOMAIN U = DOMAIN T
      BY <3>1
    <3>3. \A q \in DOMAIN U : U[q] = T[q]
      BY <2>7
    <3> QED BY <2>7, <3>2, <3>3
  <2> QED BY <2>4, <2>6, <2>7, <2>8
<1>7. CASE p # s
  <2> DEFINE R(q) == TheSpace!Rebased(q, s, p)
  <2>1. ~Under(s, t)
    BY <1>1, <1>2, <1>3, UnderBelow
  <2>2. ~TheSpace!IsPrefix(s, p)
    <3>1. ~Under(s, p)
      BY <1>1, <1>3, <1>4, <1>7, <2>1, UnderAppend
    <3> QED BY <1>4, <3>1, PrefixUnder
  <2>3. R(<<>>) = <<>> /\ R(t) = t /\ R(s) = p
    <3>1. PICK e : e = <<>>
      OBVIOUS
    <3>2. e \in Seq(Names) /\ s \o e = s /\ p \o e = p
      BY <1>4, <3>1, ConcatEmptySeq
    <3>3. ~Under(s, e)
      <4>1. SUFFICES ASSUME NEW u \in Seq(Names), s \o u = <<>> PROVE FALSE
        BY <3>1 DEF Under
      <4> QED BY <1>4, <4>1, ConcatEqualIffEmpty
    <3>4. TheSpace!Rebased(s \o e, s, p) = p \o e
      BY <1>4, <3>2, RebasedUnder
    <3>5. TheSpace!Rebased(e, s, p) = e /\ TheSpace!Rebased(t, s, p) = t
      BY <1>4, <2>1, <3>2, <3>3, RebasedNot
    <3> QED BY <3>1, <3>2, <3>4, <3>5
  <2>4. PICK Q : Q = [y \in Nodes |-> R(P[y])]
    OBVIOUS
  <2>5. \A y \in Nodes : Q[y] = R(P[y]) /\ P[y] \in Seq(Names)
    BY <1>1, <2>4
  <2>6. \A y \in Nodes : R(P[y]) \in Seq(Names)
    BY <1>4, <2>5, RebasedSeq
  <2> HIDE DEF R
  <2>7. Paved(E, Q)'
    <3>1. Q \in [Nodes -> Seq(Names)]
      BY <2>4, <2>6
    <3>2. Q[Home] = <<>>
      BY <1>1, <2>3, <2>5, PlacedFacts
    <3>3. Q[x] = Append(Q[E[x]], name'[x])
      <4>1. Q[x] = p /\ Q[d] = t
        BY <1>1, <1>2, <1>3, <2>3, <2>5, PlacedFacts
      <4> QED BY <1>3, <1>5, <4>1
    <3>4. ASSUME NEW y \in Living, y # x PROVE Q[y] = Append(Q[E[y]], name'[y])
      <4>1. PICK q, k : q = P[D[y]] /\ k = name[y]
        OBVIOUS
      <4>2. q \in Seq(Names) /\ k \in Names /\ P[y] = Append(q, k) /\ D[y] \in Nodes /\ y \in Nodes /\ y \in Rooted
        BY <4>1, PavedFacts
      <4>3. s # Append(q, k)
        BY <1>2, <1>3, <3>4, <4>2, PathIsOne
      <4>4. R(Append(q, k)) = Append(R(q), k)
        BY <1>4, <4>2, <4>3, RebasedAppend DEF R
      <4>5. Q[y] = R(Append(q, k)) /\ Q[D[y]] = R(q)
        BY <2>5, <4>1, <4>2
      <4>6. E[y] = D[y] /\ name'[y] = k
        BY <1>5, <3>4, <4>1
      <4> QED BY <4>4, <4>5, <4>6
    <3> QED BY <1>2, <3>1, <3>2, <3>3, <3>4 DEF Paved
  <2>8. Mirrors(P) /\ Mirrors(Q)'
    BY <2>7, PavedMirrors, MirrorsAfter
  <2>9. PICK T, U : T = TheTree /\ U = TheTree'
    OBVIOUS
  <2>10. /\ U = [q \in DOMAIN U |-> U[q]]
         /\ \A q : q \in DOMAIN U <=> \E y \in Rooted : q = Q[y]
         /\ \A y \in Rooted : U[Q[y]] = type[y]
         /\ TheCwd' = Q[cur] /\ TheCwd = P[cur] /\ cur \in Rooted
         /\ \A y, z \in Rooted : Q[y] = Q[z] => y = z
         /\ \A q : q \in DOMAIN T <=> \E y \in Rooted : q = P[y]
         /\ \A y \in Rooted : T[P[y]] = type[y]
    BY <1>1, <1>2, <2>8, <2>9 DEF Mirrors
  <2>11. \A y \in Rooted : Q[y] = R(P[y])
    BY <2>5, PlacedFacts
  <2>12. DOMAIN U = {R(z) : z \in DOMAIN T}
    <3>1. ASSUME NEW q \in DOMAIN U PROVE q \in {R(z) : z \in DOMAIN T}
      BY <2>10, <2>11
    <3>2. ASSUME NEW z \in DOMAIN T PROVE R(z) \in DOMAIN U
      BY <2>10, <2>11
    <3> QED BY <3>1, <3>2
  <2>13. ASSUME NEW q \in DOMAIN U PROVE U[q] = T[CHOOSE z \in DOMAIN T : R(z) = q]
    <3>1. PICK y \in Rooted : q = Q[y]
      BY <2>10
    <3>2. P[y] \in DOMAIN T /\ R(P[y]) = q
      BY <2>10, <2>11, <3>1
    <3>3. PICK z : z = CHOOSE w \in DOMAIN T : R(w) = q
      OBVIOUS
    <3>4. z \in DOMAIN T /\ R(z) = q
      BY <3>2, <3>3
    <3>5. PICK w \in Rooted : z = P[w]
      BY <2>10, <3>4
    <3>6. w = y
      BY <2>10, <2>11, <3>1, <3>4, <3>5
    <3>7. U[q] = T[z]
      BY <2>10, <3>1, <3>5, <3>6
    <3> QED BY <3>3, <3>7
  <2>14. U = [q \in {R(z) : z \in DOMAIN T} |-> T[CHOOSE z \in DOMAIN T : R(z) = q]]
    BY <2>10, <2>12, <2>13
  <2>15. TheCwd' = R(TheCwd)
    BY <2>10, <2>11
  <2>16. s \in DOMAIN TheTree
    BY <1>2, <1>3, <2>9, <2>10
  <2>17. p \in TheSpace!Free
    <3>1. p = Append(P[d], m) /\ (x \in Living => P[x] # p)
      BY <1>3, <1>7
    <3>2. d \in Rooted /\ type[d] = "directory" /\ m \in Names /\ Free(D, x, d, m)
      BY <1>1 DEF Free
    <3> HIDE <1>1
    <3> QED BY <3>1, <3>2, PathFree
  <2>18. TheSpace!Move(s, p)
    <3>1. s # TheSpace!Home
      BY <1>4 DEF TheSpace!Home
    <3>2. TheTree' = [q \in {TheSpace!Rebased(z, s, p) : z \in DOMAIN TheTree} |->
                        TheTree[CHOOSE z \in DOMAIN TheTree : TheSpace!Rebased(z, s, p) = q]]
      BY <2>9, <2>14 DEF R
    <3>3. TheCwd' = TheSpace!Rebased(TheCwd, s, p)
      BY <2>15 DEF R
    <3> QED BY <2>2, <3>1, <3>2, <3>3 DEF TheSpace!Move
  <2> QED BY <2>7, <2>16, <2>17, <2>18
<1> QED BY <1>6, <1>7

-----------------------------------------------------------------------------
(* NameTree implements NameSpace.                                          *)

PavedTree == AnyInv /\ \E D, P : Placed(D) /\ Paved(D, P)

LEMMA DoesKeeps ==
    ASSUME TreeConstants, AnyInv, AnyInv', NEW D, Placed(D), NEW P, Paved(D, P), NEW E, Placed(E)', Does(D, E)
    PROVE  PavedTree' /\ (TheSpace!Next \/ UNCHANGED TheSpace!vars)
<1>1. CASE Rests(D, E)
  <2>1. Paved(E, P)' /\ (UNCHANGED <<TheTree, TheCwd>> \/ \E p \in DOMAIN TheTree : TheSpace!Change(p))
    BY <1>1, RestKeeps
  <2> QED BY <2>1 DEF PavedTree, TheSpace!Next, TheSpace!vars
<1>2. ASSUME NEW m, NEW kind, Creates(D, E, cur, m, kind) PROVE PavedTree' /\ TheSpace!Next
  <2>1. PICK d : d = cur
    OBVIOUS
  <2>2. Creates(D, E, d, m, kind) /\ kind \in {"file", "directory"}
    BY <1>2, <2>1 DEF Creates
  <2>3. PICK Q : Paved(E, Q)' /\ \E p \in TheSpace!Free : TheSpace!Front(p) = P[d] /\ TheSpace!Enter(p, kind)
    BY <2>2, CreateKeeps
  <2>4. PICK p \in TheSpace!Free : TheSpace!Front(p) = P[d] /\ TheSpace!Enter(p, kind)
    BY <2>3
  <2>5. TheCwd = P[d]
    BY <2>1, PavedMirrors DEF Mirrors
  <2>6. TheSpace!MakeDirectory(p) \/ TheSpace!Create(p)
    BY <2>2, <2>4, <2>5 DEF TheSpace!MakeDirectory, TheSpace!Create
  <2> QED BY <2>3, <2>4, <2>6 DEF PavedTree, TheSpace!Next
<1>3. ASSUME NEW d, NEW m, Creates(D, E, d, m, "file"), NEW x \in Living, type[x] = "file"
      PROVE  PavedTree' /\ TheSpace!Next
  <2>1. PICK Q : Paved(E, Q)' /\ \E p \in TheSpace!Free : TheSpace!Front(p) = P[d] /\ TheSpace!Enter(p, "file")
    BY <1>3, CreateKeeps
  <2>2. PICK p \in TheSpace!Free : TheSpace!Enter(p, "file")
    BY <2>1
  <2>3. PICK s : s = P[x]
    OBVIOUS
  <2>4. s \in DOMAIN TheTree /\ TheTree[s] = "file"
    BY <1>3, <2>3, PavedMirrors DEF Mirrors, Rooted
  <2>5. TheSpace!Copy(s, p)
    BY <2>2, <2>4 DEF TheSpace!Copy
  <2> QED BY <2>1, <2>2, <2>4, <2>5 DEF PavedTree, TheSpace!Next
<1>4. ASSUME NEW x, Removes(D, E, x) PROVE PavedTree' /\ TheSpace!Next
  <2>1. E = D
    BY <1>4 DEF Removes
  <2>2. Placed(D)' /\ Removes(D, D, x)
    BY <1>4, <2>1
  <2>3. Paved(D, P)' /\ \E p \in DOMAIN TheTree : TheSpace!RemoveFile(p)
    BY <2>2, RemoveKeeps
  <2> QED BY <2>2, <2>3 DEF PavedTree, TheSpace!Next
<1>5. ASSUME NEW x, NEW d, NEW m, Moves(D, E, x, d, m)
      PROVE  PavedTree' /\ (TheSpace!Next \/ UNCHANGED TheSpace!vars)
  <2>1. PICK Q : /\ Paved(E, Q)'
                 /\ \/ UNCHANGED <<TheTree, TheCwd>>
                    \/ \E s \in DOMAIN TheTree, p \in TheSpace!Free : TheSpace!Move(s, p)
    BY <1>5, MoveKeeps
  <2> QED BY <2>1 DEF PavedTree, TheSpace!Next, TheSpace!vars
<1> QED BY <1>1, <1>2, <1>3, <1>4, <1>5 DEF Does

LEMMA NextKeeps ==
    ASSUME TreeConstants, Careful, PavedTree, [Next]_vars
    PROVE  PavedTree' /\ (TheSpace!Next \/ UNCHANGED TheSpace!vars)
<1>1. AnyInv /\ AnyInv'
  BY AnyNext DEF PavedTree
<1>2. PICK D, P : Placed(D) /\ Paved(D, P)
  BY DEF PavedTree
<1>3. PICK E : Placed(E)' /\ Does(D, E)
  BY <1>1, <1>2, NextDoes
<1> QED BY <1>1, <1>2, <1>3, DoesKeeps

LEMMA InitKeeps == ASSUME TreeConstants, Init PROVE PavedTree /\ TheSpace!Init
<1>1. Tree
  BY TreeInit
<1>2. PICK D : Placed(D)
  BY <1>1 DEF Tree
<1>3. AnyInv /\ Home \in Nodes /\ MaxNodes \in Nat
  BY <1>1, <1>2, PlacedFacts DEF Tree
<1>4. used = 0 /\ Living = {} /\ Rooted = {Home} /\ cur = Home /\ type[Home] = "directory"
  BY <1>3 DEF Init, Living, Rooted
<1>5. PICK e : e = <<>> /\ e \in Seq(Names)
  BY EmptySeq
<1>6. PICK P : P = [y \in Nodes |-> e]
  OBVIOUS
<1>7. Paved(D, P)
  BY <1>3, <1>4, <1>5, <1>6 DEF Paved
<1>8. Mirrors(P)
  BY <1>2, <1>3, <1>7, PavedMirrors
<1>9. P[Home] = e
  BY <1>3, <1>6
<1>10. DOMAIN TheTree = {e} /\ TheTree[e] = "directory" /\ TheCwd = e /\ TheTree = [q \in DOMAIN TheTree |-> TheTree[q]]
  <2>1. \A q : q \in DOMAIN TheTree <=> q = e
    BY <1>4, <1>8, <1>9 DEF Mirrors
  <2>2. DOMAIN TheTree = {e}
    BY <2>1
  <2> QED BY <1>4, <1>8, <1>9, <2>2 DEF Mirrors
<1>11. TheTree = [q \in {e} |-> "directory"]
  BY <1>10
<1>12. TheSpace!Init
  BY <1>5, <1>10, <1>11 DEF TheSpace!Init, TheSpace!Home
<1> QED BY <1>2, <1>3, <1>7, <1>12 DEF PavedTree

\* And a path means one thing: for a careful user the nodes with their
\* pointers are a tree of names with a current directory, and each handler
\* changes in it the one entry that its command names, or nothing.  mkdir,
\* tobigfs and cp enter a path that is free, rm removes the path of a file, and
\* mv moves a path with everything below it, and the current directory too.
THEOREM TreeKeepsNames == ASSUME Careful PROVE Spec => KeepsNames
<1>1. Init => PavedTree /\ TheSpace!Init
  BY InitKeeps, TreeConstantsOK
<1>2. PavedTree /\ [Next]_vars => PavedTree' /\ [TheSpace!Next]_(TheSpace!vars)
  BY NextKeeps, TreeConstantsOK
<1> QED BY <1>1, <1>2, PTL DEF Spec, KeepsNames, TheSpace!Spec

=============================================================================
