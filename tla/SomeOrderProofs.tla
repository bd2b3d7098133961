---------------------------- MODULE SomeOrderProofs ----------------------------
(***************************************************************************)
(* Resources keeps SomeInSomeOrder, for every value of its constants.      *)
(*                                                                         *)
(* ResourcesProofs has it that each cell of the maps, the entity of one    *)
(* kind under one name, goes from what is configured to what is stored by  *)
(* requests that were answered with OK.  Here those stories are put one    *)
(* after the other.  Topics and subscriptions need nothing but themselves, *)
(* so their names follow each other as they come.  A snapshot takes the    *)
(* topic of its subscription: each is finished while the subscription, on  *)
(* the way through its creations and deletions, has that topic.            *)
(***************************************************************************)
EXTENDS ResourcesProofs

-----------------------------------------------------------------------------
(* From what is explained to an order of requests, one more at a time.     *)

\* What holds of the empty set, and of a set with one more when it holds of
\* the set, holds of a finite set.
LEMMA OneByOne ==
  ASSUME NEW N, IsFiniteSet(N), NEW T \in SUBSET (SUBSET N), {} \in T,
         \A A \in T : \A x \in N \ A : A \cup {x} \in T
  PROVE  N \in T
<1> DEFINE n == Cardinality(N)
           C == {i \in 0 .. n : \E A \in T : Cardinality(A) = i}
<1>1. n \in Nat
  BY FS_CardinalityType
<1>2. 0 \in C
  BY <1>1, FS_EmptySet
<1>3. ASSUME NEW i \in 1 .. n, i - 1 \in C PROVE i \in C
  <2>1. PICK A \in T : Cardinality(A) = i - 1
    BY <1>3
  <2>2. IsFiniteSet(A)
    BY FS_Subset
  <2>3. A # N
    BY <1>1, <2>1
  <2>4. PICK x \in N : x \notin A
    BY <2>3
  <2>5. Cardinality(A \cup {x}) = Cardinality(A) + 1
    BY <2>2, <2>4, FS_AddElement
  <2>6. Cardinality(A \cup {x}) = i
    BY <1>1, <2>1, <2>5
  <2> QED  BY <2>4, <2>6
<1>4. n \in C
  <2> HIDE DEF C, n
  <2> QED  BY <1>1, <1>2, <1>3, FirstFailure
<1>5. PICK A \in T : Cardinality(A) = n
  BY <1>4
<1> QED  BY <1>5, FS_Subset

\* The maps m are what the requests X, each of them answered with OK, make of
\* what is configured when they run in some order.
Asking(w) == [i \in DOMAIN w |-> asked[w[i]]]
Reached(X, m) ==
  /\ X \in SUBSET Ok /\ AreMaps(m)
  /\ \E w, g : /\ w \in Seq(Ok) /\ Distinct(w) /\ Range(w) = X
               /\ g[0] = Configured /\ g[Len(w)] = m /\ Run(g, Asking(w), Len(w))

LEMMA ReachedFirst == ASSUME ConfiguredIsSound PROVE Reached({}, Configured)
<1> DEFINE g == [i \in {0} |-> Configured]
<1>1. g[0] = Configured /\ Len(<<>>) = 0 /\ Range(<<>>) = {}
  BY DEF Range
<1>2. Run(g, Asking(<<>>), 0) /\ Distinct(<<>>)
  BY DEF Run, Distinct
<1>3. <<>> \in Seq(Ok) /\ {} \in SUBSET Ok
  OBVIOUS
<1> HIDE DEF g, Ok
<1>4. \E w, h : /\ w \in Seq(Ok) /\ Distinct(w) /\ Range(w) = {}
                /\ h[0] = Configured /\ h[Len(w)] = Configured /\ Run(h, Asking(w), Len(w))
  BY <1>1, <1>2, <1>3
<1> QED  BY <1>3, <1>4 DEF Reached, ConfiguredIsSound

\* What one request does to the cells of the maps.
Same(m, m2, k, n) ==
  \A j \in Kind : \A l : j # k \/ l # n => Cell(m2[j], l) = Cell(m[j], l)

\* A request changes the cell of its name, as CellStep has it; a snapshot that
\* is created takes the topic of its subscription, or is not.
LEMMA AloneCells ==
  ASSUME NEW m, AreMaps(m), NEW q, q.kind \in Kind
  PROVE  /\ AreMaps(Alone(m, q)) /\ Same(m, Alone(m, q), q.kind, q.name)
         /\ \A c : c = Cell(m[q.kind], q.name) =>
              Cell(Alone(m, q)[q.kind], q.name) =
                IF q.kind = "snapshot" /\ q.op = "create" /\ c = {}
                THEN {Grown(q, e.topic) : e \in Cell(m["subscription"], q.value.sub)}
                ELSE CellStep(q, c, DeletedTopic)
<1> DEFINE k == q.kind
           n == q.name
           f == m[k]
           a == Alone(m, q)
<1>1. ASSUME NEW e
      PROVE  LET b == [m EXCEPT ![k] = With(@, n, e)]
             IN AreMaps(b) /\ Same(m, b, k, n) /\ Cell(b[k], n) = {e}
  <2> DEFINE b == [m EXCEPT ![k] = With(@, n, e)]
  <2>1. b = [j \in Kind |-> IF j = k THEN With(f, n, e) ELSE m[j]]
    BY DEF AreMaps
  <2>2. /\ With(f, n, e) = [x \in DOMAIN With(f, n, e) |-> With(f, n, e)[x]]
        /\ \A l : l # n => Cell(With(f, n, e), l) = Cell(f, l)
        /\ Cell(With(f, n, e), n) = {e}
    BY DEF With, Extended, Cell
  <2>3. b[k] = With(f, n, e) /\ \A j \in Kind : j # k => b[j] = m[j]
    BY <2>1
  <2>4. AreMaps(b)
    BY <2>1, <2>2 DEF AreMaps
  <2> HIDE DEF b
  <2>5. Same(m, b, k, n)
    BY <2>2, <2>3 DEF Same
  <2> QED  BY <2>2, <2>3, <2>4, <2>5 DEF b
<1>2. LET b == [m EXCEPT ![k] = Without(@, n)]
      IN AreMaps(b) /\ Same(m, b, k, n) /\ Cell(b[k], n) = {}
  <2> DEFINE b == [m EXCEPT ![k] = Without(@, n)]
  <2>1. b = [j \in Kind |-> IF j = k THEN Without(f, n) ELSE m[j]]
    BY DEF AreMaps
  <2>2. /\ Without(f, n) = [x \in DOMAIN Without(f, n) |-> Without(f, n)[x]]
        /\ \A l : l # n => Cell(Without(f, n), l) = Cell(f, l)
        /\ Cell(Without(f, n), n) = {}
    BY DEF Without, Cell
  <2>3. b[k] = Without(f, n) /\ \A j \in Kind : j # k => b[j] = m[j]
    BY <2>1
  <2>4. AreMaps(b)
    BY <2>1, <2>2 DEF AreMaps
  <2> HIDE DEF b
  <2>5. Same(m, b, k, n)
    BY <2>2, <2>3 DEF Same
  <2> QED  BY <2>2, <2>3, <2>4, <2>5 DEF b
<1>3. Same(m, m, k, n)
  BY DEF Same
<1> SUFFICES ASSUME NEW c, c = Cell(f, n)
             PROVE  /\ AreMaps(a) /\ Same(m, a, k, n)
                    /\ Cell(a[k], n) =
                         IF k = "snapshot" /\ q.op = "create" /\ c = {}
                         THEN {Grown(q, e.topic) : e \in Cell(m["subscription"], q.value.sub)}
                         ELSE CellStep(q, c, DeletedTopic)
  OBVIOUS
<1>4. c = {} <=> n \notin DOMAIN f
  BY DEF Cell
<1>5. c # {} => c = {f[n]} /\ The(c) = f[n]
  BY DEF Cell, The
<1>6. CASE q.op = "create" /\ c # {}
  <2>1. a = m
    BY <1>4, <1>6 DEF Alone
  <2> QED  BY <1>3, <1>6, <2>1 DEF CellStep
<1>7. CASE q.op = "create" /\ c = {} /\ k # "snapshot"
  <2>1. a = [m EXCEPT ![k] = With(@, n, Entity(k, q.value))]
    BY <1>4, <1>7 DEF Alone
  <2>2. CellStep(q, c, DeletedTopic) = {Entity(k, q.value)}
    BY <1>7 DEF CellStep, Grown
  <2> QED  BY <1>1, <1>7, <2>1, <2>2
<1>8. CASE q.op = "create" /\ c = {} /\ k = "snapshot"
  <2> DEFINE s == q.value.sub
             sub == m["subscription"]
  <2>1. CASE s \in DOMAIN sub
    <3>1. a = [m EXCEPT ![k] = With(@, n, SnapshotOf(Entity(k, q.value), sub[s]))]
      BY <1>4, <1>8, <2>1 DEF Alone
    <3>2. SnapshotOf(Entity(k, q.value), sub[s]) = Grown(q, sub[s].topic)
      BY <1>8 DEF SnapshotOf, Grown
    <3>3. Cell(sub, s) = {sub[s]}
      BY <2>1 DEF Cell
    <3>4. {Grown(q, e.topic) : e \in Cell(sub, s)} = {Grown(q, sub[s].topic)}
      BY <3>3
    <3> QED  BY <1>1, <1>8, <3>1, <3>2, <3>4
  <2>2. CASE s \notin DOMAIN sub
    <3>1. a = m
      BY <1>4, <1>8, <2>2 DEF Alone
    <3>2. Cell(sub, s) = {}
      BY <2>2 DEF Cell
    <3> QED  BY <1>3, <1>8, <3>1, <3>2
  <2> QED  BY <2>1, <2>2
<1>9. CASE q.op = "delete"
  <2>1. a = [m EXCEPT ![k] = Without(@, n)]
    BY <1>9 DEF Alone
  <2> QED  BY <1>2, <1>9, <2>1 DEF CellStep
<1>10. CASE q.op \notin {"create", "delete"}
  <2>1. CASE c = {}
    <3>1. a = m
      BY <1>4, <1>10, <2>1 DEF Alone
    <3> QED  BY <1>3, <1>10, <2>1, <3>1 DEF CellStep
  <2>2. CASE c # {}
    <3>1. a = [m EXCEPT ![k] = With(@, n, Change(q, f[n]))]
      BY <1>4, <1>10, <2>2 DEF Alone
    <3>2. CellStep(q, c, DeletedTopic) = {Change(q, f[n])}
      BY <1>5, <1>10, <2>2 DEF CellStep
    <3> QED  BY <1>1, <1>10, <3>1, <3>2
  <2> QED  BY <2>1, <2>2
<1> QED  BY <1>6, <1>7, <1>8, <1>9, <1>10

\* One more request at the end.
LEMMA ReachedMore ==
  ASSUME NEW X, NEW m, Reached(X, m), NEW r \in Ok, r \notin X, asked[r].kind \in Kind
  PROVE  Reached(X \cup {r}, Alone(m, asked[r]))
<1>1. PICK w, g : /\ w \in Seq(Ok) /\ Distinct(w) /\ Range(w) = X
                  /\ g[0] = Configured /\ g[Len(w)] = m /\ Run(g, Asking(w), Len(w))
  BY DEF Reached
<1>2. PICK l \in Nat : l = Len(w)
  BY <1>1
<1> DEFINE v == Append(w, r)
           d == Alone(m, asked[r])
           h == [i \in 0 .. l + 1 |-> IF i = l + 1 THEN d ELSE g[i]]
<1>3. /\ Len(v) = l + 1 /\ v[l + 1] = r /\ DOMAIN v = 1 .. l + 1 /\ DOMAIN w = 1 .. l
      /\ v \in Seq(Ok) /\ \A i \in 1 .. l : v[i] = w[i]
  <2> HIDE DEF Ok
  <2> QED  BY <1>1, <1>2
<1> HIDE DEF v
<1>4. Range(v) = X \cup {r}
  BY <1>1, <1>3 DEF Range
<1>5. Distinct(v)
  <2>1. \A i \in 1 .. l : w[i] # r
    BY <1>1, <1>3 DEF Range
  <2> QED  BY <1>1, <1>2, <1>3, <2>1 DEF Distinct
<1>6. h[0] = Configured /\ h[l + 1] = d
  BY <1>1, <1>2
<1>7. ASSUME NEW i \in 1 .. l + 1 PROVE h[i] = Alone(h[i - 1], Asking(v)[i])
  <2>1. Asking(v)[i] = asked[v[i]]
    BY <1>3 DEF Asking
  <2>2. CASE i \in 1 .. l
    <3>1. h[i] = g[i] /\ h[i - 1] = g[i - 1] /\ Asking(w)[i] = asked[v[i]]
      BY <1>3, <2>2 DEF Asking
    <3> QED  BY <1>1, <1>2, <2>1, <2>2, <3>1 DEF Run
  <2>3. CASE i = l + 1
    <3>1. i - 1 = l /\ l \in 0 .. l + 1 /\ l # l + 1
      BY <2>3
    <3>2. h[i - 1] = m /\ h[i] = d
      BY <1>1, <1>2, <2>3, <3>1
    <3> QED  BY <1>3, <2>1, <2>3, <3>2
  <2> QED  BY <2>2, <2>3
<1> HIDE DEF h
<1>8. Run(h, Asking(v), l + 1)
  BY <1>7 DEF Run
<1>9. AreMaps(d) /\ X \cup {r} \in SUBSET Ok
  BY AloneCells DEF Reached
<1> QED  BY <1>3, <1>4, <1>5, <1>6, <1>8, <1>9 DEF Reached

\* Such maps are what After makes of one of the sequences of X.
LEMMA ReachedInOrder ==
  ASSUME NEW X, NEW m, Reached(X, m)
  PROVE  \E order \in SetToSeqs(X) : After(Configured, order) = m
<1>1. PICK w, g : /\ w \in Seq(Ok) /\ Distinct(w) /\ Range(w) = X
                  /\ g[0] = Configured /\ g[Len(w)] = m /\ Run(g, Asking(w), Len(w))
  BY DEF Reached
<1>2. PICK l \in Nat : l = Len(w)
  BY <1>1
<1>3. DOMAIN w = 1 .. l /\ w = [i \in 1 .. l |-> w[i]]
  <2> HIDE DEF Ok
  <2> QED  BY <1>1, <1>2
<1>4. After(Configured, w) = m
  <2>1. DOMAIN Asking(w) = 1 .. l
    BY <1>3 DEF Asking
  <2>2. FoldLeft(Alone, g[0], Asking(w)) = g[l]
    BY <1>1, <1>2, <2>1, RunEndsThere
  <2> QED  BY <1>1, <1>2, <2>2 DEF After, Asking
<1>5. w \in [1 .. l -> X]
  BY <1>1, <1>3 DEF Range
<1>6. Cardinality(X) = l
  <2>1. w \in Bijection(1 .. l, X)
    <3>1. IsInjective(w)
      BY <1>1, <1>2, <1>3 DEF Distinct, IsInjective
    <3>2. \A x \in X : \E i \in 1 .. l : w[i] = x
      BY <1>1, <1>3 DEF Range
    <3> QED  BY <1>5, <3>1, <3>2 DEF Bijection, Injection, Surjection
  <2>2. ExistsBijection(1 .. l, X)
    BY <2>1 DEF ExistsBijection
  <2> QED  BY <2>2, FS_CountingElements
<1>7. w \in SetToSeqs(X)
  BY <1>1, <1>2, <1>5, <1>6 DEF SetToSeqs, Distinct
<1> QED  BY <1>4, <1>7

-----------------------------------------------------------------------------
(* The requests of one name.                                               *)

Part(w, a, b) == {w[j] : j \in a + 1 .. b}

LEMMA SameAgain ==
  ASSUME NEW m, NEW m1, NEW m2, NEW k, NEW n, Same(m, m1, k, n), Same(m1, m2, k, n)
  PROVE  Same(m, m2, k, n)
BY DEF Same

\* The next request of a name at the end.
LEMMA StepOn ==
  ASSUME EInv, NEW X, NEW m, NEW k \in Kind, NEW n, NEW w \in Seq(OkOf(k, n)), Distinct(w),
         NEW a \in Nat, NEW i \in 1 .. Len(w), a < i,
         X \cap Part(w, a, i) = {}, Reached(X \cup Part(w, a, i - 1), m)
  PROVE  /\ asked[w[i]].kind = k /\ asked[w[i]].name = n
         /\ Reached(X \cup Part(w, a, i), Alone(m, asked[w[i]]))
<1>1. PICK l \in Nat : l = Len(w)
  OBVIOUS
<1>2. w[i] \in OkOf(k, n)
  <2> HIDE DEF OkOf
  <2> QED  OBVIOUS
<1>3. w[i] \in Ok /\ asked[w[i]].kind = k /\ asked[w[i]].name = n
  BY <1>2 DEF OkOf
<1>4. a + 1 .. i = (a + 1 .. i - 1) \cup {i}
  BY <1>1
<1>5. Part(w, a, i) = Part(w, a, i - 1) \cup {w[i]}
  BY <1>4 DEF Part
<1>6. w[i] \notin Part(w, a, i - 1)
  <2>1. \A j \in a + 1 .. i - 1 : j \in 1 .. Len(w) /\ j # i
    BY <1>1
  <2> QED  BY <2>1 DEF Part, Distinct
<1>7. w[i] \notin X
  BY <1>5
<1> QED
  <2> DEFINE Y == X \cup Part(w, a, i - 1)
  <2>1. w[i] \notin Y /\ X \cup Part(w, a, i) = Y \cup {w[i]}
    BY <1>5, <1>6, <1>7
  <2> HIDE DEF Y, Ok, OkOf
  <2>2. Reached(Y, m)
    BY DEF Y
  <2> QED  BY <1>3, <2>1, <2>2, ReachedMore

\* The cell goes by h, and snapshots find in m the topics t.
Follows(w, a, b, h, t, k, m) ==
  \A i \in a + 1 .. b :
    /\ h[i] = CellStep(asked[w[i]], h[i - 1], t[i])
    /\ k = "snapshot" /\ asked[w[i]].op = "create" /\ h[i - 1] = {} =>
         {Grown(asked[w[i]], e.topic) : e \in Cell(m["subscription"], asked[w[i]].value.sub)}
           = {Grown(asked[w[i]], t[i])}

\* When they run one after the other, each snapshot with its topic at hand,
\* the cell of the name goes as it did.
LEMMA Walk ==
  ASSUME EInv, NEW X, NEW m, Reached(X, m),
         NEW k \in Kind, NEW n, NEW w \in Seq(OkOf(k, n)), Distinct(w),
         NEW a \in Nat, NEW b \in Nat, a <= b, b <= Len(w), X \cap Part(w, a, b) = {},
         NEW h, NEW t, Cell(m[k], n) = h[a],
         Follows(w, a, b, h, t, k, m)
  PROVE  \E m2 : /\ Reached(X \cup Part(w, a, b), m2)
                 /\ Cell(m2[k], n) = h[b] /\ Same(m, m2, k, n)
<1> DEFINE Good(i) == \E m2 : /\ Reached(X \cup Part(w, a, i), m2)
                              /\ Cell(m2[k], n) = h[i] /\ Same(m, m2, k, n)
           T == {i \in 0 .. b : a <= i => Good(i)}
<1>1. PICK l \in Nat : l = Len(w)
  OBVIOUS
<1>2. Good(a)
  <2>1. Part(w, a, a) = {}
    BY DEF Part
  <2>2. X \cup Part(w, a, a) = X /\ Same(m, m, k, n)
    BY <2>1 DEF Same
  <2> QED  BY <2>2
<1>3. 0 \in T
  <2> HIDE DEF Good
  <2> QED  BY <1>2
<1>4. ASSUME NEW i \in 1 .. b, i - 1 \in T PROVE i \in T
  <2>1. CASE a >= i
    <3> HIDE DEF Good
    <3> QED  BY <1>2, <2>1
  <2>2. CASE a < i
    <3>1. Good(i - 1)
      <4> HIDE DEF Good
      <4> QED  BY <1>4, <2>2
    <3>2. PICK m1 : /\ Reached(X \cup Part(w, a, i - 1), m1)
                    /\ Cell(m1[k], n) = h[i - 1] /\ Same(m, m1, k, n)
      BY <3>1
    <3>3. i \in 1 .. Len(w) /\ i \in a + 1 .. b
      BY <1>1, <2>2
    <3>4. X \cap Part(w, a, i) = {}
      <4>1. Part(w, a, i) \subseteq Part(w, a, b)
        BY DEF Part
      <4> QED  BY <4>1
    <3>5. PICK q : q = asked[w[i]]
      OBVIOUS
    <3> DEFINE m2 == Alone(m1, q)
    <3>6. q.kind = k /\ q.name = n /\ Reached(X \cup Part(w, a, i), m2)
      <4> HIDE DEF OkOf
      <4>1. /\ asked[w[i]].kind = k /\ asked[w[i]].name = n
            /\ Reached(X \cup Part(w, a, i), Alone(m1, asked[w[i]]))
        BY <2>2, <3>2, <3>3, <3>4, StepOn
      <4> QED  BY <3>5, <4>1
    <3>7. AreMaps(m1)
      BY <3>2 DEF Reached
    <3>8. /\ Same(m1, m2, k, n)
          /\ \A c : c = Cell(m1[k], n) =>
               Cell(m2[k], n) =
                 IF k = "snapshot" /\ q.op = "create" /\ c = {}
                 THEN {Grown(q, e.topic) : e \in Cell(m1["subscription"], q.value.sub)}
                 ELSE CellStep(q, c, DeletedTopic)
      <4>1. q.kind \in Kind
        BY <3>6
      <4> HIDE DEF m2
      <4>2. /\ Same(m1, Alone(m1, q), q.kind, q.name)
            /\ \A c : c = Cell(m1[q.kind], q.name) =>
                 Cell(Alone(m1, q)[q.kind], q.name) =
                   IF q.kind = "snapshot" /\ q.op = "create" /\ c = {}
                   THEN {Grown(q, e.topic) : e \in Cell(m1["subscription"], q.value.sub)}
                   ELSE CellStep(q, c, DeletedTopic)
        BY <3>7, <4>1, AloneCells
      <4> QED  BY <3>6, <4>2 DEF m2
    <3>9. Cell(m2[k], n) = h[i]
      <4>1. h[i] = CellStep(q, h[i - 1], t[i])
        BY <3>3, <3>5 DEF Follows
      <4>2. CASE k = "snapshot" /\ q.op = "create" /\ h[i - 1] = {}
        <5>1. Cell(m1["subscription"], q.value.sub) = Cell(m["subscription"], q.value.sub)
          BY <3>2, <4>2 DEF Same, Kind
        <5>2. {Grown(q, e.topic) : e \in Cell(m["subscription"], q.value.sub)}
                = {Grown(q, t[i])}
          BY <3>3, <3>5, <4>2 DEF Follows
        <5>3. h[i] = {Grown(q, t[i])}
          BY <4>1, <4>2 DEF CellStep
        <5> HIDE DEF m2
        <5> QED  BY <3>2, <3>8, <4>2, <5>1, <5>2, <5>3
      <4>3. CASE ~(k = "snapshot" /\ q.op = "create" /\ h[i - 1] = {})
        <5>1. Cell(m2[k], n) = CellStep(q, h[i - 1], DeletedTopic)
          <6> HIDE DEF m2
          <6> QED  BY <3>2, <3>8, <4>3
        <5>2. CellStep(q, h[i - 1], DeletedTopic) = CellStep(q, h[i - 1], t[i])
          BY <3>6, <4>3 DEF CellStep, Grown
        <5> QED  BY <4>1, <5>1, <5>2
      <4> QED  BY <4>2, <4>3
    <3>10. Same(m, m2, k, n)
      BY <3>2, <3>8, SameAgain
    <3>11. Good(i)
      BY <3>6, <3>9, <3>10
    <3> HIDE DEF Good
    <3> QED  BY <3>11
  <2> HIDE DEF T
  <2> QED  BY <2>1, <2>2
<1>5. b \in T
  <2> HIDE DEF T
  <2> QED  BY <1>3, <1>4, FirstFailure
<1> QED  BY <1>5

Goes(w, b, h, t) == \A i \in 1 .. b : h[i] = CellStep(asked[w[i]], h[i - 1], t[i])

\* Where a name was gone it is gone, whatever its creations have met before.
LEMMA WalkAway ==
  ASSUME EInv, NEW X, NEW m, Reached(X, m),
         NEW n, NEW w \in Seq(OkOf("snapshot", n)), Distinct(w),
         NEW b \in Nat, b <= Len(w), X \cap Part(w, 0, b) = {},
         NEW h, NEW t, h[b] = {}, Cell(m["snapshot"], n) = {}, Goes(w, b, h, t)
  PROVE  \E m2 : /\ Reached(X \cup Part(w, 0, b), m2)
                 /\ Cell(m2["snapshot"], n) = {} /\ Same(m, m2, "snapshot", n)
<1> DEFINE Good(i) == \E m2 : /\ Reached(X \cup Part(w, 0, i), m2)
                              /\ h[i] = {} => Cell(m2["snapshot"], n) = {}
                              /\ Same(m, m2, "snapshot", n)
           T == {i \in 0 .. b : Good(i)}
<1>1. PICK l \in Nat : l = Len(w)
  OBVIOUS
<1>2. Good(0)
  <2>1. Part(w, 0, 0) = {}
    BY DEF Part
  <2>2. X \cup Part(w, 0, 0) = X /\ Same(m, m, "snapshot", n)
    BY <2>1 DEF Same
  <2> QED  BY <2>2
<1>3. 0 \in T
  <2> HIDE DEF Good
  <2> QED  BY <1>2
<1>4. ASSUME NEW i \in 1 .. b, i - 1 \in T PROVE i \in T
  <2>1. PICK m1 : /\ Reached(X \cup Part(w, 0, i - 1), m1)
                  /\ h[i - 1] = {} => Cell(m1["snapshot"], n) = {}
                  /\ Same(m, m1, "snapshot", n)
    BY <1>4
  <2>2. i \in 1 .. Len(w) /\ 0 < i
    BY <1>1
  <2>3. X \cap Part(w, 0, i) = {}
    <3>1. Part(w, 0, i) \subseteq Part(w, 0, b)
      BY DEF Part
    <3> QED  BY <3>1
  <2>4. PICK q : q = asked[w[i]]
    OBVIOUS
  <2> DEFINE m2 == Alone(m1, q)
  <2>5. q.kind = "snapshot" /\ q.name = n /\ Reached(X \cup Part(w, 0, i), m2)
    <3>1. "snapshot" \in Kind /\ 0 \in Nat
      BY DEF Kind
    <3> HIDE DEF OkOf
    <3>2. /\ asked[w[i]].kind = "snapshot" /\ asked[w[i]].name = n
          /\ Reached(X \cup Part(w, 0, i), Alone(m1, asked[w[i]]))
      BY <2>1, <2>2, <2>3, <3>1, StepOn
    <3> QED  BY <2>4, <3>2
  <2>6. AreMaps(m1)
    BY <2>1 DEF Reached
  <2>7. /\ Same(m1, m2, "snapshot", n)
        /\ \A c : c = Cell(m1["snapshot"], n) =>
             Cell(m2["snapshot"], n) =
               IF q.op = "create" /\ c = {}
               THEN {Grown(q, e.topic) : e \in Cell(m1["subscription"], q.value.sub)}
               ELSE CellStep(q, c, DeletedTopic)
    <3>1. q.kind \in Kind
      BY <2>5 DEF Kind
    <3> HIDE DEF m2
    <3>2. /\ Same(m1, Alone(m1, q), q.kind, q.name)
          /\ \A c : c = Cell(m1[q.kind], q.name) =>
               Cell(Alone(m1, q)[q.kind], q.name) =
                 IF q.kind = "snapshot" /\ q.op = "create" /\ c = {}
                 THEN {Grown(q, e.topic) : e \in Cell(m1["subscription"], q.value.sub)}
                 ELSE CellStep(q, c, DeletedTopic)
      BY <2>6, <3>1, AloneCells
    <3> QED  BY <2>5, <3>2 DEF m2
  <2>8. ASSUME h[i] = {} PROVE Cell(m2["snapshot"], n) = {}
    <3>1. h[i] = CellStep(q, h[i - 1], t[i])
      BY <2>4 DEF Goes
    <3>2. q.op # "create"
      BY <2>8, <3>1 DEF CellStep
    <3>3. Cell(m2["snapshot"], n) = CellStep(q, Cell(m1["snapshot"], n), DeletedTopic)
      BY <2>7, <3>2
    <3>4. q.op = "delete" \/ h[i - 1] = {}
      BY <2>8, <3>1, <3>2 DEF CellStep
    <3> QED  BY <2>1, <3>2, <3>3, <3>4 DEF CellStep
  <2>9. Same(m, m2, "snapshot", n)
    BY <2>1, <2>7, SameAgain
  <2> QED  BY <2>5, <2>8, <2>9
<1>5. b \in T
  <2> HIDE DEF T
  <2> QED  BY <1>3, <1>4, FirstFailure
<1> QED  BY <1>5

-----------------------------------------------------------------------------
(* Topics and subscriptions: one name after the other.                     *)

LEMMA CellsMakeMaps ==
  ASSUME NEW f, NEW g, f = [n \in DOMAIN f |-> f[n]], g = [n \in DOMAIN g |-> g[n]],
         \A n : Cell(f, n) = Cell(g, n)
  PROVE  f = g
<1>1. \A n : (n \in DOMAIN f <=> n \in DOMAIN g) /\ (n \in DOMAIN f => f[n] = g[n])
  BY SameCell
<1>2. DOMAIN f = DOMAIN g
  BY <1>1
<1> QED  BY <1>1, <1>2

InSomeOrder(k) ==
  \E some \in SUBSET Ok : \E order \in SetToSeqs(some) :
    Ok \ crowded \subseteq some /\ stored[k] = After(Configured, order)[k]

\* When the requests of a kind have run, the others follow.
LEMMA TheRestFollows ==
  ASSUME EInv, NEW k \in Kind, NEW X, NEW m, Reached(X, m),
         \A n : Cell(m[k], n) = Cell(stored[k], n),
         \A r \in Ok \ crowded : asked[r].kind = k => r \in X
  PROVE  InSomeOrder(k)
<1> DEFINE Rest == (Ok \ crowded) \ X
           Good(A) == \E m2 : /\ Reached(X \cup A, m2)
                              /\ \A n : Cell(m2[k], n) = Cell(stored[k], n)
           T == {A \in SUBSET Rest : Good(A)}
<1>1. IsFiniteSet(Rest)
  <2> HIDE DEF Ok
  <2> QED  BY FS_Subset DEF EInv
<1>2. {} \in T
  <2>1. X \cup {} = X
    OBVIOUS
  <2> QED  BY <2>1
<1>3. ASSUME NEW A \in T, NEW r \in Rest \ A PROVE A \cup {r} \in T
  <2>1. Good(A)
    <3> HIDE DEF Good
    <3> QED  OBVIOUS
  <2>2. PICK m1 : /\ Reached(X \cup A, m1)
                  /\ \A n : Cell(m1[k], n) = Cell(stored[k], n)
    BY <2>1
  <2>3. PICK q : q = asked[r]
    OBVIOUS
  <2>4. q.kind \in Kind /\ q.kind # k /\ r \in Ok /\ AreMaps(m1)
    BY <2>2, <2>3, PlanIsSound DEF EInv, IInv, Reached, Ok
  <2> DEFINE m2 == Alone(m1, q)
             Y == X \cup A
  <2>5. Reached(Y \cup {r}, m2)
    <3>1. r \notin Y /\ Reached(Y, m1)
      BY <2>2
    <3> HIDE DEF Ok, Y
    <3>2. Reached(Y \cup {r}, Alone(m1, asked[r]))
      BY <2>3, <2>4, <3>1, ReachedMore
    <3> QED  BY <2>3, <3>2
  <2>6. Y \cup {r} = X \cup (A \cup {r})
    OBVIOUS
  <2>7. Same(m1, m2, q.kind, q.name)
    BY <2>4, AloneCells
  <2>8. \A n : Cell(m2[k], n) = Cell(stored[k], n)
    <3> HIDE DEF m2
    <3> QED  BY <2>2, <2>4, <2>7 DEF Same
  <2>9. Good(A \cup {r})
    <3> HIDE DEF m2, Y
    <3> QED  BY <2>5, <2>6, <2>8
  <2> HIDE DEF Good
  <2> QED  BY <2>9
<1>4. Rest \in T
  <2> HIDE DEF Good, Rest
  <2> QED  BY <1>1, <1>2, <1>3, OneByOne
<1>5. PICK m2 : /\ Reached(X \cup Rest, m2)
                /\ \A n : Cell(m2[k], n) = Cell(stored[k], n)
  BY <1>4
<1>6. stored[k] = m2[k]
  BY <1>5, CellsMakeMaps DEF Reached, EInv, AreMaps
<1>7. PICK order \in SetToSeqs(X \cup Rest) : After(Configured, order) = m2
  <2> HIDE DEF Rest
  <2> QED  BY <1>5, ReachedInOrder
<1>8. X \cup Rest \in SUBSET Ok /\ Ok \ crowded \subseteq X \cup Rest
  BY <1>5 DEF Reached
<1> HIDE DEF Rest, Ok
<1> QED  BY <1>6, <1>7, <1>8 DEF InSomeOrder

NamesOf(k) == {asked[r].name : r \in {x \in Ok : asked[x].kind = k}}

LEMMA NamesAreFinite == ASSUME EInv, NEW k PROVE IsFiniteSet(NamesOf(k))
<1> DEFINE D == {x \in Ok : asked[x].kind = k}
           f == [r \in D |-> asked[r].name]
<1>1. IsFiniteSet(D)
  <2> HIDE DEF Ok
  <2> QED  BY FS_Subset DEF EInv
<1>2. f \in Surjection(D, NamesOf(k))
  BY DEF Surjection, NamesOf
<1> HIDE DEF D, f
<1> QED  BY <1>1, <1>2, FS_Surjection

\* A name of which no request was answered with OK has what is configured.
LEMMA ConfiguredElse ==
  ASSUME EInv, phase = "serving", NEW k \in Kind, NEW n, n \notin NamesOf(k)
  PROVE  Cell(stored[k], n) = Cell(Configured[k], n)
<1>1. OkOf(k, n) = {}
  BY DEF OkOf, NamesOf
<1>2. PICK w, t : Explains(w, t, k, n, Cell(stored[k], n))
  BY DEF EInv, Serving, StoredIsExplained, Explained
<1>3. w \in Seq({})
  BY <1>1, <1>2 DEF Explains
<1>4. Len(w) = 0
  BY <1>3
<1> QED  BY <1>2, <1>4 DEF Explains, CellRun

\* The requests of one more name that are part of its story.
LEMMA OneNameMore ==
  ASSUME EInv, phase = "serving", NEW k \in Kind, k # "snapshot", NEW n, NEW X, NEW m,
         Reached(X, m), X \cap OkOf(k, n) = {}, Cell(m[k], n) = Cell(Configured[k], n)
  PROVE  \E X2, m2 : /\ Reached(X2, m2) /\ X \subseteq X2 /\ X2 \subseteq X \cup OkOf(k, n)
                     /\ OkOf(k, n) \ crowded \subseteq X2
                     /\ Cell(m2[k], n) = Cell(stored[k], n) /\ Same(m, m2, k, n)
<1>1. PICK w, t : Explains(w, t, k, n, Cell(stored[k], n))
  BY DEF EInv, Serving, StoredIsExplained, Explained
<1>2. PICK h : /\ h[0] = Cell(Configured[k], n) /\ h[Len(w)] = Cell(stored[k], n)
               /\ \A i \in 1 .. Len(w) : h[i] = CellStep(asked[w[i]], h[i - 1], t[i])
  BY <1>1 DEF Explains, CellRun
<1>3. /\ w \in Seq(OkOf(k, n)) /\ Distinct(w)
      /\ OkOf(k, n) \ crowded \subseteq Range(w)
  BY <1>1 DEF Explains
<1>4. PICK l \in Nat : l = Len(w)
  BY <1>3
<1>5. Part(w, 0, l) = Range(w) /\ Range(w) \subseteq OkOf(k, n)
  <2> HIDE DEF OkOf
  <2>1. DOMAIN w = 1 .. l /\ \A i \in 1 .. l : w[i] \in OkOf(k, n)
    BY <1>3, <1>4
  <2> QED  BY <2>1 DEF Part, Range
<1>6. X \cap Part(w, 0, l) = {}
  BY <1>5
<1>7. PICK m2 : /\ Reached(X \cup Part(w, 0, l), m2)
                /\ Cell(m2[k], n) = h[l] /\ Same(m, m2, k, n)
  <2>1. 0 \in Nat /\ 0 <= l /\ l <= Len(w) /\ Cell(m[k], n) = h[0]
    BY <1>2, <1>4
  <2>2. Follows(w, 0, l, h, t, k, m)
    BY <1>2, <1>4 DEF Follows
  <2> HIDE DEF OkOf
  <2> QED  BY <1>3, <1>6, <2>1, <2>2, Walk
<1> QED
  <2> DEFINE X2 == X \cup Part(w, 0, l)
  <2>1. X \subseteq X2 /\ X2 \subseteq X \cup OkOf(k, n) /\ OkOf(k, n) \ crowded \subseteq X2
    BY <1>3, <1>5
  <2>2. Reached(X2, m2) /\ Cell(m2[k], n) = Cell(stored[k], n) /\ Same(m, m2, k, n)
    BY <1>2, <1>4, <1>7
  <2> HIDE DEF X2
  <2> QED  BY <2>1, <2>2

\* So the topics are the work of a sequence, and the subscriptions are.
LEMMA NamesInSomeOrder ==
  ASSUME EInv, phase = "serving", NEW k \in Kind, k # "snapshot"
  PROVE  InSomeOrder(k)
<1> DEFINE N == NamesOf(k)
           Good(A) ==
             \E X, m : /\ Reached(X, m)
                       /\ \A r \in X : asked[r].kind = k /\ asked[r].name \in A
                       /\ \A r \in Ok \ crowded :
                            asked[r].kind = k /\ asked[r].name \in A => r \in X
                       /\ \A n \in A : Cell(m[k], n) = Cell(stored[k], n)
                       /\ \A n : n \notin A => Cell(m[k], n) = Cell(Configured[k], n)
           T == {A \in SUBSET N : Good(A)}
<1>1. {} \in T
  <2>1. Reached({}, Configured)
    BY ReachedFirst DEF EInv, Serving
  <2>2. Good({})
    BY <2>1
  <2> HIDE DEF Good
  <2> QED  BY <2>2
<1>2. ASSUME NEW A \in T, NEW n \in N \ A PROVE A \cup {n} \in T
  <2>1. Good(A)
    <3> HIDE DEF Good
    <3> QED  OBVIOUS
  <2>2. PICK X, m : /\ Reached(X, m)
                    /\ \A r \in X : asked[r].kind = k /\ asked[r].name \in A
                    /\ \A r \in Ok \ crowded :
                         asked[r].kind = k /\ asked[r].name \in A => r \in X
                    /\ \A l \in A : Cell(m[k], l) = Cell(stored[k], l)
                    /\ \A l : l \notin A => Cell(m[k], l) = Cell(Configured[k], l)
    BY <2>1
  <2>3. X \cap OkOf(k, n) = {} /\ Cell(m[k], n) = Cell(Configured[k], n)
    BY <2>2 DEF OkOf
  <2>4. PICK X2, m2 : /\ Reached(X2, m2) /\ X \subseteq X2 /\ X2 \subseteq X \cup OkOf(k, n)
                      /\ OkOf(k, n) \ crowded \subseteq X2
                      /\ Cell(m2[k], n) = Cell(stored[k], n) /\ Same(m, m2, k, n)
    <3> HIDE DEF OkOf
    <3> QED  BY <2>2, <2>3, OneNameMore
  <2>5. \A r \in X2 : asked[r].kind = k /\ asked[r].name \in A \cup {n}
    BY <2>2, <2>4 DEF OkOf
  <2>6. \A r \in Ok \ crowded : asked[r].kind = k /\ asked[r].name \in A \cup {n} => r \in X2
    BY <2>2, <2>4 DEF OkOf
  <2>7. \A l : l # n => Cell(m2[k], l) = Cell(m[k], l)
    BY <2>4 DEF Same
  <2>8. \A l \in A \cup {n} : Cell(m2[k], l) = Cell(stored[k], l)
    BY <2>2, <2>4, <2>7
  <2>9. \A l : l \notin A \cup {n} => Cell(m2[k], l) = Cell(Configured[k], l)
    BY <2>2, <2>7
  <2>10. Good(A \cup {n})
    <3> HIDE DEF Ok
    <3> QED  BY <2>4, <2>5, <2>6, <2>8, <2>9
  <2> HIDE DEF Good
  <2> QED  BY <2>10
<1>3. N \in T
  <2> HIDE DEF Good, N
  <2> QED  BY <1>1, <1>2, OneByOne, NamesAreFinite DEF N
<1>4. PICK X, m : /\ Reached(X, m)
                  /\ \A r \in Ok \ crowded :
                       asked[r].kind = k /\ asked[r].name \in N => r \in X
                  /\ \A n \in N : Cell(m[k], n) = Cell(stored[k], n)
                  /\ \A n : n \notin N => Cell(m[k], n) = Cell(Configured[k], n)
  BY <1>3
<1>5. \A n : Cell(m[k], n) = Cell(stored[k], n)
  <2> HIDE DEF Ok
  <2> QED  BY <1>4, ConfiguredElse
<1>6. \A r \in Ok \ crowded : asked[r].kind = k => r \in X
  BY <1>4 DEF NamesOf
<1> HIDE DEF Ok, N
<1> QED  BY <1>4, <1>5, <1>6, TheRestFollows

-----------------------------------------------------------------------------
(* Snapshots: each is taken while its subscription has the topic.          *)

\* A snapshot that is stored and has last been created from s, on topic x.
Told(w, t, h, b, n, s, x) ==
  /\ w \in Seq(OkOf("snapshot", n)) /\ Distinct(w)
  /\ OkOf("snapshot", n) \ crowded \subseteq Range(w)
  /\ h[0] = {} /\ h[Len(w)] = Cell(stored["snapshot"], n) /\ Goes(w, Len(w), h, t)
  /\ b \in 1 .. Len(w) /\ h[b - 1] = {} /\ \A i \in b .. Len(w) : h[i] # {}
  /\ asked[w[b]].op = "create" /\ asked[w[b]].value.sub = s /\ t[b] = x
Due(n, s, x) == \E w, t, h, b : Told(w, t, h, b, n, s, x)

\* The subscriptions that snapshots have been taken from.
SubsOf ==
  {asked[r].value.sub : r \in {x \in Ok : asked[x].kind = "snapshot" /\ asked[x].op = "create"}}

\* A snapshot that is there was created when it was not, for the last time
\* from a subscription of a name it is said of here.
LEMMA LastBirth ==
  ASSUME EInv, phase = "serving", NEW n, Cell(stored["snapshot"], n) # {}
  PROVE  \E s \in SubsOf : \E x \in TopicsOf(s) : Due(n, s, x)
<1> DEFINE k == "snapshot"
<1>1. PICK w, t : Explains(w, t, k, n, Cell(stored[k], n))
  BY DEF EInv, Serving, StoredIsExplained, Explained, Kind
<1>2. PICK h : /\ h[0] = Cell(Configured[k], n) /\ h[Len(w)] = Cell(stored[k], n)
               /\ \A i \in 1 .. Len(w) : h[i] = CellStep(asked[w[i]], h[i - 1], t[i])
  BY <1>1 DEF Explains, CellRun
<1>3. /\ w \in Seq(OkOf(k, n)) /\ Distinct(w) /\ OkOf(k, n) \ crowded \subseteq Range(w)
      /\ \A i \in 1 .. Len(w) : \A s :
           asked[w[i]].op = "create" /\ s = asked[w[i]].value.sub => t[i] \in TopicsOf(s)
  BY <1>1 DEF Explains
<1>4. PICK l \in Nat : l = Len(w)
  BY <1>3
<1>5. h[0] = {}
  BY <1>2 DEF EInv, Serving, ConfiguredIsSound, Cell
<1> DEFINE B == {j \in 0 .. l : h[l - j] = {}}
<1>6. l \in B /\ B \in SUBSET Nat
  BY <1>5
<1>7. PICK j \in B : \A i \in B : j <= i
  BY <1>6, LeastNumber
<1>8. PICK b \in Nat : b = l - j + 1
  OBVIOUS
<1>9. j # 0
  BY <1>2, <1>4, <1>7
<1>10. b \in 1 .. l /\ b - 1 = l - j
  BY <1>4, <1>7, <1>8, <1>9
<1>11. h[b - 1] = {}
  BY <1>7, <1>10
<1>12. ASSUME NEW i \in b .. l PROVE h[i] # {}
  <2> SUFFICES ASSUME h[i] = {} PROVE FALSE
    OBVIOUS
  <2>1. l - i \in 0 .. l /\ l - (l - i) = i /\ ~(j <= l - i)
    BY <1>7, <1>8, <1>10
  <2> QED  BY <1>7, <2>1
<1>13. h[b] = CellStep(asked[w[b]], {}, t[b]) /\ h[b] # {}
  <2>1. h[b] = CellStep(asked[w[b]], h[b - 1], t[b])
    BY <1>2, <1>4, <1>10
  <2>2. b \in b .. l
    BY <1>10
  <2> QED  BY <1>11, <1>12, <2>1, <2>2
<1>14. asked[w[b]].op = "create"
  BY <1>13 DEF CellStep
<1>15. w[b] \in OkOf(k, n)
  <2> HIDE DEF OkOf
  <2> QED  BY <1>3, <1>4, <1>10
<1>16. PICK s, x : s = asked[w[b]].value.sub /\ x = t[b]
  OBVIOUS
<1>17. s \in SubsOf /\ x \in TopicsOf(s)
  BY <1>3, <1>4, <1>10, <1>14, <1>15, <1>16 DEF SubsOf, OkOf
<1>18. Due(n, s, x)
  <2> HIDE DEF OkOf
  <2>1. Goes(w, Len(w), h, t)
    BY <1>2 DEF Goes
  <2>2. Told(w, t, h, b, n, s, x)
    BY <1>2, <1>3, <1>4, <1>5, <1>10, <1>11, <1>12, <1>14, <1>16, <2>1 DEF Told
  <2> QED  BY <2>2 DEF Due
<1> QED  BY <1>17, <1>18

Ready(m, n) ==
  \/ Cell(stored["snapshot"], n) = {}
  \/ \E s : \E e \in Cell(m["subscription"], s) : Due(n, s, e.topic)

\* The snapshot can be taken, and be what it is.
LEMMA OneSnapshotMore ==
  ASSUME EInv, phase = "serving", NEW n, NEW X, NEW m, Reached(X, m),
         X \cap OkOf("snapshot", n) = {}, Cell(m["snapshot"], n) = {}, Ready(m, n)
  PROVE  \E X2, m2 : /\ Reached(X2, m2)
                     /\ X \subseteq X2 /\ X2 \subseteq X \cup OkOf("snapshot", n)
                     /\ OkOf("snapshot", n) \ crowded \subseteq X2
                     /\ Cell(m2["snapshot"], n) = Cell(stored["snapshot"], n)
                     /\ Same(m, m2, "snapshot", n)
<1> DEFINE k == "snapshot"
<1>1. k \in Kind
  BY DEF Kind
<1>2. ASSUME NEW w \in Seq(OkOf(k, n))
      PROVE  Part(w, 0, Len(w)) = Range(w) /\ Range(w) \subseteq OkOf(k, n)
  <2> HIDE DEF OkOf
  <2>1. PICK l \in Nat : l = Len(w)
    OBVIOUS
  <2>2. DOMAIN w = 1 .. l /\ \A i \in 1 .. l : w[i] \in OkOf(k, n)
    BY <2>1
  <2> QED  BY <2>1, <2>2 DEF Part, Range
<1>3. CASE Cell(stored[k], n) = {}
  <2>1. PICK w, t : Explains(w, t, k, n, Cell(stored[k], n))
    BY <1>1 DEF EInv, Serving, StoredIsExplained, Explained
  <2>2. PICK h : /\ h[Len(w)] = {}
                 /\ \A i \in 1 .. Len(w) : h[i] = CellStep(asked[w[i]], h[i - 1], t[i])
    BY <1>3, <2>1 DEF Explains, CellRun
  <2>3. w \in Seq(OkOf(k, n)) /\ Distinct(w) /\ OkOf(k, n) \ crowded \subseteq Range(w)
    BY <2>1 DEF Explains
  <2>4. PICK l \in Nat : l = Len(w)
    BY <2>3
  <2>5. Part(w, 0, l) = Range(w) /\ Range(w) \subseteq OkOf(k, n)
    BY <1>2, <2>3, <2>4
  <2>6. X \cap Part(w, 0, l) = {}
    BY <2>5
  <2>7. PICK m2 : /\ Reached(X \cup Part(w, 0, l), m2)
                  /\ Cell(m2[k], n) = {} /\ Same(m, m2, k, n)
    <3>1. l <= Len(w) /\ h[l] = {}
      BY <2>2, <2>4
    <3>2. Goes(w, l, h, t)
      BY <2>2, <2>4 DEF Goes
    <3> HIDE DEF OkOf
    <3> QED  BY <2>3, <2>6, <3>1, <3>2, WalkAway
  <2> DEFINE X2 == X \cup Part(w, 0, l)
  <2>8. X \subseteq X2 /\ X2 \subseteq X \cup OkOf(k, n) /\ OkOf(k, n) \ crowded \subseteq X2
    BY <2>3, <2>5
  <2>9. Reached(X2, m2)
    BY <2>7
  <2> HIDE DEF X2
  <2> QED  BY <1>3, <2>7, <2>8, <2>9
<1>4. ASSUME NEW s, NEW e \in Cell(m["subscription"], s), Due(n, s, e.topic)
      PROVE  \E X2, m2 : /\ Reached(X2, m2)
                         /\ X \subseteq X2 /\ X2 \subseteq X \cup OkOf(k, n)
                         /\ OkOf(k, n) \ crowded \subseteq X2
                         /\ Cell(m2[k], n) = Cell(stored[k], n) /\ Same(m, m2, k, n)
  <2>1. PICK w, t, h, b : Told(w, t, h, b, n, s, e.topic)
    BY <1>4 DEF Due
  <2>2. w \in Seq(OkOf(k, n)) /\ Distinct(w)
    BY <2>1 DEF Told
  <2>3. /\ OkOf(k, n) \ crowded \subseteq Range(w)
        /\ h[0] = {} /\ h[Len(w)] = Cell(stored[k], n)
        /\ \A i \in 1 .. Len(w) : h[i] = CellStep(asked[w[i]], h[i - 1], t[i])
        /\ b \in 1 .. Len(w) /\ h[b - 1] = {} /\ \A i \in b .. Len(w) : h[i] # {}
        /\ asked[w[b]].op = "create" /\ asked[w[b]].value.sub = s /\ t[b] = e.topic
    BY <2>1 DEF Told, Goes
  <2>4. PICK l \in Nat : l = Len(w)
    BY <2>2
  <2>5. PICK a \in Nat : a = b - 1
    BY <2>3, <2>4
  <2>6. /\ Part(w, 0, l) = Part(w, 0, a) \cup Part(w, a, l)
        /\ Part(w, 0, a) \cap Part(w, a, l) = {}
    <3>1. 0 + 1 .. l = (0 + 1 .. a) \cup (a + 1 .. l)
      BY <2>3, <2>4, <2>5
    <3>2. \A i \in 0 + 1 .. a, j \in a + 1 .. l :
            i \in 1 .. Len(w) /\ j \in 1 .. Len(w) /\ i # j
      BY <2>3, <2>4, <2>5
    <3> QED  BY <2>2, <3>1, <3>2 DEF Part, Distinct
  <2>7. Part(w, 0, l) = Range(w) /\ Range(w) \subseteq OkOf(k, n)
    BY <1>2, <2>4, <2>2
  <2>8. PICK m1 : /\ Reached(X \cup Part(w, 0, a), m1)
                  /\ Cell(m1[k], n) = {} /\ Same(m, m1, k, n)
    <3>1. X \cap Part(w, 0, a) = {} /\ a <= Len(w) /\ h[a] = {}
      BY <2>3, <2>4, <2>5, <2>6, <2>7
    <3>2. Goes(w, a, h, t)
      BY <2>3, <2>4, <2>5 DEF Goes
    <3> HIDE DEF OkOf
    <3> QED  BY <2>2, <3>1, <3>2, WalkAway
  <2> DEFINE Y == X \cup Part(w, 0, a)
  <2>9. Follows(w, a, l, h, t, k, m1)
    <3> SUFFICES ASSUME NEW i \in a + 1 .. l
                 PROVE  /\ h[i] = CellStep(asked[w[i]], h[i - 1], t[i])
                        /\ k = "snapshot" /\ asked[w[i]].op = "create" /\ h[i - 1] = {} =>
                             {Grown(asked[w[i]], y.topic) :
                                y \in Cell(m1["subscription"], asked[w[i]].value.sub)}
                               = {Grown(asked[w[i]], t[i])}
      BY DEF Follows
    <3>1. i \in 1 .. Len(w)
      BY <2>3, <2>4, <2>5
    <3>2. CASE i = b
      <4>1. Cell(m1["subscription"], s) = Cell(m["subscription"], s)
        BY <2>8 DEF Same, Kind
      <4>2. Cell(m["subscription"], s) = {e}
        BY DEF Cell
      <4>3. {Grown(asked[w[i]], y.topic) : y \in {e}} = {Grown(asked[w[i]], e.topic)}
        OBVIOUS
      <4> QED  BY <2>3, <3>1, <3>2, <4>1, <4>2, <4>3
    <3>3. CASE i # b
      <4>1. i - 1 \in b .. Len(w)
        BY <2>3, <2>4, <2>5, <3>3
      <4> QED  BY <2>3, <3>1, <4>1
    <3> QED  BY <3>2, <3>3
  <2>10. PICK m2 : /\ Reached(Y \cup Part(w, a, l), m2)
                  /\ Cell(m2[k], n) = h[l] /\ Same(m1, m2, k, n)
    <3>1. a <= l /\ l <= Len(w) /\ Cell(m1[k], n) = h[a]
      BY <2>3, <2>4, <2>5, <2>8
    <3>2. Y \cap Part(w, a, l) = {}
      BY <2>6, <2>7
    <3>3. Reached(Y, m1)
      BY <2>8
    <3>4. EInv /\ a \in Nat /\ l \in Nat /\ k \in Kind
      BY <1>1
    <3> HIDE DEF OkOf, Y
    <3> QED  BY ONLY <2>2, <2>9, <3>1, <3>2, <3>3, <3>4, Walk
  <2> DEFINE X2 == Y \cup Part(w, a, l)
  <2>11. X \subseteq X2 /\ X2 \subseteq X \cup OkOf(k, n) /\ OkOf(k, n) \ crowded \subseteq X2
    BY <2>3, <2>6, <2>7
  <2>12. Reached(X2, m2) /\ Cell(m2[k], n) = Cell(stored[k], n) /\ Same(m, m2, k, n)
    BY <2>3, <2>4, <2>8, <2>10, SameAgain
  <2> HIDE DEF X2
  <2> QED  BY <2>11, <2>12
<1> QED  BY <1>3, <1>4 DEF Ready

\* The snapshots A are as they are stored and the others are not there yet.
Progress(X, m, A) ==
  /\ Reached(X, m)
  /\ \A r \in X : asked[r].kind = "snapshot" => asked[r].name \in A
  /\ \A r \in Ok \ crowded : asked[r].kind = "snapshot" /\ asked[r].name \in A => r \in X
  /\ \A n \in A : Cell(m["snapshot"], n) = Cell(stored["snapshot"], n)
  /\ \A n : n \notin A => Cell(m["snapshot"], n) = {}

\* From X and m to X2 and m2 only snapshots have changed.
Aside(X, m, X2, m2) ==
  /\ X \subseteq X2 /\ \A r \in X2 \ X : asked[r].kind = "snapshot"
  /\ \A s : Cell(m2["subscription"], s) = Cell(m["subscription"], s)

\* One snapshot more.
LEMMA ProgressMore ==
  ASSUME EInv, phase = "serving", NEW X, NEW m, NEW A, Progress(X, m, A),
         NEW n, n \notin A, Ready(m, n)
  PROVE  \E X2, m2 : Progress(X2, m2, A \cup {n}) /\ Aside(X, m, X2, m2)
<1>1. /\ Reached(X, m)
      /\ \A r \in X : asked[r].kind = "snapshot" => asked[r].name \in A
      /\ \A r \in Ok \ crowded : asked[r].kind = "snapshot" /\ asked[r].name \in A => r \in X
      /\ \A l \in A : Cell(m["snapshot"], l) = Cell(stored["snapshot"], l)
      /\ \A l : l \notin A => Cell(m["snapshot"], l) = {}
  BY DEF Progress
<1>2. X \cap OkOf("snapshot", n) = {} /\ Cell(m["snapshot"], n) = {}
  BY <1>1 DEF OkOf
<1>3. PICK X2, m2 : /\ Reached(X2, m2)
                    /\ X \subseteq X2 /\ X2 \subseteq X \cup OkOf("snapshot", n)
                    /\ OkOf("snapshot", n) \ crowded \subseteq X2
                    /\ Cell(m2["snapshot"], n) = Cell(stored["snapshot"], n)
                    /\ Same(m, m2, "snapshot", n)
  <2> HIDE DEF OkOf
  <2> QED  BY <1>1, <1>2, OneSnapshotMore
<1>4. /\ \A l : l # n => Cell(m2["snapshot"], l) = Cell(m["snapshot"], l)
      /\ \A s : Cell(m2["subscription"], s) = Cell(m["subscription"], s)
  BY <1>3 DEF Same, Kind
<1>5. /\ \A r \in X2 : asked[r].kind = "snapshot" => asked[r].name \in A \cup {n}
      /\ \A r \in X2 \ X : asked[r].kind = "snapshot"
      /\ \A r \in Ok \ crowded :
           asked[r].kind = "snapshot" /\ asked[r].name \in A \cup {n} => r \in X2
  BY <1>1, <1>3 DEF OkOf
<1>6. /\ \A l \in A \cup {n} : Cell(m2["snapshot"], l) = Cell(stored["snapshot"], l)
      /\ \A l : l \notin A \cup {n} => Cell(m2["snapshot"], l) = {}
  BY <1>1, <1>3, <1>4
<1> HIDE DEF Ok
<1>7. Progress(X2, m2, A \cup {n})
  BY <1>3, <1>5, <1>6 DEF Progress
<1>8. Aside(X, m, X2, m2)
  BY <1>3, <1>4, <1>5 DEF Aside
<1> QED  BY <1>7, <1>8

\* All the snapshots that can be taken now.
LEMMA AllThatAreReady ==
  ASSUME EInv, phase = "serving", NEW X, NEW m, NEW A, Progress(X, m, A)
  PROVE  \E X2, m2, A2 :
           /\ Progress(X2, m2, A2) /\ Aside(X, m, X2, m2) /\ A \subseteq A2
           /\ \A n \in NamesOf("snapshot") : Ready(m, n) => n \in A2
<1> DEFINE N == {n \in NamesOf("snapshot") \ A : Ready(m, n)}
           Good(B) == \E X2, m2 : Progress(X2, m2, A \cup B) /\ Aside(X, m, X2, m2)
           T == {B \in SUBSET N : Good(B)}
<1>1. IsFiniteSet(N)
  <2>1. IsFiniteSet(NamesOf("snapshot"))
    BY NamesAreFinite
  <2> QED  BY <2>1, FS_Subset
<1>2. {} \in T
  <2>1. A \cup {} = A /\ Aside(X, m, X, m)
    BY DEF Aside
  <2> QED  BY <2>1
<1>3. ASSUME NEW B \in T, NEW n \in N \ B PROVE B \cup {n} \in T
  <2>1. Good(B)
    <3> HIDE DEF Good
    <3> QED  OBVIOUS
  <2>2. PICK X1, m1 : Progress(X1, m1, A \cup B) /\ Aside(X, m, X1, m1)
    BY <2>1
  <2>3. Ready(m1, n) /\ n \notin A \cup B
    BY <2>2 DEF Ready, Aside
  <2>4. PICK X2, m2 : Progress(X2, m2, (A \cup B) \cup {n}) /\ Aside(X1, m1, X2, m2)
    BY <2>2, <2>3, ProgressMore
  <2>5. Aside(X, m, X2, m2) /\ (A \cup B) \cup {n} = A \cup (B \cup {n})
    BY <2>2, <2>4 DEF Aside
  <2>6. Good(B \cup {n})
    BY <2>4, <2>5
  <2> HIDE DEF Good
  <2> QED  BY <2>6
<1>4. N \in T
  <2> HIDE DEF Good, N
  <2> QED  BY <1>1, <1>2, <1>3, OneByOne
<1>5. PICK X2, m2 : Progress(X2, m2, A \cup N) /\ Aside(X, m, X2, m2)
  BY <1>4
<1>6. \A n \in NamesOf("snapshot") : Ready(m, n) => n \in A \cup N
  OBVIOUS
<1> HIDE DEF N
<1> QED  BY <1>5, <1>6

\* A request for a subscription leaves the snapshots alone, and the others.
Touches(m, m2, q) ==
  /\ \A s : s # q.name => Cell(m2["subscription"], s) = Cell(m["subscription"], s)
  /\ \A s, c : s = q.name /\ c = Cell(m["subscription"], s) =>
       Cell(m2["subscription"], s) = CellStep(q, c, DeletedTopic)

LEMMA SubscriptionAside ==
  ASSUME EInv, NEW X, NEW m, NEW A, Progress(X, m, A),
         NEW r \in Ok, r \notin X, asked[r].kind = "subscription"
  PROVE  /\ Progress(X \cup {r}, Alone(m, asked[r]), A)
         /\ Touches(m, Alone(m, asked[r]), asked[r])
<1>1. PICK q : q = asked[r]
  OBVIOUS
<1>2. PICK m2 : m2 = Alone(m, q)
  OBVIOUS
<1>3. q.kind \in Kind /\ q.kind = "subscription" /\ AreMaps(m) /\ Reached(X, m)
  BY <1>1 DEF Kind, Progress, Reached
<1>4. /\ Same(m, m2, q.kind, q.name)
      /\ \A c : c = Cell(m[q.kind], q.name) =>
           Cell(m2[q.kind], q.name) =
             IF q.kind = "snapshot" /\ q.op = "create" /\ c = {}
             THEN {Grown(q, e.topic) : e \in Cell(m["subscription"], q.value.sub)}
             ELSE CellStep(q, c, DeletedTopic)
  BY <1>2, <1>3, AloneCells
<1>5. \A n : Cell(m2["snapshot"], n) = Cell(m["snapshot"], n)
  BY <1>3, <1>4 DEF Same, Kind
<1>6. \A s : s # q.name => Cell(m2["subscription"], s) = Cell(m["subscription"], s)
  BY <1>3, <1>4 DEF Same, Kind
<1>7. \A s, c : s = q.name /\ c = Cell(m["subscription"], s) =>
        Cell(m2["subscription"], s) = CellStep(q, c, DeletedTopic)
  BY <1>3, <1>4
<1>8. Reached(X \cup {r}, m2)
  <2> HIDE DEF Ok
  <2>1. Reached(X \cup {r}, Alone(m, asked[r]))
    BY <1>1, <1>3, ReachedMore
  <2> QED  BY <1>1, <1>2, <2>1
<1>9. Progress(X \cup {r}, m2, A)
  <2> HIDE DEF Ok
  <2> QED  BY <1>5, <1>8 DEF Progress
<1>10. Touches(m, m2, q)
  BY <1>6, <1>7 DEF Touches
<1> QED  BY <1>1, <1>2, <1>9, <1>10

-----------------------------------------------------------------------------
(* Along the creations and deletions of a subscription.                    *)

Detaches(s) == {r \in OkOf("subscription", s) : asked[r].op = "detach"}

\* The snapshots of s on topic x have been taken.
Served(s, x, A) == \A n \in NamesOf("snapshot") : Due(n, s, x) => n \in A

\* The subscriptions B are done, and of s the first i creations and deletions.
Base(B, s, w, i, X, m, A) ==
  /\ Progress(X, m, A)
  /\ \A r \in X : asked[r].kind = "subscription" =>
       asked[r].name \in B \/ r \in Part(w, 0, i) \/ r \in Detaches(s)
  /\ \A z : z \notin B /\ z # s =>
       Cell(m["subscription"], z) = Cell(Configured["subscription"], z)
  /\ \A z \in B : \A x \in TopicsOf(z) : Served(z, x, A)
  /\ Cell(m["subscription"], s) # {} <=> Left(w, i, s)
  /\ \A e \in Cell(m["subscription"], s) : "topic" \in DOMAIN e
  /\ \A d \in Detaches(s) : d \in X => Served(s, DeletedTopic, A)

\* So have those on the topics that s has had till then.
Met(s, w, i, A) ==
  /\ \A j \in 1 .. i : asked[w[j]].op = "create" =>
       Served(s, Entity(asked[w[j]].kind, asked[w[j]].value).topic, A)
  /\ \A e \in Cell(Configured["subscription"], s) : Served(s, e.topic, A)
  /\ Detaches(s) # {} /\ (\E j \in 0 .. i : Left(w, j, s)) => Served(s, DeletedTopic, A)

LEMMA ServedStays ==
  ASSUME NEW s, NEW x, NEW A, NEW A2, A \subseteq A2, Served(s, x, A)
  PROVE  Served(s, x, A2)
BY DEF Served

\* The snapshots of s on its topic are taken, and when it has been detached,
\* those of the detached one after it.
LEMMA Settle ==
  ASSUME EInv, phase = "serving", NEW B, NEW s, s \notin B, NEW w, NEW i,
         NEW X, NEW m, NEW A, Base(B, s, w, i, X, m, A)
  PROVE  \E X2, m2, A2 :
           /\ Base(B, s, w, i, X2, m2, A2) /\ A \subseteq A2
           /\ \A e \in Cell(m["subscription"], s) : Served(s, e.topic, A2)
           /\ Left(w, i, s) /\ Detaches(s) # {} => Served(s, DeletedTopic, A2)
<1>1. /\ Progress(X, m, A)
      /\ \A r \in X : asked[r].kind = "subscription" =>
           asked[r].name \in B \/ r \in Part(w, 0, i) \/ r \in Detaches(s)
      /\ \A z : z \notin B /\ z # s =>
           Cell(m["subscription"], z) = Cell(Configured["subscription"], z)
      /\ \A z \in B : \A x \in TopicsOf(z) : Served(z, x, A)
      /\ Cell(m["subscription"], s) # {} <=> Left(w, i, s)
      /\ \A e \in Cell(m["subscription"], s) : "topic" \in DOMAIN e
      /\ \A d \in Detaches(s) : d \in X => Served(s, DeletedTopic, A)
  BY DEF Base
<1>2. \A d \in Detaches(s) : /\ d \in Ok /\ asked[d].kind = "subscription"
                            /\ asked[d].name = s /\ asked[d].op = "detach"
  BY DEF Detaches, OkOf
<1>3. PICK X1, m1, A1 :
        /\ Progress(X1, m1, A1) /\ Aside(X, m, X1, m1) /\ A \subseteq A1
        /\ \A n \in NamesOf("snapshot") : Ready(m, n) => n \in A1
  BY <1>1, AllThatAreReady
<1>4. \A e \in Cell(m["subscription"], s) : Served(s, e.topic, A1)
  BY <1>3 DEF Served, Ready
<1>5. \A z, x : Served(z, x, A) => Served(z, x, A1)
  BY <1>3, ServedStays
<1>6. /\ \A r \in X1 : asked[r].kind = "subscription" => r \in X
      /\ \A z : Cell(m1["subscription"], z) = Cell(m["subscription"], z)
  BY <1>3 DEF Aside
<1>7. Base(B, s, w, i, X1, m1, A1)
  <2>1. \A d \in Detaches(s) : d \in X1 => Served(s, DeletedTopic, A1)
    BY <1>1, <1>2, <1>5, <1>6
  <2> HIDE DEF Ok
  <2> QED  BY <1>1, <1>3, <1>5, <1>6, <2>1 DEF Base
<1>8. CASE ~Left(w, i, s) \/ Detaches(s) = {}
  BY <1>3, <1>4, <1>7, <1>8
<1>9. CASE \E d \in Detaches(s) : d \in X1
  <2>1. Served(s, DeletedTopic, A1)
    BY <1>7, <1>9 DEF Base
  <2> QED  BY <1>3, <1>4, <1>7, <2>1
<1>10. ASSUME Left(w, i, s), NEW d \in Detaches(s), d \notin X1
       PROVE  \E X2, m2, A2 :
                /\ Base(B, s, w, i, X2, m2, A2) /\ A \subseteq A2
                /\ \A e \in Cell(m["subscription"], s) : Served(s, e.topic, A2)
                /\ Served(s, DeletedTopic, A2)
  <2>1. PICK q, m3 : q = asked[d] /\ m3 = Alone(m1, asked[d])
    OBVIOUS
  <2> DEFINE X3 == X1 \cup {d}
  <2>2. /\ Progress(X3, m3, A1)
        /\ \A z : z # s => Cell(m3["subscription"], z) = Cell(m1["subscription"], z)
        /\ \A c : c = Cell(m1["subscription"], s) =>
             Cell(m3["subscription"], s) = CellStep(q, c, DeletedTopic)
    <3> HIDE DEF Ok
    <3>1. /\ Progress(X1 \cup {d}, Alone(m1, asked[d]), A1)
          /\ Touches(m1, Alone(m1, asked[d]), asked[d])
      BY <1>2, <1>3, <1>10, SubscriptionAside
    <3> QED  BY <1>2, <2>1, <3>1 DEF Touches
  <2>3. PICK e : e \in Cell(m["subscription"], s) /\ "topic" \in DOMAIN e
    BY <1>1, <1>10
  <2>4. Cell(m1["subscription"], s) = {e}
    BY <1>6, <2>3 DEF Cell
  <2>5. Cell(m3["subscription"], s) = {[e EXCEPT !.topic = DeletedTopic]}
    <3>1. The({e}) = e
      BY DEF The
    <3>2. q.op = "detach"
      BY <1>2, <2>1
    <3>3. CellStep(q, {e}, DeletedTopic) = {[e EXCEPT !.topic = DeletedTopic]}
      BY <3>1, <3>2 DEF CellStep, Change
    <3> QED  BY <2>2, <2>4, <3>3
  <2>6. PICK y : /\ Cell(m3["subscription"], s) = {y}
                 /\ y.topic = DeletedTopic /\ "topic" \in DOMAIN y
    BY <2>3, <2>5
  <2>7. PICK X4, m4, A4 :
          /\ Progress(X4, m4, A4) /\ Aside(X3, m3, X4, m4) /\ A1 \subseteq A4
          /\ \A n \in NamesOf("snapshot") : Ready(m3, n) => n \in A4
    <3> HIDE DEF X3
    <3> QED  BY <2>2, AllThatAreReady
  <2>8. Served(s, DeletedTopic, A4)
    <3> SUFFICES ASSUME NEW n \in NamesOf("snapshot"), Due(n, s, DeletedTopic)
                 PROVE  n \in A4
      BY DEF Served
    <3>1. Due(n, s, y.topic) /\ y \in Cell(m3["subscription"], s)
      BY <2>6
    <3> QED  BY <2>7, <3>1 DEF Ready
  <2>9. \A z, x : Served(z, x, A1) => Served(z, x, A4)
    BY <2>7, ServedStays
  <2>10. /\ \A r \in X4 : asked[r].kind = "subscription" => r \in X1 \/ r = d
         /\ \A z : Cell(m4["subscription"], z) = Cell(m3["subscription"], z)
    BY <2>7 DEF Aside
  <2>11. Base(B, s, w, i, X4, m4, A4)
    <3>1. /\ \A r \in X4 : asked[r].kind = "subscription" =>
               asked[r].name \in B \/ r \in Part(w, 0, i) \/ r \in Detaches(s)
          /\ \A z : z \notin B /\ z # s =>
               Cell(m4["subscription"], z) = Cell(Configured["subscription"], z)
          /\ \A z \in B : \A x \in TopicsOf(z) : Served(z, x, A4)
      BY <1>1, <1>5, <1>6, <1>10, <2>2, <2>9, <2>10
    <3>2. /\ Cell(m4["subscription"], s) # {}
          /\ \A f \in Cell(m4["subscription"], s) : "topic" \in DOMAIN f
      BY <2>6, <2>10
    <3> QED  BY <1>10, <2>7, <2>8, <3>1, <3>2 DEF Base
  <2>12. A \subseteq A4 /\ \A f \in Cell(m["subscription"], s) : Served(s, f.topic, A4)
    BY <1>3, <1>4, <2>7, <2>9
  <2> QED  BY <2>8, <2>11, <2>12
<1> QED  BY <1>8, <1>9, <1>10

\* The subscriptions B are done, and of no other any request.
Visited(B, X, m, A) ==
  /\ Progress(X, m, A)
  /\ \A r \in X : asked[r].kind = "subscription" => asked[r].name \in B
  /\ \A z : z \notin B => Cell(m["subscription"], z) = Cell(Configured["subscription"], z)
  /\ \A z \in B : \A x \in TopicsOf(z) : Served(z, x, A)

\* Before the first creation or deletion of s.
LEMMA StageFirst ==
  ASSUME EInv, phase = "serving", NEW B, NEW s, s \notin B, NEW w,
         NEW X, NEW m, NEW A, Visited(B, X, m, A)
  PROVE  \E X2, m2, A2 : Base(B, s, w, 0, X2, m2, A2) /\ Met(s, w, 0, A2)
<1>1. /\ Progress(X, m, A)
      /\ \A r \in X : asked[r].kind = "subscription" => asked[r].name \in B
      /\ \A z : z \notin B => Cell(m["subscription"], z) = Cell(Configured["subscription"], z)
      /\ \A z \in B : \A x \in TopicsOf(z) : Served(z, x, A)
  BY DEF Visited
<1>2. Base(B, s, w, 0, X, m, A)
  <2>1. Cell(m["subscription"], s) = Cell(Configured["subscription"], s)
    BY <1>1
  <2>2. Cell(m["subscription"], s) # {} <=> Left(w, 0, s)
    BY <2>1 DEF Left, Cell
  <2>3. \A e \in Cell(m["subscription"], s) : "topic" \in DOMAIN e
    BY <2>1 DEF Cell, EInv, Serving, ConfiguredIsSound
  <2>4. \A d \in Detaches(s) : d \notin X
    BY <1>1 DEF Detaches, OkOf
  <2> QED  BY <1>1, <2>2, <2>3, <2>4 DEF Base
<1>3. PICK X2, m2, A2 :
        /\ Base(B, s, w, 0, X2, m2, A2)
        /\ \A e \in Cell(m["subscription"], s) : Served(s, e.topic, A2)
        /\ Left(w, 0, s) /\ Detaches(s) # {} => Served(s, DeletedTopic, A2)
  BY <1>2, Settle
<1>4. Met(s, w, 0, A2)
  BY <1>1, <1>3 DEF Met
<1> QED  BY <1>3, <1>4

\* From one creation or deletion to the next.
LEMMA StageMore ==
  ASSUME EInv, phase = "serving", NEW B, NEW s, s \notin B, NEW w, Spine(w, s),
         NEW i \in 1 .. Len(w), NEW X, NEW m, NEW A,
         Base(B, s, w, i - 1, X, m, A), Met(s, w, i - 1, A)
  PROVE  \E X2, m2, A2 : Base(B, s, w, i, X2, m2, A2) /\ Met(s, w, i, A2)
<1>1. /\ Progress(X, m, A)
      /\ \A r \in X : asked[r].kind = "subscription" =>
           asked[r].name \in B \/ r \in Part(w, 0, i - 1) \/ r \in Detaches(s)
      /\ \A z : z \notin B /\ z # s =>
           Cell(m["subscription"], z) = Cell(Configured["subscription"], z)
      /\ \A z \in B : \A x \in TopicsOf(z) : Served(z, x, A)
      /\ Cell(m["subscription"], s) # {} <=> Left(w, i - 1, s)
      /\ \A e \in Cell(m["subscription"], s) : "topic" \in DOMAIN e
      /\ \A d \in Detaches(s) : d \in X => Served(s, DeletedTopic, A)
  BY DEF Base
<1>2. /\ w \in Seq(Lives(s)) /\ Distinct(w)
      /\ asked[w[i]].op = "create" => ~Left(w, i - 1, s)
  BY DEF Spine
<1>3. PICK l \in Nat : l = Len(w)
  BY <1>2
<1>4. PICK r, q : r = w[i] /\ q = asked[r]
  OBVIOUS
<1>5. /\ r \in Ok /\ q.kind = "subscription" /\ q.name = s
      /\ q.op \in {"create", "delete"} /\ r \notin Detaches(s)
  <2>1. w[i] \in Lives(s)
    <3> HIDE DEF Lives
    <3> QED  BY <1>2
  <2> QED  BY <1>4, <2>1 DEF Lives, OkOf, Detaches
<1>6. r \notin Part(w, 0, i - 1) /\ Part(w, 0, i) = Part(w, 0, i - 1) \cup {r}
  <2>1. 0 + 1 .. i = (0 + 1 .. i - 1) \cup {i}
    BY <1>3
  <2>2. \A j \in 0 + 1 .. i - 1 : j \in 1 .. Len(w) /\ j # i
    BY <1>3
  <2> QED  BY <1>2, <1>4, <2>1, <2>2 DEF Part, Distinct
<1>7. r \notin X
  BY <1>1, <1>4, <1>5, <1>6
<1>8. PICK X3, m3 : X3 = X \cup {r} /\ m3 = Alone(m, q)
  OBVIOUS
<1>9. Progress(X3, m3, A) /\ Touches(m, m3, q)
  <2> HIDE DEF Ok
  <2>1. asked[r].kind = "subscription"
    BY <1>4, <1>5
  <2>2. Progress(X \cup {r}, Alone(m, asked[r]), A) /\ Touches(m, Alone(m, asked[r]), asked[r])
    BY <1>1, <1>5, <1>7, <2>1, SubscriptionAside
  <2> QED  BY <1>4, <1>8, <2>2
<1>10. PICK c : c = Cell(m["subscription"], s)
  OBVIOUS
<1>11. /\ Cell(m3["subscription"], s) = CellStep(q, c, DeletedTopic)
       /\ \A z : z # s => Cell(m3["subscription"], z) = Cell(m["subscription"], z)
  BY <1>5, <1>9, <1>10 DEF Touches
<1>12. /\ q.op = "create" => Cell(m3["subscription"], s) = {Entity(q.kind, q.value)}
       /\ q.op = "delete" => Cell(m3["subscription"], s) = {}
  <2>1. q.op = "create" => c = {}
    BY <1>1, <1>2, <1>4, <1>10
  <2> QED  BY <1>5, <1>11, <2>1 DEF CellStep, Grown
<1>13. Left(w, i, s) <=> q.op = "create"
  BY <1>4 DEF Left
<1>14. q.op = "create" => "topic" \in DOMAIN Entity(q.kind, q.value)
  <2>1. q.op = "create" => DOMAIN q.value = Fields["subscription"]
    BY <1>4, <1>5, PlanIsSound DEF EInv, IInv, Ok
  <2> QED  BY <2>1 DEF Entity, Fields
<1>15. Base(B, s, w, i, X3, m3, A)
  <2>1. \A x \in X3 : asked[x].kind = "subscription" =>
          asked[x].name \in B \/ x \in Part(w, 0, i) \/ x \in Detaches(s)
    BY <1>1, <1>6, <1>8
  <2>2. \A z : z \notin B /\ z # s =>
          Cell(m3["subscription"], z) = Cell(Configured["subscription"], z)
    BY <1>1, <1>11
  <2>3. /\ Cell(m3["subscription"], s) # {} <=> Left(w, i, s)
        /\ \A e \in Cell(m3["subscription"], s) : "topic" \in DOMAIN e
    BY <1>5, <1>12, <1>13, <1>14
  <2>4. \A d \in Detaches(s) : d \in X3 => Served(s, DeletedTopic, A)
    BY <1>1, <1>5, <1>8
  <2> QED  BY <1>1, <1>9, <2>1, <2>2, <2>3, <2>4 DEF Base
<1>16. PICK X2, m2, A2 :
         /\ Base(B, s, w, i, X2, m2, A2) /\ A \subseteq A2
         /\ \A e \in Cell(m3["subscription"], s) : Served(s, e.topic, A2)
         /\ Left(w, i, s) /\ Detaches(s) # {} => Served(s, DeletedTopic, A2)
  BY <1>15, Settle
<1>17. \A x : Served(s, x, A) => Served(s, x, A2)
  BY <1>16, ServedStays
<1>18. Met(s, w, i, A2)
  <2>1. /\ \A j \in 1 .. i - 1 : asked[w[j]].op = "create" =>
             Served(s, Entity(asked[w[j]].kind, asked[w[j]].value).topic, A)
        /\ \A e \in Cell(Configured["subscription"], s) : Served(s, e.topic, A)
        /\ Detaches(s) # {} /\ (\E j \in 0 .. i - 1 : Left(w, j, s)) =>
             Served(s, DeletedTopic, A)
    BY DEF Met
  <2>2. ASSUME NEW j \in 1 .. i, asked[w[j]].op = "create"
        PROVE  Served(s, Entity(asked[w[j]].kind, asked[w[j]].value).topic, A2)
    <3>1. CASE j \in 1 .. i - 1
      BY <1>17, <2>1, <2>2, <3>1
    <3>2. CASE j = i
      <4>1. Entity(q.kind, q.value) \in Cell(m3["subscription"], s)
        BY <1>4, <1>12, <2>2, <3>2
      <4> QED  BY <1>4, <1>16, <3>2, <4>1
    <3> QED  BY <1>3, <3>1, <3>2
  <2>3. ASSUME Detaches(s) # {}, NEW j \in 0 .. i, Left(w, j, s)
        PROVE  Served(s, DeletedTopic, A2)
    <3>1. CASE j \in 0 .. i - 1
      BY <1>17, <2>1, <2>3, <3>1
    <3>2. CASE j = i
      BY <1>16, <2>3, <3>2
    <3> QED  BY <1>3, <3>1, <3>2
  <2>4. \A e \in Cell(Configured["subscription"], s) : Served(s, e.topic, A2)
    BY <1>17, <2>1
  <2> QED  BY <2>2, <2>3, <2>4 DEF Met
<1> QED  BY <1>16, <1>18

\* After the last, the snapshots of s are there on all the topics it has had.
LEMMA OneSubscriptionMore ==
  ASSUME EInv, phase = "serving", NEW B, NEW s, s \notin B,
         NEW X, NEW m, NEW A, Visited(B, X, m, A)
  PROVE  \E X2, m2, A2 : Visited(B \cup {s}, X2, m2, A2)
<1>1. PICK w : Spine(w, s)
  BY DEF EInv, Serving, Spines
<1>2. w \in Seq(Lives(s)) /\ Lives(s) \subseteq Range(w)
  BY <1>1 DEF Spine
<1>3. PICK l \in Nat : l = Len(w)
  BY <1>2
<1> DEFINE Good(i) == \E X2, m2, A2 : Base(B, s, w, i, X2, m2, A2) /\ Met(s, w, i, A2)
           T == {i \in 0 .. l : Good(i)}
<1>4. 0 \in T
  <2>1. Good(0)
    BY StageFirst
  <2> HIDE DEF Good
  <2> QED  BY <2>1
<1>5. ASSUME NEW i \in 1 .. l, i - 1 \in T PROVE i \in T
  <2>1. Good(i - 1)
    <3> HIDE DEF Good
    <3> QED  BY <1>5
  <2>2. PICK X2, m2, A2 : Base(B, s, w, i - 1, X2, m2, A2) /\ Met(s, w, i - 1, A2)
    BY <2>1
  <2>3. Good(i)
    <3>1. i \in 1 .. Len(w)
      BY <1>3
    <3> QED  BY <1>1, <2>2, <3>1, StageMore
  <2> HIDE DEF Good
  <2> QED  BY <2>3
<1>6. l \in T
  <2> HIDE DEF T
  <2> QED  BY <1>4, <1>5, FirstFailure
<1>7. PICK X2, m2, A2 : Base(B, s, w, l, X2, m2, A2) /\ Met(s, w, l, A2)
  BY <1>6
<1>8. \A i \in 1 .. l : w[i] \in Lives(s)
  <2> HIDE DEF Lives
  <2> QED  BY <1>2, <1>3
<1>9. \A r \in Lives(s) : \E i \in 1 .. l : w[i] = r
  <2> HIDE DEF Lives
  <2>1. DOMAIN w = 1 .. l
    BY <1>2, <1>3
  <2> QED  BY <1>2, <2>1 DEF Range
<1>10. \A r \in X2 : asked[r].kind = "subscription" => asked[r].name \in B \cup {s}
  <2>1. \A r \in Part(w, 0, l) \cup Detaches(s) : asked[r].name = s
    BY <1>8 DEF Part, Lives, Detaches, OkOf
  <2> QED  BY <1>7, <2>1 DEF Base
<1>11. ASSUME NEW x \in TopicsOf(s) PROVE Served(s, x, A2)
  <2>1. CASE \E r \in OkOf("subscription", s) :
               asked[r].op = "create" /\ x = Entity(asked[r].kind, asked[r].value).topic
    <3>1. PICK r \in Lives(s) :
                 asked[r].op = "create" /\ x = Entity(asked[r].kind, asked[r].value).topic
      BY <2>1 DEF Lives
    <3>2. PICK i \in 1 .. l : w[i] = r
      BY <1>9
    <3> QED  BY <1>7, <3>1, <3>2 DEF Met
  <2>2. CASE \E e \in Cell(Configured["subscription"], s) : x = e.topic
    BY <1>7, <2>2 DEF Met
  <2>3. CASE x = DeletedTopic /\ Detaches(s) # {} /\ EverThere(s)
    <3>1. \E j \in 0 .. l : Left(w, j, s)
      <4>1. CASE s \in DOMAIN Configured["subscription"]
        BY <4>1 DEF Left
      <4>2. CASE \E r \in OkOf("subscription", s) : asked[r].op = "create"
        <5>1. PICK r \in Lives(s) : asked[r].op = "create"
          BY <4>2 DEF Lives
        <5>2. PICK i \in 1 .. l : w[i] = r
          BY <1>9
        <5>3. Left(w, i, s)
          BY <5>1, <5>2 DEF Left
        <5> QED  BY <5>3
      <4> QED  BY <2>3, <4>1, <4>2 DEF EverThere
    <3> QED  BY <1>7, <2>3, <3>1 DEF Met
  <2> QED
    <3> HIDE DEF OkOf, EverThere
    <3> QED  BY <2>1, <2>2, <2>3 DEF TopicsOf, Detaches
<1>12. Visited(B \cup {s}, X2, m2, A2)
  <2>1. /\ Progress(X2, m2, A2)
        /\ \A z : z \notin B /\ z # s =>
             Cell(m2["subscription"], z) = Cell(Configured["subscription"], z)
        /\ \A z \in B : \A x \in TopicsOf(z) : Served(z, x, A2)
    BY <1>7 DEF Base
  <2> QED  BY <1>10, <1>11, <2>1 DEF Visited
<1> QED  BY <1>12

\* So the snapshots are the work of a sequence.
LEMMA SnapshotsInSomeOrder ==
  ASSUME EInv, phase = "serving" PROVE InSomeOrder("snapshot")
<1> DEFINE Good(B) == \E X, m, A : Visited(B, X, m, A)
           T == {B \in SUBSET SubsOf : Good(B)}
<1>1. {} \in T
  <2>1. Reached({}, Configured)
    BY ReachedFirst DEF EInv, Serving
  <2>2. \A n : Cell(Configured["snapshot"], n) = {}
    BY DEF EInv, Serving, ConfiguredIsSound, Cell
  <2>3. Visited({}, {}, Configured, {})
    BY <2>1, <2>2 DEF Visited, Progress
  <2>4. Good({})
    BY <2>3
  <2> HIDE DEF Good
  <2> QED  BY <2>4
<1>2. ASSUME NEW B \in T, NEW s \in SubsOf \ B PROVE B \cup {s} \in T
  <2>1. Good(B)
    <3> HIDE DEF Good
    <3> QED  OBVIOUS
  <2>2. Good(B \cup {s})
    BY <2>1, OneSubscriptionMore
  <2> HIDE DEF Good
  <2> QED  BY <2>2
<1>3. IsFiniteSet(SubsOf)
  <2> DEFINE D == {x \in Ok : asked[x].kind = "snapshot" /\ asked[x].op = "create"}
             f == [r \in D |-> asked[r].value.sub]
  <2>1. IsFiniteSet(D)
    <3> HIDE DEF Ok
    <3> QED  BY FS_Subset DEF EInv
  <2>2. f \in Surjection(D, SubsOf)
    BY DEF Surjection, SubsOf
  <2> HIDE DEF D, f
  <2> QED  BY <2>1, <2>2, FS_Surjection
<1>4. SubsOf \in T
  <2> HIDE DEF Good, SubsOf
  <2> QED  BY <1>1, <1>2, <1>3, OneByOne
<1>5. PICK X, m, A : Visited(SubsOf, X, m, A)
  BY <1>4
<1>6. Progress(X, m, A) /\ \A s \in SubsOf : \A x \in TopicsOf(s) : Served(s, x, A)
  BY <1>5 DEF Visited
<1>7. PICK X2, m2, A2 :
        /\ Progress(X2, m2, A2) /\ A \subseteq A2
        /\ \A n \in NamesOf("snapshot") : Ready(m, n) => n \in A2
  BY <1>6, AllThatAreReady
<1>8. ASSUME NEW n \in NamesOf("snapshot") PROVE n \in A2
  <2>1. CASE Cell(stored["snapshot"], n) = {}
    BY <1>7, <2>1 DEF Ready
  <2>2. CASE Cell(stored["snapshot"], n) # {}
    <3>1. PICK s \in SubsOf : \E x \in TopicsOf(s) : Due(n, s, x)
      BY <2>2, LastBirth
    <3> QED  BY <1>6, <1>7, <3>1 DEF Served
  <2> QED  BY <2>1, <2>2
<1>9. \A n : Cell(m2["snapshot"], n) = Cell(stored["snapshot"], n)
  <2> SUFFICES ASSUME NEW n PROVE Cell(m2["snapshot"], n) = Cell(stored["snapshot"], n)
    OBVIOUS
  <2>1. CASE n \in A2
    BY <1>7, <2>1 DEF Progress
  <2>2. CASE n \notin A2
    <3>1. Cell(stored["snapshot"], n) = Cell(Configured["snapshot"], n)
      BY <1>8, <2>2, ConfiguredElse DEF Kind
    <3>2. Cell(Configured["snapshot"], n) = {}
      BY DEF EInv, Serving, ConfiguredIsSound, Cell
    <3> QED  BY <1>7, <2>2, <3>1, <3>2 DEF Progress
  <2> QED  BY <2>1, <2>2
<1>10. \A r \in Ok \ crowded : asked[r].kind = "snapshot" => r \in X2
  <2>1. \A r \in Ok : asked[r].kind = "snapshot" => asked[r].name \in NamesOf("snapshot")
    BY DEF NamesOf
  <2> HIDE DEF Ok
  <2> QED  BY <1>7, <1>8, <2>1 DEF Progress
<1>11. Reached(X2, m2) /\ "snapshot" \in Kind
  BY <1>7 DEF Progress, Kind
<1> HIDE DEF Ok
<1> QED  BY <1>9, <1>10, <1>11, TheRestFollows

\* Each map is as if some of the requests that were answered with OK had run
\* one after the other, among them every one that met no other of its name.
THEOREM SomeOrder == Spec => []SomeInSomeOrder
<1>1. EInv => SomeInSomeOrder
  <2> SUFFICES ASSUME EInv, phase = "serving", NEW k \in Kind PROVE InSomeOrder(k)
    BY DEF SomeInSomeOrder, InSomeOrder, Ok
  <2> QED  BY NamesInSomeOrder, SnapshotsInSomeOrder
<1> QED  BY <1>1, AlwaysExplained, PTL
=============================================================================
