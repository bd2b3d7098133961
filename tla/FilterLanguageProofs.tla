------------------------ MODULE FilterLanguageProofs ------------------------
(***************************************************************************)
(* The parser of filters gives a text the value that the grammar gives it, *)
(* for any text, keys, strings and attributes.                             *)
(*                                                                         *)
(* Parse and Meanings are recursive functions.  That there are functions   *)
(* with their equations is FixedPoint, for both of them: what a call comes *)
(* to depends on calls of lower rank only.  For the parser this holds      *)
(* since no method moves back in the text.                                 *)
(***************************************************************************)
EXTENDS FilterLanguage, WellFoundedInduction, TLAPS

-----------------------------------------------------------------------------
(* Numbers, and functions that are defined by recursion.                   *)

\* Numbers have a least one.
LEMMA LeastNumber ==
  ASSUME NEW S \in SUBSET Nat, S # {}
  PROVE  \E x \in S : \A y \in S : x <= y
<1>1. PICK x \in S : \A y \in S : ~(<<y, x>> \in OpToRel(<, Nat))
  BY NatLessThanWellFounded, WFMin
<1>2. \A y \in S : y \in Nat /\ x \in Nat /\ ~(y < x)
  BY <1>1 DEF OpToRel
<1> QED  BY <1>2

\* What is not so of all numbers to n is so before some number and not of it.
LEMMA FirstFailure ==
  ASSUME NEW n \in Nat, NEW T, 0 \in T, ~(0 .. n \subseteq T)
  PROVE  \E i \in 1 .. n : i \notin T /\ i - 1 \in T
<1> DEFINE B == (0 .. n) \ T
<1>1. B \in SUBSET Nat /\ B # {}
  OBVIOUS
<1>2. PICK i \in B : \A j \in B : i <= j
  BY <1>1, LeastNumber
<1>3. i \in 1 .. n /\ i - 1 \in 0 .. n /\ ~(i <= i - 1)
  BY <1>2
<1> QED  BY <1>2, <1>3

\* F takes functions of G to functions of G, and what it makes of one at x
\* depends on what that is at lower ranks only.
Recursive(D, G, F, rank) ==
  /\ F \in [G -> G]
  /\ \A f \in G : f = [x \in D |-> f[x]]
  /\ \A x \in D : rank[x] \in Nat
  /\ \A f, g \in G : \A x \in D :
       (\A y \in D : rank[y] < rank[x] => f[y] = g[y]) => F[f][x] = F[g][x]

LEMMA FixedPoint ==
  ASSUME NEW D, NEW G, NEW F, NEW rank, Recursive(D, G, F, rank),
         NEW n \in Nat, \A x \in D : rank[x] < n, G # {}
  PROVE  \E f \in G : f = F[f]
<1> DEFINE T == {i \in Nat : \E f \in G : \A x \in D : rank[x] < i => f[x] = F[f][x]}
<1>1. 0 \in T
  <2>1. PICK f \in G : TRUE
    OBVIOUS
  <2>2. \A x \in D : ~(rank[x] < 0)
    BY DEF Recursive
  <2> QED  BY <2>1, <2>2
<1>2. ASSUME NEW i \in 1 .. n, i - 1 \in T PROVE i \in T
  <2>1. PICK f \in G : \A x \in D : rank[x] < i - 1 => f[x] = F[f][x]
    BY <1>2
  <2>2. F[f] \in G
    BY DEF Recursive
  <2>3. ASSUME NEW x \in D, rank[x] < i PROVE F[f][x] = F[F[f]][x]
    <3>1. \A y \in D : rank[y] < rank[x] => rank[y] < i - 1
      BY <2>3 DEF Recursive
    <3>2. \A y \in D : rank[y] < rank[x] => f[y] = F[f][y]
      BY <2>1, <3>1
    <3> QED  BY <2>2, <3>2 DEF Recursive
  <2>4. i \in Nat
    OBVIOUS
  <2> QED  BY <2>2, <2>3, <2>4
<1>3. n \in T
  <2> HIDE DEF T
  <2> QED  BY <1>1, <1>2, FirstFailure
<1>4. PICK f \in G : \A x \in D : rank[x] < n => f[x] = F[f][x]
  BY <1>3
<1>5. F[f] \in G /\ \A x \in D : f[x] = F[f][x]
  BY <1>4 DEF Recursive
<1>6. f = [x \in D |-> f[x]] /\ F[f] = [x \in D |-> F[f][x]]
  BY <1>5 DEF Recursive
<1> QED  BY <1>5, <1>6

-----------------------------------------------------------------------------
(* Strings: the order of their bytes is a linear one.                      *)

LEMMA PrefixByElement ==
  ASSUME NEW u \in Seq(Nat), NEW v \in Seq(Nat)
  PROVE  IsPrefix(u, v) <=> Len(u) <= Len(v) /\ \A n \in DOMAIN u : u[n] = v[n]
<1>1. PICK l \in Nat : l = Len(u) /\ DOMAIN u = 1 .. l /\ DOMAIN v = 1 .. Len(v) /\ Len(v) \in Nat
  OBVIOUS
<1>2. ASSUME l <= Len(v)
      PROVE  /\ SubSeq(u, 1, l) = [n \in 1 .. l |-> u[n]]
             /\ SubSeq(v, 1, l) = [n \in 1 .. l |-> v[n]]
  <2>1. \A n \in 1 .. l : 1 + n - 1 = n
    BY <1>1
  <2> QED  BY <1>1, <1>2, <2>1
<1>3. CASE l <= Len(v)
  BY <1>1, <1>2, <1>3 DEF IsPrefix
<1>4. CASE ~(l <= Len(v))
  BY <1>1, <1>4 DEF IsPrefix
<1> QED  BY <1>3, <1>4

\* Below, by the elements of its sequences.
LEMMA BelowByElement ==
  ASSUME NEW u \in Seq(Nat), NEW v \in Seq(Nat)
  PROVE  Below(u, v) <=>
           \/ Len(u) < Len(v) /\ \A n \in 1 .. Len(u) : u[n] = v[n]
           \/ \E i \in 1 .. Len(u) : /\ i \in 1 .. Len(v) /\ u[i] < v[i]
                                     /\ \A j \in 1 .. i - 1 : u[j] = v[j]
<1>1. /\ Len(u) \in Nat /\ DOMAIN u = 1 .. Len(u) /\ u = [n \in 1 .. Len(u) |-> u[n]]
      /\ Len(v) \in Nat /\ DOMAIN v = 1 .. Len(v) /\ v = [n \in 1 .. Len(v) |-> v[n]]
  OBVIOUS
<1>2. IsStrictPrefix(u, v) <=> Len(u) < Len(v) /\ \A n \in 1 .. Len(u) : u[n] = v[n]
  <2>1. IsPrefix(u, v) <=> Len(u) <= Len(v) /\ \A n \in 1 .. Len(u) : u[n] = v[n]
    BY <1>1, PrefixByElement
  <2>2. ASSUME Len(u) = Len(v), \A n \in 1 .. Len(u) : u[n] = v[n] PROVE u = v
    BY <1>1, <2>2
  <2>3. Len(u) # Len(v) => u # v
    OBVIOUS
  <2>4. Len(u) <= Len(v) <=> Len(u) < Len(v) \/ Len(u) = Len(v)
    <3>1. Len(u) \in Nat /\ Len(v) \in Nat
      OBVIOUS
    <3> QED  BY ONLY <3>1
  <2> QED  BY <2>1, <2>2, <2>3, <2>4 DEF IsStrictPrefix
<1> QED  BY <1>1, <1>2 DEF Below

LEMMA NotBothBelow ==
  ASSUME NEW u \in Seq(Nat), NEW v \in Seq(Nat), Below(u, v)
  PROVE  u # v /\ ~Below(v, u)
<1>1. /\ Len(u) \in Nat /\ \A n \in 1 .. Len(u) : u[n] \in Nat
      /\ Len(v) \in Nat /\ \A n \in 1 .. Len(v) : v[n] \in Nat
  OBVIOUS
<1>2. CASE Len(u) < Len(v) /\ \A n \in 1 .. Len(u) : u[n] = v[n]
  BY <1>1, <1>2, BelowByElement
<1>3. CASE \E i \in 1 .. Len(u) : /\ i \in 1 .. Len(v) /\ u[i] < v[i]
                                  /\ \A j \in 1 .. i - 1 : u[j] = v[j]
  <2>1. PICK i \in 1 .. Len(u) : /\ i \in 1 .. Len(v) /\ u[i] < v[i]
                                 /\ \A j \in 1 .. i - 1 : u[j] = v[j]
    BY <1>3
  <2>2. u[i] # v[i] /\ ~(v[i] < u[i])
    BY <1>1, <2>1
  <2>3. ASSUME NEW k \in 1 .. Len(v), k \in 1 .. Len(u), v[k] < u[k],
               \A j \in 1 .. k - 1 : v[j] = u[j]
        PROVE  FALSE
    <3>1. k # i /\ ~(k < i)
      BY <1>1, <2>1, <2>2, <2>3
    <3>2. i \in 1 .. k - 1
      BY <1>1, <2>1, <2>3, <3>1
    <3> QED  BY <2>2, <2>3, <3>2
  <2>4. ~(Len(v) < Len(u) /\ \A n \in 1 .. Len(v) : v[n] = u[n])
    BY <2>1, <2>2
  <2>5. ~Below(v, u)
    BY <2>3, <2>4, BelowByElement
  <2> QED  BY <2>2, <2>5
<1> QED  BY <1>2, <1>3, BelowByElement

LEMMA OneIsBelow ==
  ASSUME NEW u \in Seq(Nat), NEW v \in Seq(Nat), u # v
  PROVE  Below(u, v) \/ Below(v, u)
<1>1. PICK l \in Nat : /\ l = Len(u) /\ DOMAIN u = 1 .. l /\ u = [n \in 1 .. l |-> u[n]]
                       /\ \A n \in 1 .. l : u[n] \in Nat
  OBVIOUS
<1>2. PICK m \in Nat : /\ m = Len(v) /\ DOMAIN v = 1 .. m /\ v = [n \in 1 .. m |-> v[n]]
                       /\ \A n \in 1 .. m : v[n] \in Nat
  OBVIOUS
<1> DEFINE B == {n \in 1 .. l : n <= m /\ u[n] # v[n]}
<1>3. CASE B = {}
  <2>1. \A n \in 1 .. l : n <= m => u[n] = v[n]
    BY <1>3
  <2>2. l # m
    <3>1. ASSUME l = m PROVE \A n \in 1 .. l : u[n] = v[n]
      BY <2>1, <3>1
    <3> QED  BY <1>1, <1>2, <3>1
  <2>3. CASE l < m
    <3>1. \A n \in 1 .. l : u[n] = v[n]
      BY <2>1, <2>3
    <3> QED  BY <1>1, <1>2, <2>3, <3>1, BelowByElement
  <2>4. CASE m < l
    <3>1. \A n \in 1 .. m : v[n] = u[n]
      BY <2>1, <2>4
    <3> QED  BY <1>1, <1>2, <2>4, <3>1, BelowByElement
  <2> QED  BY <2>2, <2>3, <2>4
<1>4. CASE B # {}
  <2>1. PICK i \in B : \A j \in B : i <= j
    <3>1. B \in SUBSET Nat
      OBVIOUS
    <3> QED  BY <1>4, <3>1, LeastNumber
  <2>2. \A j \in 1 .. i - 1 : u[j] = v[j] /\ v[j] = u[j]
    BY <2>1
  <2>3. u[i] \in Nat /\ v[i] \in Nat /\ i \in 1 .. l /\ i \in 1 .. m
    BY <1>1, <1>2, <2>1
  <2>4. CASE u[i] < v[i]
    BY <1>1, <1>2, <2>2, <2>3, <2>4, BelowByElement
  <2>5. CASE v[i] < u[i]
    BY <1>1, <1>2, <2>2, <2>3, <2>5, BelowByElement
  <2> QED  BY <2>1, <2>3, <2>4, <2>5
<1> QED  BY <1>3, <1>4

\* A comparison comes to what its operator says.
LEMMA CompareSatisfies ==
  ASSUME NEW a \in Attributes, NEW key, NEW op \in Comparisons, NEW v \in Seq(Nat)
  PROVE  Compare(a, key, op, v) = Satisfies(a, key, op, v)
<1>1. CASE key \notin DOMAIN a
  BY <1>1 DEF Compare, Satisfies
<1>2. CASE key \in DOMAIN a
  <2>1. a[key] \in Seq(Nat)
    BY <1>2, AttributesAssumption
  <2>2. PICK u \in Seq(Nat) : u = a[key]
    BY <2>1
  <2>3. Below(u, v) => u # v /\ ~Below(v, u)
    BY NotBothBelow
  <2>4. Below(v, u) => u # v /\ ~Below(u, v)
    BY NotBothBelow
  <2>5. u # v => Below(u, v) \/ Below(v, u)
    BY OneIsBelow
  <2>6. Compare(a, key, op, v) = CASE op = "="  -> u = v
                                   [] op = "!=" -> u # v
                                   [] op = "<"  -> Below(u, v)
                                   [] op = "<=" -> ~Below(v, u)
                                   [] op = ">"  -> Below(v, u)
                                   [] op = ">=" -> ~Below(u, v)
                                   [] OTHER     -> FALSE
    BY <1>2, <2>2 DEF Compare
  <2>7. Below(u, v) \in BOOLEAN /\ Below(v, u) \in BOOLEAN
    BY DEF Below
  <2>8. CASE op = "="
    BY <1>2, <2>2, <2>6, <2>8 DEF Satisfies
  <2>9. CASE op = "!="
    BY <1>2, <2>2, <2>6, <2>9 DEF Satisfies
  <2>10. CASE op = "<"
    BY <1>2, <2>2, <2>6, <2>10, <2>7 DEF Satisfies
  <2>11. CASE op = "<="
    BY <1>2, <2>2, <2>3, <2>4, <2>5, <2>6, <2>11 DEF Satisfies
  <2>12. CASE op = ">"
    BY <1>2, <2>2, <2>6, <2>12, <2>7 DEF Satisfies
  <2>13. CASE op = ">="
    BY <1>2, <2>2, <2>3, <2>4, <2>5, <2>6, <2>13 DEF Satisfies
  <2> QED  BY <2>8, <2>9, <2>10, <2>11, <2>12, <2>13 DEF Comparisons
<1> QED  BY <1>1, <1>2

-----------------------------------------------------------------------------
(* The parser: no method moves back, or past the end of the text.          *)

IsText(s) == Len(s) \in Nat /\ DOMAIN s = 1 .. Len(s)
Onward(s, i) == {p \in 1 .. Len(s) + 1 : p >= i}

LEMMA ReadMoves ==
  ASSUME NEW s, IsText(s), NEW i \in 1 .. Len(s) + 1, NEW kind, Nothing \notin kind
  PROVE  Read(s, i, kind).pos \in Onward(s, i)
<1>1. CASE TokenAt(s, i) \in kind
  <2>1. i \in 1 .. Len(s)
    BY <1>1 DEF TokenAt, IsText
  <2>2. Read(s, i, kind).pos = i + 1
    BY <1>1 DEF Read
  <2> QED  BY <2>1, <2>2 DEF IsText, Onward
<1>2. CASE TokenAt(s, i) \notin kind
  BY <1>2 DEF Read, IsText, Onward
<1> QED  BY <1>1, <1>2

LEMMA ConsumeMoves ==
  ASSUME NEW s, IsText(s), NEW i \in 1 .. Len(s) + 1, NEW t, t # Nothing
  PROVE  Consume(s, i, t) \in Onward(s, i)
<1>1. CASE TokenAt(s, i) = t
  <2>1. i \in 1 .. Len(s)
    BY <1>1 DEF TokenAt, IsText
  <2> QED  BY <1>1, <2>1 DEF Consume, IsText, Onward
<1>2. CASE TokenAt(s, i) # t
  BY <1>2 DEF Consume, IsText, Onward
<1> QED  BY <1>1, <1>2

LEMMA TokensAreSomething ==
  Nothing \notin Words /\ Nothing \notin Comparisons /\ Nothing \notin DOMAIN Literal
BY FilterAssumption DEF Words, Comparisons, Nothing

LEMMA HasPrefixCallMoves ==
  ASSUME NEW s, IsText(s), NEW attrs, NEW i \in 1 .. Len(s) + 1
  PROVE  /\ HasPrefixCall(s, attrs, i) \in Outcomes(s)
         /\ HasPrefixCall(s, attrs, i).pos >= i
<1> DEFINE base == Read(s, i, Words)
           j1 == Consume(s, base.pos, ".")
           key == Read(s, j1, Words)
           j2 == Consume(s, key.pos, ",")
           str == Read(s, j2, DOMAIN Literal)
           j3 == Consume(s, str.pos, ")")
<1>1. Len(s) \in Nat /\ "." # Nothing /\ "," # Nothing /\ ")" # Nothing
  BY DEF IsText, Nothing
<1>2. base.pos \in Onward(s, i) /\ base.pos \in 1 .. Len(s) + 1
  BY ReadMoves, TokensAreSomething DEF Onward
<1>3. j1 \in Onward(s, base.pos) /\ j1 \in 1 .. Len(s) + 1
  BY <1>1, <1>2, ConsumeMoves DEF Onward
<1>4. key.pos \in Onward(s, j1) /\ key.pos \in 1 .. Len(s) + 1
  BY <1>3, ReadMoves, TokensAreSomething DEF Onward
<1>5. j2 \in Onward(s, key.pos) /\ j2 \in 1 .. Len(s) + 1
  BY <1>1, <1>4, ConsumeMoves DEF Onward
<1>6. str.pos \in Onward(s, j2) /\ str.pos \in 1 .. Len(s) + 1
  BY <1>5, ReadMoves, TokensAreSomething DEF Onward
<1>7. j3 \in Onward(s, str.pos) /\ j3 \in 1 .. Len(s) + 1
  BY <1>1, <1>6, ConsumeMoves DEF Onward
<1>8. PICK v \in BOOLEAN : HasPrefixCall(s, attrs, i) = [val |-> v, pos |-> j3]
  <2>1. HasPrefixCall(s, attrs, i) =
          [val |-> key.token \in DOMAIN attrs /\ IsPrefix(Value(str.token), attrs[key.token]),
           pos |-> j3]
    BY DEF HasPrefixCall, Found
  <2> QED  BY <2>1
<1> HIDE DEF base, j1, key, j2, str, j3
<1>9. j3 >= i
  <2>1. /\ base.pos >= i /\ j1 >= base.pos /\ key.pos >= j1
        /\ j2 >= key.pos /\ str.pos >= j2 /\ j3 >= str.pos
    BY <1>2, <1>3, <1>4, <1>5, <1>6, <1>7 DEF Onward
  <2>2. /\ base.pos \in Nat /\ j1 \in Nat /\ key.pos \in Nat
        /\ j2 \in Nat /\ str.pos \in Nat /\ j3 \in Nat /\ i \in Nat
    BY <1>2, <1>3, <1>4, <1>5, <1>6, <1>7
  <2> QED  BY ONLY <2>1, <2>2
<1> QED  BY <1>7, <1>8, <1>9 DEF Outcomes

LEMMA FieldTestMoves ==
  ASSUME NEW s, IsText(s), NEW attrs, NEW i \in 1 .. Len(s) + 1
  PROVE  /\ FieldTest(s, attrs, i) \in Outcomes(s)
         /\ FieldTest(s, attrs, i).pos >= i
<1> DEFINE base == Read(s, i, Words)
           sep == TokenAt(s, base.pos)
           key == Read(s, base.pos + 1, Words)
           op == Read(s, key.pos, Comparisons)
           str == Read(s, op.pos, DOMAIN Literal)
           test == FieldTest(s, attrs, i)
<1>1. Len(s) \in Nat /\ i \in Nat
  BY DEF IsText
<1>2. base.pos \in Onward(s, i) /\ base.pos \in 1 .. Len(s) + 1
  BY ReadMoves, TokensAreSomething DEF Onward
<1>3. test = CASE base.token = "attributes" /\ sep = ":" ->
                    Found(key.token \in DOMAIN attrs, key.pos)
               [] base.token = "attributes" /\ sep = "." ->
                    Found(Compare(attrs, key.token, op.token, Value(str.token)), str.pos)
               [] base.token = "attributes" /\ sep \notin {":", "."} -> Found(FALSE, base.pos)
               [] OTHER -> Found(FALSE, base.pos)
  BY DEF FieldTest
<1>4. CASE sep \in {":", "."}
  <2>1. base.pos \in 1 .. Len(s)
    BY <1>4 DEF TokenAt, IsText, Nothing
  <2>2. base.pos + 1 \in 1 .. Len(s) + 1
    BY <1>1, <2>1
  <2>3. key.pos \in Onward(s, base.pos + 1) /\ key.pos \in 1 .. Len(s) + 1
    BY <2>2, ReadMoves, TokensAreSomething DEF Onward
  <2>4. op.pos \in Onward(s, key.pos) /\ op.pos \in 1 .. Len(s) + 1
    BY <2>3, ReadMoves, TokensAreSomething DEF Onward
  <2>5. str.pos \in Onward(s, op.pos) /\ str.pos \in 1 .. Len(s) + 1
    BY <2>4, ReadMoves, TokensAreSomething DEF Onward
  <2>6. \E v \in BOOLEAN : \E p \in {base.pos, key.pos, str.pos} : test = [val |-> v, pos |-> p]
    <3>1. Compare(attrs, key.token, op.token, Value(str.token)) \in BOOLEAN
      <4> DEFINE k == key.token
                 v == Value(str.token)
      <4>1. Below(attrs[k], v) \in BOOLEAN /\ Below(v, attrs[k]) \in BOOLEAN
        BY DEF Below
      <4> HIDE DEF k, v
      <4>2. Compare(attrs, k, op.token, v) \in BOOLEAN
        BY <4>1 DEF Compare
      <4> QED  BY <4>2 DEF k, v
    <3> HIDE DEF base, sep, key, op, str, test
    <3>2. CASE base.token = "attributes" /\ sep = ":"
      <4>1. (key.token \in DOMAIN attrs) \in BOOLEAN
        OBVIOUS
      <4>2. test = [val |-> key.token \in DOMAIN attrs, pos |-> key.pos]
        BY <1>3, <3>2 DEF Found
      <4> QED  BY <4>1, <4>2
    <3>3. CASE base.token = "attributes" /\ sep = "."
      BY <1>3, <3>1, <3>3 DEF Found
    <3>4. CASE base.token # "attributes"
      BY <1>3, <3>4 DEF Found
    <3> QED  BY <1>4, <3>2, <3>3, <3>4
  <2> HIDE DEF base, sep, key, op, str, test
  <2>7. \A p \in {base.pos, key.pos, str.pos} : p \in 1 .. Len(s) + 1 /\ p >= i
    BY <1>1, <1>2, <2>1, <2>3, <2>4, <2>5 DEF Onward
  <2>8. test \in Outcomes(s) /\ test.pos >= i
    BY <2>6, <2>7 DEF Outcomes
  <2> QED  BY <2>8 DEF test
<1>5. CASE sep \notin {":", "."}
  <2> HIDE DEF base, sep, key, op, str, test
  <2>1. test = [val |-> FALSE, pos |-> base.pos]
    BY <1>3, <1>5 DEF Found
  <2>2. test \in Outcomes(s) /\ test.pos >= i
    BY <1>2, <2>1 DEF Outcomes, Onward
  <2> QED  BY <2>2 DEF test
<1> QED  BY <1>4, <1>5

\* What calls may come to: a place that is not before the one they start at.
Calls(s) == Method \X Outcomes(s)
Advancing(s) == {f \in [Calls(s) -> Outcomes(s)] : \A c \in Calls(s) : f[c].pos >= c[2].pos}

\* A call makes others further on, or of methods of a lower level.
Height == [or |-> 5, OR |-> 4, and |-> 3, AND |-> 2, not |-> 1, primary |-> 0]
Rank(s, c) == 6 * (Len(s) + 1 - c[2].pos) + Height[c[1]]

LEMMA RankFalls ==
  ASSUME NEW s, IsText(s), NEW m \in Method, NEW l \in Outcomes(s),
         NEW n \in Method, NEW r \in Outcomes(s)
  PROVE  /\ <<n, r>> \in Calls(s)
         /\ r.pos > l.pos => Rank(s, <<n, r>>) < Rank(s, <<m, l>>)
         /\ r.pos >= l.pos /\ Height[n] < Height[m] => Rank(s, <<n, r>>) < Rank(s, <<m, l>>)
<1>1. /\ Height[n] \in 0 .. 5 /\ Height[m] \in 0 .. 5
      /\ l.pos \in 1 .. Len(s) + 1 /\ r.pos \in 1 .. Len(s) + 1 /\ Len(s) \in Nat
  BY DEF Method, Height, Outcomes, IsText
<1>2. PICK a \in Nat : a = Len(s) + 1 - l.pos
  BY <1>1
<1>3. PICK b \in Nat : b = Len(s) + 1 - r.pos
  BY <1>1
<1>4. PICK x \in 0 .. 5 : x = Height[n]
  BY <1>1
<1>5. PICK y \in 0 .. 5 : y = Height[m]
  BY <1>1
<1>6. /\ r.pos > l.pos => b < a
      /\ r.pos >= l.pos => b <= a
  BY <1>1, <1>2, <1>3
<1>7. /\ b < a => 6 * b + x < 6 * a + y
      /\ b <= a /\ x < y => 6 * b + x < 6 * a + y
  BY ONLY a \in Nat, b \in Nat, x \in 0 .. 5, y \in 0 .. 5
<1>8. Rank(s, <<n, r>>) = 6 * b + x /\ Rank(s, <<m, l>>) = 6 * a + y
  BY <1>2, <1>3, <1>4, <1>5 DEF Rank
<1> QED  BY <1>4, <1>5, <1>6, <1>7, <1>8 DEF Calls

LEMMA RankIsNumber ==
  ASSUME NEW s, IsText(s), NEW c \in Calls(s)
  PROVE  Rank(s, c) \in Nat /\ Rank(s, c) < 6 * (Len(s) + 2)
<1>1. c[1] \in Method /\ c[2] \in Outcomes(s)
  BY DEF Calls
<1>2. Height[c[1]] \in 0 .. 5 /\ c[2].pos \in 1 .. Len(s) + 1 /\ Len(s) \in Nat
  BY <1>1 DEF Method, Height, Outcomes, IsText
<1>3. PICK h \in 0 .. 5 : h = Height[c[1]]
  BY <1>2
<1>4. PICK a \in Nat : a = Len(s) + 1 - c[2].pos /\ a <= Len(s)
  BY <1>2
<1>5. PICK k \in Nat : k = Len(s)
  BY <1>2
<1>6. a <= k
  BY <1>4, <1>5
<1>7. 6 * a + h \in Nat /\ 6 * a + h < 6 * (k + 2)
  BY ONLY <1>6, a \in Nat, h \in 0 .. 5, k \in Nat
<1> QED  BY <1>3, <1>4, <1>5, <1>7 DEF Rank

\* Where there is a token there is a place behind it.
LEMMA BehindToken ==
  ASSUME NEW s, IsText(s), NEW l \in Outcomes(s), TokenAt(s, l.pos) # Nothing
  PROVE  /\ Found(FALSE, l.pos + 1) \in Outcomes(s)
         /\ Found(FALSE, l.pos + 1).pos = l.pos + 1
         /\ l.pos + 1 > l.pos /\ l.pos \in Nat
<1>1. l.pos \in 1 .. Len(s) /\ Len(s) \in Nat
  BY DEF TokenAt, IsText
<1> QED  BY <1>1 DEF Found, Outcomes

LEMMA AdvancingCall ==
  ASSUME NEW s, NEW f \in Advancing(s), NEW m \in Method, NEW l \in Outcomes(s)
  PROVE  /\ f[<<m, l>>] \in Outcomes(s)
         /\ f[<<m, l>>].pos >= l.pos
         /\ f[<<m, l>>].pos \in 1 .. Len(s) + 1 /\ f[<<m, l>>].val \in BOOLEAN
<1>1. <<m, l>> \in Calls(s)
  BY DEF Calls
<1>2. f[<<m, l>>] \in Outcomes(s) /\ f[<<m, l>>].pos >= l.pos
  BY <1>1 DEF Advancing
<1> QED  BY <1>2 DEF Outcomes

LEMMA JoinMoves ==
  ASSUME NEW s, NEW op, NEW l \in Outcomes(s), NEW r \in Outcomes(s)
  PROVE  Join(op, l, r) \in Outcomes(s) /\ Join(op, l, r).pos = r.pos
BY DEF Join, Found, Outcomes

LEMMA BodyMoves ==
  ASSUME NEW s, IsText(s), NEW attrs, NEW f \in Advancing(s),
         NEW m \in Method, NEW l \in Outcomes(s)
  PROVE  /\ Body(s, attrs, f, m, l) \in Outcomes(s)
         /\ Body(s, attrs, f, m, l).pos >= l.pos
<1> DEFINE from == Found(FALSE, l.pos + 1)
           t == TokenAt(s, l.pos)
           b == Body(s, attrs, f, m, l)
<1>1. l.pos \in 1 .. Len(s) + 1 /\ Len(s) \in Nat
  BY DEF Outcomes, IsText
<1>2. CASE m = "or"
  <2>1. PICK r \in Outcomes(s) : r = f[<<"and", l>>] /\ r.pos >= l.pos
    BY AdvancingCall DEF Method
  <2>2. f[<<"OR", r>>] \in Outcomes(s) /\ f[<<"OR", r>>].pos >= r.pos
    BY AdvancingCall DEF Method
  <2>3. b = f[<<"OR", r>>]
    BY <1>2, <2>1 DEF Body
  <2> QED  BY <1>1, <2>1, <2>2, <2>3 DEF Outcomes
<1>3. CASE m = "and"
  <2>1. PICK r \in Outcomes(s) : r = f[<<"not", l>>] /\ r.pos >= l.pos
    BY AdvancingCall DEF Method
  <2>2. f[<<"AND", r>>] \in Outcomes(s) /\ f[<<"AND", r>>].pos >= r.pos
    BY AdvancingCall DEF Method
  <2>3. b = f[<<"AND", r>>]
    BY <1>3, <2>1 DEF Body
  <2> QED  BY <1>1, <2>1, <2>2, <2>3 DEF Outcomes
<1>4. CASE m \in {"OR", "AND"} /\ t = m
  <2>1. /\ from \in Outcomes(s) /\ from.pos = l.pos + 1
    <3>1. t # Nothing
      BY <1>4 DEF Nothing
    <3> QED  BY <3>1, BehindToken
  <2>2. PICK r \in Outcomes(s) : r = f[<<Operand[m], from>>] /\ r.pos >= l.pos + 1
    <3>1. Operand[m] \in Method
      BY <1>4 DEF Method, Operand
    <3>2. PICK x \in Outcomes(s) : x = from
      BY <2>1
    <3>3. f[<<Operand[m], x>>] \in Outcomes(s) /\ f[<<Operand[m], x>>].pos >= x.pos
      BY <3>1, AdvancingCall
    <3> HIDE DEF from
    <3> QED  BY <2>1, <3>2, <3>3
  <2>3. PICK j \in Outcomes(s) : j = Join(m, l, r) /\ j.pos = r.pos
    BY JoinMoves
  <2>4. f[<<m, j>>] \in Outcomes(s) /\ f[<<m, j>>].pos >= j.pos
    BY AdvancingCall
  <2>5. b = f[<<m, j>>]
    BY <1>4, <2>2, <2>3 DEF Body
  <2> QED  BY <1>1, <2>2, <2>3, <2>4, <2>5 DEF Outcomes
<1>5. CASE m \in {"OR", "AND"} /\ t # m
  <2>1. b = l
    BY <1>5 DEF Body
  <2> QED  BY <1>1, <2>1
<1>6. CASE m = "not" /\ t \in {"NOT", "-"}
  <2>1. from \in Outcomes(s) /\ from.pos = l.pos + 1
    BY <1>6, BehindToken DEF Nothing
  <2>2. PICK r \in Outcomes(s) : r = f[<<"not", from>>] /\ r.pos >= l.pos + 1
    <3>1. "not" \in Method
      BY DEF Method
    <3>2. PICK x \in Outcomes(s) : x = from
      BY <2>1
    <3>3. f[<<"not", x>>] \in Outcomes(s) /\ f[<<"not", x>>].pos >= x.pos
      BY <3>1, AdvancingCall
    <3> HIDE DEF from
    <3> QED  BY <2>1, <3>2, <3>3
  <2>3. b = [val |-> ~r.val, pos |-> r.pos]
    BY <1>6, <2>2 DEF Body, Found
  <2> QED  BY <1>1, <2>2, <2>3 DEF Outcomes
<1>7. CASE m = "not" /\ t \notin {"NOT", "-"}
  <2>1. b = f[<<"primary", l>>]
    BY <1>7 DEF Body
  <2> QED  BY <2>1, AdvancingCall DEF Method
<1>8. CASE m = "primary" /\ t = "("
  <2>1. from \in Outcomes(s) /\ from.pos = l.pos + 1
    BY <1>8, BehindToken DEF Nothing
  <2>2. PICK r \in Outcomes(s) : r = f[<<"or", from>>] /\ r.pos >= l.pos + 1
    <3>1. "or" \in Method
      BY DEF Method
    <3>2. PICK x \in Outcomes(s) : x = from
      BY <2>1
    <3>3. f[<<"or", x>>] \in Outcomes(s) /\ f[<<"or", x>>].pos >= x.pos
      BY <3>1, AdvancingCall
    <3> HIDE DEF from
    <3> QED  BY <2>1, <3>2, <3>3
  <2>3. b = [val |-> r.val, pos |-> Consume(s, r.pos, ")")]
    BY <1>8, <2>2 DEF Body, Found
  <2>4. Consume(s, r.pos, ")") \in Onward(s, r.pos)
    <3>1. ")" # Nothing /\ r.pos \in 1 .. Len(s) + 1
      BY DEF Nothing, Outcomes
    <3> QED  BY <3>1, ConsumeMoves
  <2> QED  BY <1>1, <2>2, <2>3, <2>4 DEF Outcomes, Onward
<1>9. CASE m = "primary" /\ t = "hasPrefix" /\ TokenAt(s, l.pos + 1) = "("
  <2>1. l.pos + 1 \in 1 .. Len(s) /\ l.pos + 2 \in 1 .. Len(s) + 1
    BY <1>1, <1>9 DEF TokenAt, IsText, Nothing
  <2>2. b = HasPrefixCall(s, attrs, l.pos + 2)
    BY <1>9 DEF Body
  <2>3. b \in Outcomes(s) /\ b.pos >= l.pos + 2
    BY <2>1, <2>2, HasPrefixCallMoves
  <2> QED  BY <1>1, <2>3 DEF Outcomes
<1>10. CASE /\ m = "primary" /\ t # "("
            /\ ~(t = "hasPrefix" /\ TokenAt(s, l.pos + 1) = "(")
  <2>1. b = FieldTest(s, attrs, l.pos)
    BY <1>10 DEF Body
  <2> QED  BY <1>1, <2>1, FieldTestMoves
<1> QED
  BY <1>2, <1>3, <1>4, <1>5, <1>6, <1>7, <1>8, <1>9, <1>10 DEF Method

\* What a call comes to depends on calls of lower rank.
LEMMA BodyDepends ==
  ASSUME NEW s, IsText(s), NEW attrs, NEW f \in Advancing(s), NEW g,
         NEW m \in Method, NEW l \in Outcomes(s),
         \A c \in Calls(s) : Rank(s, c) < Rank(s, <<m, l>>) => f[c] = g[c]
  PROVE  Body(s, attrs, f, m, l) = Body(s, attrs, g, m, l)
<1> DEFINE from == Found(FALSE, l.pos + 1)
           t == TokenAt(s, l.pos)
<1>1. ASSUME NEW n \in Method, NEW r \in Outcomes(s)
      PROVE  /\ r.pos > l.pos => f[<<n, r>>] = g[<<n, r>>]
             /\ r.pos >= l.pos /\ Height[n] < Height[m] => f[<<n, r>>] = g[<<n, r>>]
  BY RankFalls
<1>2. l.pos \in Nat /\ l.pos >= l.pos
  BY DEF Outcomes
<1>3. CASE m = "or"
  <2>1. PICK r \in Outcomes(s) : r = f[<<"and", l>>] /\ r.pos >= l.pos
    BY AdvancingCall DEF Method
  <2>2. r = g[<<"and", l>>] /\ f[<<"OR", r>>] = g[<<"OR", r>>]
    BY <1>1, <1>2, <1>3, <2>1 DEF Method, Height
  <2> QED  BY <1>3, <2>1, <2>2 DEF Body
<1>4. CASE m = "and"
  <2>1. PICK r \in Outcomes(s) : r = f[<<"not", l>>] /\ r.pos >= l.pos
    BY AdvancingCall DEF Method
  <2>2. r = g[<<"not", l>>] /\ f[<<"AND", r>>] = g[<<"AND", r>>]
    BY <1>1, <1>2, <1>4, <2>1 DEF Method, Height
  <2> QED  BY <1>4, <2>1, <2>2 DEF Body
<1>5. ASSUME NEW n \in Method, t # Nothing
      PROVE  /\ f[<<n, from>>] = g[<<n, from>>]
             /\ f[<<n, from>>] \in Outcomes(s) /\ f[<<n, from>>].pos > l.pos
  <2>1. from \in Outcomes(s) /\ from.pos = l.pos + 1 /\ l.pos + 1 > l.pos
    BY <1>5, BehindToken
  <2>2. PICK x \in Outcomes(s) : x = from
    BY <2>1
  <2>3. /\ f[<<n, x>>] \in Outcomes(s) /\ f[<<n, x>>].pos >= x.pos
        /\ f[<<n, x>>].pos \in 1 .. Len(s) + 1
    BY AdvancingCall
  <2>4. f[<<n, x>>] = g[<<n, x>>]
    <3>1. x.pos > l.pos
      BY <2>1, <2>2
    <3> QED  BY <1>1, <3>1
  <2> HIDE DEF from
  <2> QED  BY <1>2, <2>1, <2>2, <2>3, <2>4
<1>6. CASE m \in {"OR", "AND"} /\ t = m
  <2>1. t # Nothing /\ Operand[m] \in Method
    <3>1. t # Nothing
      BY <1>6 DEF Nothing
    <3>2. Operand[m] \in Method
      BY <1>6 DEF Operand, Method
    <3> QED  BY <3>1, <3>2
  <2>2. PICK r \in Outcomes(s) :
          r = f[<<Operand[m], from>>] /\ r = g[<<Operand[m], from>>] /\ r.pos > l.pos
    BY <1>5, <2>1
  <2>3. Join(m, l, r) \in Outcomes(s) /\ Join(m, l, r).pos = r.pos
    BY JoinMoves
  <2>4. f[<<m, Join(m, l, r)>>] = g[<<m, Join(m, l, r)>>]
    <3>1. PICK j \in Outcomes(s) : j = Join(m, l, r) /\ j.pos > l.pos
      BY <2>2, <2>3
    <3> QED  BY <1>1, <3>1
  <2> QED  BY <1>6, <2>2, <2>4 DEF Body
<1>7. CASE m \in {"OR", "AND"} /\ t # m
  BY <1>7 DEF Body
<1>8. CASE m = "not" /\ t \in {"NOT", "-"}
  <2>1. f[<<"not", from>>] = g[<<"not", from>>]
    BY <1>5, <1>8 DEF Nothing, Method
  <2> QED  BY <1>8, <2>1 DEF Body
<1>9. CASE m = "not" /\ t \notin {"NOT", "-"}
  <2>1. f[<<"primary", l>>] = g[<<"primary", l>>]
    BY <1>1, <1>2, <1>9 DEF Method, Height
  <2> QED  BY <1>9, <2>1 DEF Body
<1>10. CASE m = "primary" /\ t = "("
  <2>1. f[<<"or", from>>] = g[<<"or", from>>]
    BY <1>5, <1>10 DEF Nothing, Method
  <2> QED  BY <1>10, <2>1 DEF Body
<1>11. CASE m = "primary" /\ t # "("
  BY <1>11 DEF Body
<1> QED
  BY <1>3, <1>4, <1>6, <1>7, <1>8, <1>9, <1>10, <1>11 DEF Method

\* The recursion of the parser has a solution that never moves back.
LEMMA ParserExists ==
  ASSUME NEW s, IsText(s), NEW attrs
  PROVE  \E f \in Advancing(s) : f = [c \in Calls(s) |-> Body(s, attrs, f, c[1], c[2])]
<1> DEFINE G == Advancing(s)
           F == [f \in G |-> [c \in Calls(s) |-> Body(s, attrs, f, c[1], c[2])]]
           rank == [c \in Calls(s) |-> Rank(s, c)]
<1>1. \A c \in Calls(s) : c[1] \in Method /\ c[2] \in Outcomes(s) /\ c = <<c[1], c[2]>>
  BY DEF Calls
<1>2. ASSUME NEW f \in G PROVE F[f] \in G
  <2>1. \A c \in Calls(s) : /\ F[f][c] = Body(s, attrs, f, c[1], c[2])
                            /\ F[f][c] \in Outcomes(s) /\ F[f][c].pos >= c[2].pos
    BY <1>1, BodyMoves
  <2>2. F[f] = [c \in Calls(s) |-> F[f][c]]
    OBVIOUS
  <2> HIDE DEF F
  <2> QED  BY <2>1, <2>2 DEF Advancing
<1>3. \A c \in Calls(s) : rank[c] \in Nat /\ rank[c] < 6 * (Len(s) + 2)
  BY RankIsNumber
<1>4. ASSUME NEW f \in G, NEW g \in G, NEW c \in Calls(s),
             \A d \in Calls(s) : rank[d] < rank[c] => f[d] = g[d]
      PROVE  F[f][c] = F[g][c]
  <2>1. PICK m \in Method, l \in Outcomes(s) : c = <<m, l>>
    BY <1>1
  <2>2. Body(s, attrs, f, m, l) = Body(s, attrs, g, m, l)
    BY <1>4, <2>1, BodyDepends
  <2> QED  BY <2>1, <2>2
<1>5. Recursive(Calls(s), G, F, rank)
  <2>1. F \in [G -> G]
    BY <1>2
  <2>2. \A f \in G : f = [c \in Calls(s) |-> f[c]]
    BY DEF Advancing
  <2> HIDE DEF F, G, rank
  <2> QED  BY <1>3, <1>4, <2>1, <2>2 DEF Recursive
<1>6. [c \in Calls(s) |-> c[2]] \in G
  <2>1. \A c \in Calls(s) : c[2].pos >= c[2].pos
    BY <1>1 DEF Outcomes
  <2> QED  BY <1>1, <2>1 DEF Advancing
<1>7. 6 * (Len(s) + 2) \in Nat
  BY DEF IsText
<1>8. \E f \in G : f = F[f]
  <2> HIDE DEF F, G, rank
  <2> QED  BY <1>3, <1>5, <1>6, <1>7, FixedPoint
<1> QED  BY <1>8

\* The function in Parse.
TheRun(s, attrs) ==
  CHOOSE run : run = [call \in Method \X Outcomes(s) |-> Body(s, attrs, run, call[1], call[2])]

LEMMA ParserRuns ==
  ASSUME NEW s, IsText(s), NEW attrs
  PROVE  /\ Parse(s, attrs) = TheRun(s, attrs)[<<"or", Found(FALSE, 1)>>]
         /\ \A m \in Method, l \in Outcomes(s) :
              TheRun(s, attrs)[<<m, l>>] = Body(s, attrs, TheRun(s, attrs), m, l)
         /\ TheRun(s, attrs) = [c \in Calls(s) |-> TheRun(s, attrs)[c]]
<1> DEFINE g == TheRun(s, attrs)
<1>1. Parse(s, attrs) = g[<<"or", Found(FALSE, 1)>>]
  BY DEF Parse, TheRun
<1>2. \E f : f = [call \in Method \X Outcomes(s) |-> Body(s, attrs, f, call[1], call[2])]
  <2>1. PICK f \in Advancing(s) : f = [c \in Calls(s) |-> Body(s, attrs, f, c[1], c[2])]
    BY ParserExists
  <2> HIDE DEF g
  <2> QED  BY <2>1 DEF Calls
<1>3. g = [call \in Method \X Outcomes(s) |-> Body(s, attrs, g, call[1], call[2])]
  BY <1>2 DEF TheRun
<1> HIDE DEF g
<1>4. \A m \in Method, l \in Outcomes(s) : g[<<m, l>>] = Body(s, attrs, g, m, l)
  <2> SUFFICES ASSUME NEW m \in Method, NEW l \in Outcomes(s)
               PROVE  g[<<m, l>>] = Body(s, attrs, g, m, l)
    OBVIOUS
  <2>1. <<m, l>> \in Method \X Outcomes(s)
    OBVIOUS
  <2> QED  BY <1>3, <2>1
<1>5. g = [c \in Calls(s) |-> g[c]]
  BY <1>3 DEF Calls
<1> QED  BY <1>1, <1>4, <1>5 DEF g

\* There is one solution only, so the parser is the one that never moves back.
LEMMA ParserAdvances ==
  ASSUME NEW s, IsText(s), NEW attrs
  PROVE  TheRun(s, attrs) \in Advancing(s)
<1> DEFINE g == TheRun(s, attrs)
<1>1. PICK f \in Advancing(s) : f = [c \in Calls(s) |-> Body(s, attrs, f, c[1], c[2])]
  BY ParserExists
<1>2. PICK n \in Nat : n = 6 * (Len(s) + 2)
  BY DEF IsText
<1> DEFINE T == {i \in Nat : \A c \in Calls(s) : Rank(s, c) < i => f[c] = g[c]}
<1>3. \A c \in Calls(s) : Rank(s, c) \in Nat /\ Rank(s, c) < n
  BY <1>2, RankIsNumber
<1>4. 0 \in T
  <2>1. \A c \in Calls(s) : ~(Rank(s, c) < 0)
    BY <1>3
  <2> QED  BY <2>1
<1>5. ASSUME NEW i \in 1 .. n, i - 1 \in T PROVE i \in T
  <2>1. ASSUME NEW c \in Calls(s), Rank(s, c) < i PROVE f[c] = g[c]
    <3>1. PICK m \in Method, l \in Outcomes(s) : c = <<m, l>>
      BY DEF Calls
    <3>2. \A d \in Calls(s) : Rank(s, d) < Rank(s, <<m, l>>) => Rank(s, d) < i - 1
      BY <1>3, <2>1, <3>1
    <3>3. \A d \in Calls(s) : Rank(s, d) < Rank(s, <<m, l>>) => f[d] = g[d]
      BY <1>5, <3>2
    <3>4. Body(s, attrs, f, m, l) = Body(s, attrs, g, m, l)
      <4> HIDE DEF g
      <4> QED  BY <3>3, BodyDepends
    <3>5. f[c] = Body(s, attrs, f, m, l)
      BY <1>1, <3>1
    <3>6. g[c] = Body(s, attrs, g, m, l)
      BY <3>1, ParserRuns
    <3> QED  BY <3>4, <3>5, <3>6
  <2> QED  BY <2>1
<1>6. n \in T
  <2> HIDE DEF T
  <2> QED  BY <1>4, <1>5, FirstFailure
<1>7. \A c \in Calls(s) : f[c] = g[c]
  BY <1>3, <1>6
<1>8. g = [c \in Calls(s) |-> g[c]] /\ f = [c \in Calls(s) |-> f[c]]
  BY ParserRuns DEF Advancing
<1>9. f = g
  <2> HIDE DEF g
  <2> QED  BY <1>7, <1>8
<1> QED  BY <1>9

\* Whatever the text, the parser comes to an end in it: no method, with all
\* that it calls, leaves the position before where it was or past the end,
\* where the next slice of the input would fail.
THEOREM StaysInText ==
  ASSUME NEW s \in Seq(STRING), NEW attrs
  PROVE  Parse(s, attrs) \in Outcomes(s)
<1>1. IsText(s)
  BY DEF IsText
<1>2. Found(FALSE, 1) \in Outcomes(s)
  BY DEF Found, Outcomes
<1>3. TheRun(s, attrs)[<<"or", Found(FALSE, 1)>>] \in Outcomes(s)
  BY <1>1, <1>2, ParserAdvances, AdvancingCall DEF Method
<1> QED  BY <1>1, <1>3, ParserRuns

-----------------------------------------------------------------------------
(* The parser reads a test as the grammar does.                            *)

\* The tokens of the three tests.
Existence(key) == <<"attributes", ":", key>>
Comparison(key, op, lit) == <<"attributes", ".", key, op, lit>>
PrefixTest(key, lit) == <<"hasPrefix", "(", "attributes", ".", key, ",", lit, ")">>

LEMMA PrefixTestLength ==
  ASSUME NEW key, NEW lit
  PROVE  Len(PrefixTest(key, lit)) = 8 /\ DOMAIN PrefixTest(key, lit) = 1 .. 8
BY DEF PrefixTest

LEMMA PrefixTestMarks ==
  ASSUME NEW key, NEW lit
  PROVE  /\ PrefixTest(key, lit)[1] = "hasPrefix"
         /\ PrefixTest(key, lit)[2] = "("
         /\ PrefixTest(key, lit)[3] = "attributes"
         /\ PrefixTest(key, lit)[4] = "."
         /\ PrefixTest(key, lit)[6] = ","
         /\ PrefixTest(key, lit)[8] = ")"
BY DEF PrefixTest

LEMMA PrefixTestOperands ==
  ASSUME NEW key, NEW lit
  PROVE  /\ PrefixTest(key, lit)[5] = key
         /\ PrefixTest(key, lit)[7] = lit
BY DEF PrefixTest

LEMMA TestForms ==
  ASSUME NEW s, NEW a, NEW i, NEW j, NEW v, Test(s, a, i, j, v)
  PROVE  \E key \in AttributeKey :
           \/ Spells(s, i, j, Existence(key)) /\ v = (key \in DOMAIN a)
           \/ \E op \in Comparisons, lit \in DOMAIN Literal :
                /\ Spells(s, i, j, Comparison(key, op, lit))
                /\ v = Satisfies(a, key, op, Literal[lit])
           \/ \E lit \in DOMAIN Literal :
                /\ Spells(s, i, j, PrefixTest(key, lit))
                /\ v = (key \in DOMAIN a /\ StartsWith(a[key], Literal[lit]))
BY DEF Test, Existence, Comparison, PrefixTest

LEMMA ExistenceIsRead ==
  ASSUME NEW s, IsText(s), NEW a, NEW i \in 1 .. Len(s) + 1, NEW j \in 1 .. Len(s) + 1,
         NEW key \in AttributeKey, Spells(s, i, j, Existence(key))
  PROVE  /\ TokenAt(s, i) = "attributes"
         /\ FieldTest(s, a, i) = Found(key \in DOMAIN a, j)
<1>1. /\ j = i + 3
      /\ TokenAt(s, i) = "attributes" /\ s[i] = "attributes"
      /\ TokenAt(s, i + 1) = ":"
      /\ TokenAt(s, i + 2) = key /\ s[i + 2] = key
  <2>1. PICK w : /\ w = Existence(key) /\ Len(w) = 3 /\ DOMAIN w = 1 .. 3
        /\ w[1] = "attributes" /\ w[2] = ":" /\ w[3] = key
    BY DEF Existence
  <2>2. j = i + 3 /\ \A n \in 1 .. 3 : s[i + n - 1] = w[n]
    BY <2>1 DEF Spells
  <2>3. /\ i + 1 - 1 = i /\ i + 2 - 1 = i + 1 /\ i + 3 - 1 = i + 2
    BY DEF IsText
  <2>4. /\ s[i] = w[1] /\ s[i + 1] = w[2] /\ s[i + 2] = w[3]
    BY <2>2, <2>3
  <2>5. /\ i \in 1 .. Len(s) /\ i + 1 \in 1 .. Len(s) /\ i + 2 \in 1 .. Len(s)
    BY <2>2 DEF IsText
  <2> QED  BY <2>1, <2>2, <2>4, <2>5 DEF TokenAt, IsText
<1>2. Read(s, i, Words) = [token |-> "attributes", pos |-> i + 1]
  BY <1>1 DEF Read, Words
<1>3. Read(s, i + 1 + 1, Words) = [token |-> key, pos |-> i + 3]
  <2>1. i + 1 + 1 = i + 2 /\ i + 2 + 1 = i + 3
    BY DEF IsText
  <2> QED  BY <1>1, <2>1 DEF Read, Words
<1> QED  BY <1>1, <1>2, <1>3 DEF FieldTest, Found

LEMMA ComparisonIsRead ==
  ASSUME NEW s, IsText(s), NEW a \in Attributes,
         NEW i \in 1 .. Len(s) + 1, NEW j \in 1 .. Len(s) + 1,
         NEW key \in AttributeKey, NEW op \in Comparisons, NEW lit \in DOMAIN Literal,
         Spells(s, i, j, Comparison(key, op, lit))
  PROVE  /\ TokenAt(s, i) = "attributes"
         /\ FieldTest(s, a, i) = Found(Satisfies(a, key, op, Literal[lit]), j)
<1>1. /\ j = i + 5
      /\ TokenAt(s, i) = "attributes" /\ s[i] = "attributes"
      /\ TokenAt(s, i + 1) = "."
      /\ TokenAt(s, i + 2) = key /\ s[i + 2] = key
      /\ TokenAt(s, i + 3) = op /\ s[i + 3] = op
      /\ TokenAt(s, i + 4) = lit /\ s[i + 4] = lit
  <2>1. PICK w : /\ w = Comparison(key, op, lit) /\ Len(w) = 5 /\ DOMAIN w = 1 .. 5
        /\ w[1] = "attributes" /\ w[2] = "." /\ w[3] = key /\ w[4] = op
        /\ w[5] = lit
    BY DEF Comparison
  <2>2. j = i + 5 /\ \A n \in 1 .. 5 : s[i + n - 1] = w[n]
    BY <2>1 DEF Spells
  <2>3. /\ i + 1 - 1 = i /\ i + 2 - 1 = i + 1 /\ i + 3 - 1 = i + 2 /\ i + 4 - 1 = i + 3
        /\ i + 5 - 1 = i + 4
    BY DEF IsText
  <2>4. /\ s[i] = w[1] /\ s[i + 1] = w[2] /\ s[i + 2] = w[3] /\ s[i + 3] = w[4]
        /\ s[i + 4] = w[5]
    BY <2>2, <2>3
  <2>5. /\ i \in 1 .. Len(s) /\ i + 1 \in 1 .. Len(s) /\ i + 2 \in 1 .. Len(s)
        /\ i + 3 \in 1 .. Len(s) /\ i + 4 \in 1 .. Len(s)
    BY <2>2 DEF IsText
  <2> QED  BY <2>1, <2>2, <2>4, <2>5 DEF TokenAt, IsText
<1>2. Read(s, i, Words) = [token |-> "attributes", pos |-> i + 1]
  BY <1>1 DEF Read, Words
<1>3. /\ i + 1 + 1 = i + 2 /\ i + 2 + 1 = i + 3 /\ i + 3 + 1 = i + 4 /\ i + 4 + 1 = i + 5
  BY DEF IsText
<1>4. Read(s, i + 1 + 1, Words) = [token |-> key, pos |-> i + 3]
  BY <1>1, <1>3 DEF Read, Words
<1>5. Read(s, i + 3, Comparisons) = [token |-> op, pos |-> i + 4]
  BY <1>1, <1>3 DEF Read
<1>6. Read(s, i + 4, DOMAIN Literal) = [token |-> lit, pos |-> i + 5]
  BY <1>1, <1>3 DEF Read
<1>7. Value(lit) = Literal[lit] /\ Literal[lit] \in Seq(Nat)
  BY FilterAssumption DEF Value
<1>8. FieldTest(s, a, i) = Found(Compare(a, key, op, Literal[lit]), j)
  BY <1>1, <1>2, <1>4, <1>5, <1>6, <1>7 DEF FieldTest
<1> QED  BY <1>1, <1>7, <1>8, CompareSatisfies

LEMMA PrefixTestIsRead ==
  ASSUME NEW s, IsText(s), NEW a \in Attributes,
         NEW i \in 1 .. Len(s) + 1, NEW j \in 1 .. Len(s) + 1,
         NEW key \in AttributeKey, NEW lit \in DOMAIN Literal,
         Spells(s, i, j, PrefixTest(key, lit))
  PROVE  /\ TokenAt(s, i) = "hasPrefix" /\ TokenAt(s, i + 1) = "("
         /\ HasPrefixCall(s, a, i + 2) =
              Found(key \in DOMAIN a /\ StartsWith(a[key], Literal[lit]), j)
<1>1. /\ j = i + 8
      /\ TokenAt(s, i) = "hasPrefix" /\ TokenAt(s, i + 1) = "("
      /\ TokenAt(s, i + 2) = "attributes" /\ s[i + 2] = "attributes"
      /\ TokenAt(s, i + 3) = "."
      /\ TokenAt(s, i + 4) = key /\ s[i + 4] = key
      /\ TokenAt(s, i + 5) = ","
      /\ TokenAt(s, i + 6) = lit /\ s[i + 6] = lit
      /\ TokenAt(s, i + 7) = ")"
  <2>1. PICK w : w = PrefixTest(key, lit)
    OBVIOUS
  <2>2. Len(w) = 8 /\ DOMAIN w = 1 .. 8
    BY <2>1, PrefixTestLength
  <2>3. /\ w[1] = "hasPrefix" /\ w[2] = "(" /\ w[3] = "attributes" /\ w[4] = "."
        /\ w[6] = "," /\ w[8] = ")"
    BY <2>1, PrefixTestMarks
  <2>4. w[5] = key /\ w[7] = lit
    BY <2>1, PrefixTestOperands
  <2>5. j = i + 8 /\ \A n \in 1 .. 8 : s[i + n - 1] = w[n]
    BY <2>1, <2>2 DEF Spells
  <2>6. /\ i + 1 - 1 = i /\ i + 2 - 1 = i + 1 /\ i + 3 - 1 = i + 2 /\ i + 4 - 1 = i + 3
        /\ i + 5 - 1 = i + 4 /\ i + 6 - 1 = i + 5 /\ i + 7 - 1 = i + 6 /\ i + 8 - 1 = i + 7
    BY DEF IsText
  <2>7. /\ s[i] = w[1] /\ s[i + 1] = w[2] /\ s[i + 2] = w[3] /\ s[i + 3] = w[4]
        /\ s[i + 4] = w[5] /\ s[i + 5] = w[6] /\ s[i + 6] = w[7] /\ s[i + 7] = w[8]
    BY <2>5, <2>6
  <2>8. /\ i \in 1 .. Len(s) /\ i + 1 \in 1 .. Len(s) /\ i + 2 \in 1 .. Len(s)
        /\ i + 3 \in 1 .. Len(s) /\ i + 4 \in 1 .. Len(s) /\ i + 5 \in 1 .. Len(s)
        /\ i + 6 \in 1 .. Len(s) /\ i + 7 \in 1 .. Len(s)
    <3>1. PICK n \in Nat : n = Len(s)
      BY DEF IsText
    <3>2. i \in 1 .. n + 1 /\ i + 8 \in 1 .. n + 1
      BY <2>5, <3>1
    <3> QED  BY ONLY <3>1, <3>2
  <2> QED  BY <2>5, <2>7, <2>8, <2>3, <2>4 DEF TokenAt, IsText
<1>2. /\ i + 2 + 1 = i + 3 /\ i + 3 + 1 = i + 4 /\ i + 4 + 1 = i + 5
      /\ i + 5 + 1 = i + 6 /\ i + 6 + 1 = i + 7 /\ i + 7 + 1 = i + 8
  BY DEF IsText
<1>3. Read(s, i + 2, Words) = [token |-> "attributes", pos |-> i + 3]
  BY <1>1, <1>2 DEF Read, Words
<1>4. Consume(s, i + 3, ".") = i + 4
  BY <1>1, <1>2 DEF Consume
<1>5. Read(s, i + 4, Words) = [token |-> key, pos |-> i + 5]
  BY <1>1, <1>2 DEF Read, Words
<1>6. Consume(s, i + 5, ",") = i + 6
  BY <1>1, <1>2 DEF Consume
<1>7. Read(s, i + 6, DOMAIN Literal) = [token |-> lit, pos |-> i + 7]
  BY <1>1, <1>2 DEF Read
<1>8. Consume(s, i + 7, ")") = j
  BY <1>1, <1>2 DEF Consume
<1>9. Value(lit) = Literal[lit] /\ Literal[lit] \in Seq(Nat)
  BY FilterAssumption DEF Value
<1>10. HasPrefixCall(s, a, i + 2) = Found(key \in DOMAIN a /\ IsPrefix(Literal[lit], a[key]), j)
  <2> DEFINE base == Read(s, i + 2, Words)
             k == Read(s, Consume(s, base.pos, "."), Words)
             str == Read(s, Consume(s, k.pos, ","), DOMAIN Literal)
  <2>1. HasPrefixCall(s, a, i + 2) =
          Found(k.token \in DOMAIN a /\ IsPrefix(Value(str.token), a[k.token]),
                Consume(s, str.pos, ")"))
    BY DEF HasPrefixCall
  <2>2. base.pos = i + 3
    BY <1>3
  <2>3. k = [token |-> key, pos |-> i + 5]
    BY <1>4, <1>5, <2>2
  <2>4. k.token = key /\ k.pos = i + 5
    BY <2>3
  <2>5. str = [token |-> lit, pos |-> i + 7]
    BY <1>6, <1>7, <2>4
  <2> HIDE DEF base, k, str
  <2>6. str.token = lit /\ str.pos = i + 7
    BY <2>5
  <2> QED  BY <1>8, <1>9, <2>1, <2>4, <2>6
<1>11. key \in DOMAIN a => (IsPrefix(Literal[lit], a[key]) <=> StartsWith(a[key], Literal[lit]))
  BY <1>9, AttributesAssumption, PrefixByElement DEF StartsWith
<1>12. (key \in DOMAIN a /\ IsPrefix(Literal[lit], a[key])) =
         (key \in DOMAIN a /\ StartsWith(a[key], Literal[lit]))
  BY <1>11
<1> QED  BY <1>1, <1>10, <1>12

\* What primary begins with: no sign of a negation.
Opening == {"(", "hasPrefix", "attributes"}

LEMMA TestIsRead ==
  ASSUME NEW s, IsText(s), NEW a \in Attributes, NEW run,
         NEW i \in 1 .. Len(s) + 1, NEW j \in 1 .. Len(s) + 1, NEW v, Test(s, a, i, j, v),
         NEW l \in Outcomes(s), l.pos = i
  PROVE  /\ TokenAt(s, i) \in Opening
         /\ Body(s, a, run, "primary", l) = Found(v, j)
<1>1. PICK key \in AttributeKey :
    \/ Spells(s, i, j, Existence(key)) /\ v = (key \in DOMAIN a)
    \/ \E op \in Comparisons, lit \in DOMAIN Literal :
         /\ Spells(s, i, j, Comparison(key, op, lit))
         /\ v = Satisfies(a, key, op, Literal[lit])
    \/ \E lit \in DOMAIN Literal :
         /\ Spells(s, i, j, PrefixTest(key, lit))
         /\ v = (key \in DOMAIN a /\ StartsWith(a[key], Literal[lit]))
  BY TestForms
<1>2. CASE Spells(s, i, j, Existence(key)) /\ v = (key \in DOMAIN a)
  <2>1. TokenAt(s, i) = "attributes" /\ FieldTest(s, a, i) = Found(v, j)
    BY <1>2, ExistenceIsRead
  <2> QED  BY <2>1 DEF Body, Opening
<1>3. ASSUME NEW op \in Comparisons, NEW lit \in DOMAIN Literal,
             Spells(s, i, j, Comparison(key, op, lit)),
             v = Satisfies(a, key, op, Literal[lit])
      PROVE  TokenAt(s, i) \in Opening /\ Body(s, a, run, "primary", l) = Found(v, j)
  <2>1. TokenAt(s, i) = "attributes" /\ FieldTest(s, a, i) = Found(v, j)
    BY <1>3, ComparisonIsRead
  <2> QED  BY <2>1 DEF Body, Opening
<1>4. ASSUME NEW lit \in DOMAIN Literal,
             Spells(s, i, j, PrefixTest(key, lit)),
             v = (key \in DOMAIN a /\ StartsWith(a[key], Literal[lit]))
      PROVE  TokenAt(s, i) \in Opening /\ Body(s, a, run, "primary", l) = Found(v, j)
  <2>1. /\ TokenAt(s, i) = "hasPrefix" /\ TokenAt(s, i + 1) = "("
        /\ HasPrefixCall(s, a, i + 2) = Found(v, j)
    BY <1>4, PrefixTestIsRead
  <2> QED  BY <2>1 DEF Body, Opening
<1> QED  BY <1>1, <1>2, <1>3, <1>4

-----------------------------------------------------------------------------
(* The grammar: what a phrase means depends on phrases of fewer tokens and *)
(* on levels that bind closer.                                             *)

Tier == [or |-> 3, and |-> 2, not |-> 1, primary |-> 0]
PhraseRank(s, p) == 4 * (p[3] + Len(s) + 1 - p[2]) + Tier[p[1]]

LEMMA PhraseRankFalls ==
  ASSUME NEW s, IsText(s), NEW x \in Level, NEW y \in Level,
         NEW i \in 1 .. Len(s) + 1, NEW j \in 1 .. Len(s) + 1,
         NEW k \in 1 .. Len(s) + 1, NEW l \in 1 .. Len(s) + 1
  PROVE  /\ <<y, k, l>> \in Phrases(s)
         /\ l - k < j - i => PhraseRank(s, <<y, k, l>>) < PhraseRank(s, <<x, i, j>>)
         /\ l - k = j - i /\ Tier[y] < Tier[x]
              => PhraseRank(s, <<y, k, l>>) < PhraseRank(s, <<x, i, j>>)
<1>1. PICK n \in Nat : n = Len(s)
  BY DEF IsText
<1>2. Tier[x] \in 0 .. 3 /\ Tier[y] \in 0 .. 3
  BY DEF Level, Tier
<1>3. PICK u \in 0 .. 3, v \in 0 .. 3 : u = Tier[x] /\ v = Tier[y]
  BY <1>2
<1>4. PICK a \in Int, b \in Int : a = j + n + 1 - i /\ b = l + n + 1 - k
  <2>1. j + n + 1 - i \in Int /\ l + n + 1 - k \in Int
    BY <1>1
  <2> QED  BY <2>1
<1>5. (l - k < j - i <=> b < a) /\ (l - k = j - i <=> b = a)
  BY <1>1, <1>4
<1>6. /\ b < a => 4 * b + v < 4 * a + u
      /\ b = a /\ v < u => 4 * b + v < 4 * a + u
  BY ONLY a \in Int, b \in Int, u \in 0 .. 3, v \in 0 .. 3
<1>7. PhraseRank(s, <<y, k, l>>) = 4 * b + v /\ PhraseRank(s, <<x, i, j>>) = 4 * a + u
  BY <1>1, <1>3, <1>4 DEF PhraseRank
<1> QED  BY <1>3, <1>5, <1>6, <1>7 DEF Phrases

LEMMA PhraseRankIsNumber ==
  ASSUME NEW s, IsText(s), NEW p \in Phrases(s)
  PROVE  PhraseRank(s, p) \in Nat /\ PhraseRank(s, p) < 8 * (Len(s) + 1)
<1>1. PICK n \in Nat : n = Len(s)
  BY DEF IsText
<1>2. p[1] \in Level /\ p[2] \in 1 .. n + 1 /\ p[3] \in 1 .. n + 1
  BY <1>1 DEF Phrases
<1>3. Tier[p[1]] \in 0 .. 3
  BY <1>2 DEF Level, Tier
<1>4. PICK u \in 0 .. 3 : u = Tier[p[1]]
  BY <1>3
<1>5. PICK i \in 1 .. n + 1, j \in 1 .. n + 1 : i = p[2] /\ j = p[3]
  BY <1>2
<1>6. PICK a \in Nat : a = j + n + 1 - i /\ a <= 2 * n + 1
  BY <1>1, <1>5
<1>7. 4 * a + u \in Nat /\ 4 * a + u < 8 * (n + 1)
  BY ONLY <1>6, n \in Nat, a \in Nat, u \in 0 .. 3
<1> QED  BY <1>1, <1>4, <1>5, <1>6, <1>7 DEF PhraseRank

\* The phrases that a phrase is made of.
Both(x, y) == x /\ y
Either(x, y) == x \/ y
Splits(s, op, i, j) == {k \in i .. j - 1 : s[k] = op}
Enclosed(s, i, j) == i < j /\ s[i] = "(" /\ s[j - 1] = ")"
Negated(s, i, j) == i < j /\ s[i] \in {"NOT", "-"}
Whole(m, level, i, j) == m[<<level, i, j>>]
Behind(m, level, i, j) == m[<<level, i + 1, j>>]
Inside(m, i, j) == m[<<"or", i + 1, j - 1>>]

\* The values of a phrase, one by one.
LEMMA PrimaryValues ==
  ASSUME NEW s, NEW a, NEW m, NEW i, NEW j, NEW v
  PROVE  v \in Values(s, a, m, "primary", i, j) <=>
           /\ v \in BOOLEAN
           /\ \/ Test(s, a, i, j, v)
              \/ Enclosed(s, i, j) /\ v \in Inside(m, i, j)
BY DEF Values, Enclosed, Inside

LEMMA NotValues ==
  ASSUME NEW s, NEW a, NEW m, NEW i, NEW j, NEW v
  PROVE  v \in Values(s, a, m, "not", i, j) <=>
           /\ v \in BOOLEAN
           /\ \/ v \in Whole(m, "primary", i, j)
              \/ Negated(s, i, j) /\ (~v) \in Behind(m, "not", i, j)
BY DEF Values, Negated, Whole, Behind

LEMMA AndValues ==
  ASSUME NEW s, NEW a, NEW m, NEW i, NEW j, NEW v
  PROVE  v \in Values(s, a, m, "and", i, j) <=>
           \/ v \in Whole(m, "not", i, j)
           \/ \E k \in Splits(s, "AND", i, j) :
                \E x \in Whole(m, "and", i, k), y \in Behind(m, "not", k, j) : v = Both(x, y)
<1>1. Values(s, a, m, "and", i, j) =
        Whole(m, "not", i, j) \cup
        UNION {{Both(x, y) : x \in Whole(m, "and", i, k), y \in Behind(m, "not", k, j)} :
                 k \in Splits(s, "AND", i, j)}
  BY DEF Values, Both, Whole, Behind, Splits
<1> QED  BY <1>1

LEMMA OrValues ==
  ASSUME NEW s, NEW a, NEW m, NEW i, NEW j, NEW v
  PROVE  v \in Values(s, a, m, "or", i, j) <=>
           \/ v \in Whole(m, "and", i, j)
           \/ \E k \in Splits(s, "OR", i, j) :
                \E x \in Whole(m, "or", i, k), y \in Behind(m, "and", k, j) : v = Either(x, y)
<1>1. Values(s, a, m, "or", i, j) =
        Whole(m, "and", i, j) \cup
        UNION {{Either(x, y) : x \in Whole(m, "or", i, k), y \in Behind(m, "and", k, j)} :
                 k \in Splits(s, "OR", i, j)}
  BY DEF Values, Either, Whole, Behind, Splits
<1> QED  BY <1>1

LEMMA ValuesAreTruths ==
  ASSUME NEW s, IsText(s), NEW a, NEW m \in [Phrases(s) -> SUBSET BOOLEAN], NEW x \in Level,
         NEW i \in 1 .. Len(s) + 1, NEW j \in 1 .. Len(s) + 1
  PROVE  Values(s, a, m, x, i, j) \in SUBSET BOOLEAN
<1>1. \A y \in Level : \A v \in Whole(m, y, i, j) : v \in BOOLEAN
  BY DEF Phrases, Whole
<1>2. \A y, z : Both(y, z) \in BOOLEAN /\ Either(y, z) \in BOOLEAN
  BY DEF Both, Either
<1>3. ASSUME NEW v \in Values(s, a, m, x, i, j) PROVE v \in BOOLEAN
  <2>1. CASE x = "primary"
    BY <1>3, <2>1, PrimaryValues
  <2>2. CASE x = "not"
    BY <1>3, <2>2, NotValues
  <2>3. CASE x = "and"
    BY <1>1, <1>2, <1>3, <2>3, AndValues DEF Level
  <2>4. CASE x = "or"
    BY <1>1, <1>2, <1>3, <2>4, OrValues DEF Level
  <2> QED  BY <2>1, <2>2, <2>3, <2>4 DEF Level
<1> QED  BY <1>3

LEMMA ValuesDepend ==
  ASSUME NEW s, IsText(s), NEW a, NEW f, NEW g, NEW x \in Level,
         NEW i \in 1 .. Len(s) + 1, NEW j \in 1 .. Len(s) + 1,
         \A p \in Phrases(s) : PhraseRank(s, p) < PhraseRank(s, <<x, i, j>>) => f[p] = g[p]
  PROVE  Values(s, a, f, x, i, j) = Values(s, a, g, x, i, j)
<1>1. ASSUME NEW y \in Level, NEW k \in 1 .. Len(s) + 1, NEW l \in 1 .. Len(s) + 1
      PROVE  /\ l - k < j - i => f[<<y, k, l>>] = g[<<y, k, l>>]
             /\ l - k = j - i /\ Tier[y] < Tier[x] => f[<<y, k, l>>] = g[<<y, k, l>>]
  BY PhraseRankFalls
<1>2. Len(s) \in Nat /\ i \in Int /\ j \in Int
  BY DEF IsText
<1>3. ASSUME NEW y \in Level, Tier[y] < Tier[x]
      PROVE  Whole(f, y, i, j) = Whole(g, y, i, j)
  BY <1>1, <1>3 DEF Whole
<1>4. ASSUME i < j
      PROVE  /\ Inside(f, i, j) = Inside(g, i, j)
             /\ Behind(f, "not", i, j) = Behind(g, "not", i, j)
  <2>1. /\ i + 1 \in 1 .. Len(s) + 1 /\ j - 1 \in 1 .. Len(s) + 1
        /\ (j - 1) - (i + 1) < j - i /\ j - (i + 1) < j - i
    BY <1>2, <1>4
  <2> QED  BY <1>1, <2>1 DEF Level, Inside, Behind
<1>5. ASSUME NEW op, NEW k \in Splits(s, op, i, j), NEW y \in Level
      PROVE  /\ Whole(f, y, i, k) = Whole(g, y, i, k)
             /\ Behind(f, y, k, j) = Behind(g, y, k, j)
  <2>1. /\ k \in 1 .. Len(s) + 1 /\ k + 1 \in 1 .. Len(s) + 1
        /\ k - i < j - i /\ j - (k + 1) < j - i
    BY <1>2 DEF Splits
  <2> QED  BY <1>1, <2>1 DEF Whole, Behind
<1>6. ASSUME NEW v PROVE v \in Values(s, a, f, x, i, j) <=> v \in Values(s, a, g, x, i, j)
  <2>1. CASE x = "primary"
    <3>1. Enclosed(s, i, j) => (v \in Inside(f, i, j) <=> v \in Inside(g, i, j))
      BY <1>4 DEF Enclosed
    <3> QED  BY <2>1, <3>1, PrimaryValues
  <2>2. CASE x = "not"
    <3>1. Whole(f, "primary", i, j) = Whole(g, "primary", i, j)
      BY <1>3, <2>2 DEF Level, Tier
    <3>2. Negated(s, i, j) => Behind(f, "not", i, j) = Behind(g, "not", i, j)
      BY <1>4 DEF Negated
    <3> QED  BY <2>2, <3>1, <3>2, NotValues
  <2>3. CASE x = "and"
    <3>1. Whole(f, "not", i, j) = Whole(g, "not", i, j)
      BY <1>3, <2>3 DEF Level, Tier
    <3>2. \A k \in Splits(s, "AND", i, j) :
            /\ Whole(f, "and", i, k) = Whole(g, "and", i, k)
            /\ Behind(f, "not", k, j) = Behind(g, "not", k, j)
      BY <1>5 DEF Level
    <3> QED  BY <2>3, <3>1, <3>2, AndValues
  <2>4. CASE x = "or"
    <3>1. Whole(f, "and", i, j) = Whole(g, "and", i, j)
      BY <1>3, <2>4 DEF Level, Tier
    <3>2. \A k \in Splits(s, "OR", i, j) :
            /\ Whole(f, "or", i, k) = Whole(g, "or", i, k)
            /\ Behind(f, "and", k, j) = Behind(g, "and", k, j)
      BY <1>5 DEF Level
    <3> QED  BY <2>4, <3>1, <3>2, OrValues
  <2> QED  BY <2>1, <2>2, <2>3, <2>4 DEF Level
<1> QED  BY <1>6

\* The function in Meanings.
TheMeans(s, a) ==
  CHOOSE means : means = [p \in Phrases(s) |-> Values(s, a, means, p[1], p[2], p[3])]

LEMMA GrammarHasMeaning ==
  ASSUME NEW s, IsText(s), NEW a
  PROVE  /\ Meanings(s, a) = TheMeans(s, a)[<<"or", 1, Len(s) + 1>>]
         /\ \A x \in Level, i \in 1 .. Len(s) + 1, j \in 1 .. Len(s) + 1 :
              TheMeans(s, a)[<<x, i, j>>] = Values(s, a, TheMeans(s, a), x, i, j)
<1> DEFINE G == [Phrases(s) -> SUBSET BOOLEAN]
           F == [f \in G |-> [p \in Phrases(s) |-> Values(s, a, f, p[1], p[2], p[3])]]
           rank == [p \in Phrases(s) |-> PhraseRank(s, p)]
           g == TheMeans(s, a)
<1>1. \A p \in Phrases(s) : /\ p[1] \in Level /\ p = <<p[1], p[2], p[3]>>
                            /\ p[2] \in 1 .. Len(s) + 1 /\ p[3] \in 1 .. Len(s) + 1
  BY DEF Phrases
<1>2. ASSUME NEW f \in G PROVE F[f] \in G
  BY <1>1, ValuesAreTruths
<1>3. \A p \in Phrases(s) : rank[p] \in Nat /\ rank[p] < 8 * (Len(s) + 1)
  BY PhraseRankIsNumber
<1>4. ASSUME NEW f \in G, NEW h \in G, NEW p \in Phrases(s),
             \A q \in Phrases(s) : rank[q] < rank[p] => f[q] = h[q]
      PROVE  F[f][p] = F[h][p]
  <2>1. PICK x \in Level, i \in 1 .. Len(s) + 1, j \in 1 .. Len(s) + 1 : p = <<x, i, j>>
    BY <1>1
  <2>2. Values(s, a, f, x, i, j) = Values(s, a, h, x, i, j)
    BY <1>4, <2>1, ValuesDepend
  <2> QED  BY <2>1, <2>2
<1>5. Recursive(Phrases(s), G, F, rank)
  <2>1. F \in [G -> G]
    BY <1>2
  <2>2. \A f \in G : f = [p \in Phrases(s) |-> f[p]]
    OBVIOUS
  <2> HIDE DEF F, G, rank
  <2> QED  BY <1>3, <1>4, <2>1, <2>2 DEF Recursive
<1>6. [p \in Phrases(s) |-> {}] \in G /\ 8 * (Len(s) + 1) \in Nat
  BY DEF IsText
<1>7. \E f \in G : f = F[f]
  <2> HIDE DEF F, G, rank
  <2> QED  BY <1>3, <1>5, <1>6, FixedPoint
<1>8. \E f : f = [p \in Phrases(s) |-> Values(s, a, f, p[1], p[2], p[3])]
  BY <1>7
<1>9. g = [p \in Phrases(s) |-> Values(s, a, g, p[1], p[2], p[3])]
  BY <1>8 DEF TheMeans
<1>10. Meanings(s, a) = g[<<"or", 1, Len(s) + 1>>]
  BY DEF Meanings, TheMeans
<1> HIDE DEF g
<1>11. ASSUME NEW x \in Level, NEW i \in 1 .. Len(s) + 1, NEW j \in 1 .. Len(s) + 1
       PROVE  g[<<x, i, j>>] = Values(s, a, g, x, i, j)
  <2>1. <<x, i, j>> \in Phrases(s)
    BY DEF Phrases
  <2> QED  BY <1>9, <2>1
<1> QED  BY <1>10, <1>11 DEF g

-----------------------------------------------------------------------------
(* The parser reads every phrase as the grammar does.  A loop is read      *)
(* through its first operands: with a phrase behind it, it is where it     *)
(* would be with the value of the phrase in hand.                          *)

Runs(s, a, run) == \A m \in Method, l \in Outcomes(s) : run[<<m, l>>] = Body(s, a, run, m, l)

ReadsPrimary(s, run, i, j, v) ==
  /\ TokenAt(s, i) \in Opening
  /\ \A l \in Outcomes(s) : l.pos = i => run[<<"primary", l>>] = Found(v, j)
ReadsNot(s, run, i, j, v) ==
  \A l \in Outcomes(s) : l.pos = i => run[<<"not", l>>] = Found(v, j)
ReadsAnd(s, run, i, j, v) ==
  \A l \in Outcomes(s) : l.pos = i => run[<<"and", l>>] = run[<<"AND", Found(v, j)>>]
ReadsOr(s, run, i, j, v) ==
  TokenAt(s, j) # "AND" =>
    \A l \in Outcomes(s) : l.pos = i => run[<<"or", l>>] = run[<<"OR", Found(v, j)>>]

LEMMA FoundIsOutcome ==
  ASSUME NEW s, NEW v \in BOOLEAN, NEW j \in 1 .. Len(s) + 1
  PROVE  Found(v, j) \in Outcomes(s) /\ Found(v, j).pos = j /\ Found(v, j).val = v
BY DEF Found, Outcomes

LEMMA LoopEnds ==
  ASSUME NEW s, NEW a, NEW run, Runs(s, a, run), NEW op \in {"OR", "AND"},
         NEW v \in BOOLEAN, NEW j \in 1 .. Len(s) + 1, TokenAt(s, j) # op
  PROVE  run[<<op, Found(v, j)>>] = Found(v, j)
<1>1. PICK l \in Outcomes(s) : l = Found(v, j) /\ l.pos = j
  BY FoundIsOutcome
<1>2. run[<<op, l>>] = Body(s, a, run, op, l)
  BY DEF Runs, Method
<1>3. Body(s, a, run, op, l) = l
  BY <1>1 DEF Body
<1> QED  BY <1>1, <1>2, <1>3

LEMMA PrimaryOfTest ==
  ASSUME NEW s, IsText(s), NEW a \in Attributes, NEW run, Runs(s, a, run),
         NEW i \in 1 .. Len(s) + 1, NEW j \in 1 .. Len(s) + 1, NEW v, Test(s, a, i, j, v)
  PROVE  ReadsPrimary(s, run, i, j, v)
<1>1. ASSUME NEW l \in Outcomes(s), l.pos = i
      PROVE  TokenAt(s, i) \in Opening /\ run[<<"primary", l>>] = Found(v, j)
  <2>1. TokenAt(s, i) \in Opening /\ Body(s, a, run, "primary", l) = Found(v, j)
    BY <1>1, TestIsRead
  <2> QED  BY <2>1 DEF Runs, Method
<1>2. PICK l \in Outcomes(s) : l.pos = i
  BY FoundIsOutcome
<1> QED  BY <1>1, <1>2 DEF ReadsPrimary

LEMMA PrimaryOfOr ==
  ASSUME NEW s, IsText(s), NEW a, NEW run, Runs(s, a, run),
         NEW i \in 1 .. Len(s) + 1, NEW j \in 1 .. Len(s) + 1, NEW v \in BOOLEAN,
         Enclosed(s, i, j), NEW k, k = i + 1, NEW e, e = j - 1, k < e, ReadsOr(s, run, k, e, v)
  PROVE  ReadsPrimary(s, run, i, j, v)
<1>1. /\ i \in 1 .. Len(s) /\ e \in 1 .. Len(s) /\ k \in 1 .. Len(s) + 1
      /\ e \in 1 .. Len(s) + 1 /\ e + 1 = j
  BY DEF IsText, Enclosed
<1>2. TokenAt(s, i) = "(" /\ TokenAt(s, e) = ")"
  BY <1>1 DEF TokenAt, IsText, Enclosed
<1>3. ASSUME NEW l \in Outcomes(s), l.pos = i
      PROVE  run[<<"primary", l>>] = Found(v, j)
  <2>1. run[<<"or", Found(FALSE, k)>>] = run[<<"OR", Found(v, e)>>]
    BY <1>1, <1>2, FoundIsOutcome DEF ReadsOr
  <2>2. run[<<"OR", Found(v, e)>>] = Found(v, e)
    BY <1>1, <1>2, LoopEnds
  <2>3. Body(s, a, run, "primary", l) =
          Found(run[<<"or", Found(FALSE, k)>>].val,
                Consume(s, run[<<"or", Found(FALSE, k)>>].pos, ")"))
    BY <1>2, <1>3 DEF Body
  <2>4. Found(v, e).val = v /\ Found(v, e).pos = e
    BY DEF Found
  <2>5. Consume(s, e, ")") = j
    BY <1>1, <1>2 DEF Consume
  <2> QED  BY <2>1, <2>2, <2>3, <2>4, <2>5 DEF Runs, Method
<1> QED  BY <1>2, <1>3 DEF ReadsPrimary, Opening

LEMMA NotOfPrimary ==
  ASSUME NEW s, NEW a, NEW run, Runs(s, a, run), NEW i, NEW j, NEW v,
         ReadsPrimary(s, run, i, j, v)
  PROVE  ReadsNot(s, run, i, j, v)
<1>1. TokenAt(s, i) \notin {"NOT", "-"}
  BY DEF ReadsPrimary, Opening
<1>2. ASSUME NEW l \in Outcomes(s), l.pos = i PROVE run[<<"not", l>>] = Found(v, j)
  <2>1. Body(s, a, run, "not", l) = run[<<"primary", l>>]
    BY <1>1, <1>2 DEF Body
  <2>2. run[<<"primary", l>>] = Found(v, j)
    BY <1>2 DEF ReadsPrimary
  <2> QED  BY <2>1, <2>2 DEF Runs, Method
<1> QED  BY <1>2 DEF ReadsNot

LEMMA NotOfNot ==
  ASSUME NEW s, IsText(s), NEW a, NEW run, Runs(s, a, run),
         NEW i \in 1 .. Len(s) + 1, NEW j \in 1 .. Len(s) + 1, NEW v \in BOOLEAN,
         Negated(s, i, j), NEW k, k = i + 1, ReadsNot(s, run, k, j, ~v)
  PROVE  ReadsNot(s, run, i, j, v)
<1>1. i \in 1 .. Len(s) /\ k \in 1 .. Len(s) + 1
  BY DEF IsText, Negated
<1>2. TokenAt(s, i) \in {"NOT", "-"}
  BY <1>1 DEF TokenAt, IsText, Negated
<1>3. ASSUME NEW l \in Outcomes(s), l.pos = i PROVE run[<<"not", l>>] = Found(v, j)
  <2>1. run[<<"not", Found(FALSE, k)>>] = Found(~v, j)
    BY <1>1, FoundIsOutcome DEF ReadsNot
  <2>2. Body(s, a, run, "not", l) =
          Found(~run[<<"not", Found(FALSE, k)>>].val, run[<<"not", Found(FALSE, k)>>].pos)
    BY <1>2, <1>3 DEF Body
  <2>3. Found(~v, j).pos = j /\ (~Found(~v, j).val) = v
    BY DEF Found
  <2> QED  BY <2>1, <2>2, <2>3 DEF Runs, Method
<1> QED  BY <1>3 DEF ReadsNot

LEMMA AndOfNot ==
  ASSUME NEW s, NEW a, NEW run, Runs(s, a, run), NEW i, NEW j, NEW v,
         ReadsNot(s, run, i, j, v)
  PROVE  ReadsAnd(s, run, i, j, v)
<1>1. ASSUME NEW l \in Outcomes(s), l.pos = i
      PROVE  run[<<"and", l>>] = run[<<"AND", Found(v, j)>>]
  <2>1. Body(s, a, run, "and", l) = run[<<"AND", run[<<"not", l>>]>>]
    BY DEF Body
  <2>2. run[<<"not", l>>] = Found(v, j)
    BY <1>1 DEF ReadsNot
  <2> QED  BY <2>1, <2>2 DEF Runs, Method
<1> QED  BY <1>1 DEF ReadsAnd

LEMMA AndOfAnd ==
  ASSUME NEW s, IsText(s), NEW a, NEW run, Runs(s, a, run),
         NEW i \in 1 .. Len(s) + 1, NEW j \in 1 .. Len(s) + 1,
         NEW k \in Splits(s, "AND", i, j), NEW x \in BOOLEAN, NEW y \in BOOLEAN,
         ReadsAnd(s, run, i, k, x), NEW n, n = k + 1, ReadsNot(s, run, n, j, y)
  PROVE  ReadsAnd(s, run, i, j, Both(x, y))
<1>1. k \in 1 .. Len(s) /\ k \in 1 .. Len(s) + 1 /\ n \in 1 .. Len(s) + 1
  BY DEF IsText, Splits
<1>2. TokenAt(s, k) = "AND"
  BY <1>1 DEF TokenAt, IsText, Splits
<1>3. run[<<"not", Found(FALSE, n)>>] = Found(y, j)
  BY <1>1, FoundIsOutcome DEF ReadsNot
<1>4. PICK l \in Outcomes(s) : l = Found(x, k) /\ l.pos = k
  BY <1>1, FoundIsOutcome
<1>5. run[<<"AND", l>>] = run[<<"AND", Join("AND", l, run[<<"not", Found(FALSE, n)>>])>>]
  <2>1. Body(s, a, run, "AND", l) =
          run[<<"AND", Join("AND", l, run[<<"not", Found(FALSE, n)>>])>>]
    BY <1>2, <1>4 DEF Body, Operand
  <2> QED  BY <2>1 DEF Runs, Method
<1>6. Join("AND", Found(x, k), Found(y, j)) = Found(Both(x, y), j)
  BY DEF Join, Found, Both
<1> QED  BY <1>3, <1>4, <1>5, <1>6 DEF ReadsAnd

LEMMA OrOfAnd ==
  ASSUME NEW s, NEW a, NEW run, Runs(s, a, run), NEW i, NEW j \in 1 .. Len(s) + 1,
         NEW v \in BOOLEAN, ReadsAnd(s, run, i, j, v)
  PROVE  ReadsOr(s, run, i, j, v)
<1>1. ASSUME TokenAt(s, j) # "AND", NEW l \in Outcomes(s), l.pos = i
      PROVE  run[<<"or", l>>] = run[<<"OR", Found(v, j)>>]
  <2>1. Body(s, a, run, "or", l) = run[<<"OR", run[<<"and", l>>]>>]
    BY DEF Body
  <2>2. run[<<"and", l>>] = run[<<"AND", Found(v, j)>>]
    BY <1>1 DEF ReadsAnd
  <2>3. run[<<"AND", Found(v, j)>>] = Found(v, j)
    BY <1>1, LoopEnds
  <2> QED  BY <2>1, <2>2, <2>3 DEF Runs, Method
<1> QED  BY <1>1 DEF ReadsOr

LEMMA OrOfOr ==
  ASSUME NEW s, IsText(s), NEW a, NEW run, Runs(s, a, run),
         NEW i \in 1 .. Len(s) + 1, NEW j \in 1 .. Len(s) + 1,
         NEW k \in Splits(s, "OR", i, j), NEW x \in BOOLEAN, NEW y \in BOOLEAN,
         ReadsOr(s, run, i, k, x), NEW n, n = k + 1, ReadsAnd(s, run, n, j, y)
  PROVE  ReadsOr(s, run, i, j, Either(x, y))
<1>1. k \in 1 .. Len(s) /\ k \in 1 .. Len(s) + 1 /\ n \in 1 .. Len(s) + 1
  BY DEF IsText, Splits
<1>2. TokenAt(s, k) = "OR"
  BY <1>1 DEF TokenAt, IsText, Splits
<1>3. ASSUME TokenAt(s, j) # "AND", NEW l \in Outcomes(s), l.pos = i
      PROVE  run[<<"or", l>>] = run[<<"OR", Found(Either(x, y), j)>>]
  <2>1. run[<<"or", l>>] = run[<<"OR", Found(x, k)>>]
    BY <1>2, <1>3 DEF ReadsOr
  <2>2. run[<<"and", Found(FALSE, n)>>] = run[<<"AND", Found(y, j)>>]
    BY <1>1, FoundIsOutcome DEF ReadsAnd
  <2>3. run[<<"AND", Found(y, j)>>] = Found(y, j)
    BY <1>3, LoopEnds
  <2>4. PICK r \in Outcomes(s) : r = Found(x, k) /\ r.pos = k
    BY <1>1, FoundIsOutcome
  <2>5. run[<<"OR", r>>] = run[<<"OR", Join("OR", r, run[<<"and", Found(FALSE, n)>>])>>]
    <3>1. Body(s, a, run, "OR", r) =
            run[<<"OR", Join("OR", r, run[<<"and", Found(FALSE, n)>>])>>]
      BY <1>2, <2>4 DEF Body, Operand
    <3> QED  BY <3>1 DEF Runs, Method
  <2>6. Join("OR", Found(x, k), Found(y, j)) = Found(Either(x, y), j)
    BY DEF Join, Found, Either
  <2> QED  BY <2>1, <2>2, <2>3, <2>4, <2>5, <2>6
<1> QED  BY <1>3 DEF ReadsOr

\* What the parser does at a phrase with the value v, at each level.
Reads(s, run, x, i, j, v) ==
  /\ x = "primary" => ReadsPrimary(s, run, i, j, v)
  /\ x = "not"     => ReadsNot(s, run, i, j, v)
  /\ x = "and"     => ReadsAnd(s, run, i, j, v)
  /\ x = "or"      => ReadsOr(s, run, i, j, v)

Agrees(s, run, m, x, i, j) ==
  \A v \in m[<<x, i, j>>] : i < j /\ v \in BOOLEAN /\ Reads(s, run, x, i, j, v)

LEMMA TestIsSomething ==
  ASSUME NEW s, NEW a, NEW i \in Nat, NEW j, NEW v, Test(s, a, i, j, v)
  PROVE  i < j
<1>1. \/ \E key : Spells(s, i, j, Existence(key))
      \/ \E key, op, lit : Spells(s, i, j, Comparison(key, op, lit))
      \/ \E key, lit : Spells(s, i, j, PrefixTest(key, lit))
  BY TestForms
<1>2. CASE \E key : Spells(s, i, j, Existence(key))
  BY <1>2 DEF Spells, Existence
<1>3. CASE \E key, op, lit : Spells(s, i, j, Comparison(key, op, lit))
  BY <1>3 DEF Spells, Comparison
<1>4. CASE \E key, lit : Spells(s, i, j, PrefixTest(key, lit))
  <2>1. PICK key, lit : Spells(s, i, j, PrefixTest(key, lit))
    BY <1>4
  <2>2. j = i + Len(PrefixTest(key, lit))
    BY <2>1 DEF Spells
  <2> QED  BY <2>2, PrefixTestLength
<1> QED  BY <1>1, <1>2, <1>3, <1>4

LEMMA PhraseIsRead ==
  ASSUME NEW s, IsText(s), NEW a \in Attributes, NEW run, Runs(s, a, run), NEW m,
         NEW x \in Level, NEW i \in 1 .. Len(s) + 1, NEW j \in 1 .. Len(s) + 1,
         m[<<x, i, j>>] = Values(s, a, m, x, i, j),
         \A y \in Level, k \in 1 .. Len(s) + 1, l \in 1 .. Len(s) + 1 :
           PhraseRank(s, <<y, k, l>>) < PhraseRank(s, <<x, i, j>>) => Agrees(s, run, m, y, k, l)
  PROVE  Agrees(s, run, m, x, i, j)
<1>1. ASSUME NEW y \in Level, NEW k \in 1 .. Len(s) + 1, NEW l \in 1 .. Len(s) + 1
      PROVE  /\ l - k < j - i => Agrees(s, run, m, y, k, l)
             /\ l - k = j - i /\ Tier[y] < Tier[x] => Agrees(s, run, m, y, k, l)
  BY PhraseRankFalls
<1>2. Len(s) \in Nat /\ i \in Nat /\ j \in Nat
  BY DEF IsText
<1>3. ASSUME NEW y \in Level, Tier[y] < Tier[x], NEW v \in Whole(m, y, i, j)
      PROVE  i < j /\ v \in BOOLEAN /\ Reads(s, run, y, i, j, v)
  <2>1. Agrees(s, run, m, y, i, j)
    BY <1>1, <1>3
  <2> QED  BY <1>3, <2>1 DEF Agrees, Whole
<1>4. ASSUME NEW op, NEW k \in Splits(s, op, i, j)
      PROVE  \E n \in 1 .. Len(s) + 1 :
               /\ n = k + 1 /\ i < j
               /\ \A y \in Level :
                    /\ \A v \in Whole(m, y, i, k) : v \in BOOLEAN /\ Reads(s, run, y, i, k, v)
                    /\ \A v \in Behind(m, y, k, j) : v \in BOOLEAN /\ Reads(s, run, y, n, j, v)
  <2>1. PICK n \in 1 .. Len(s) + 1 : n = k + 1
    BY <1>2 DEF Splits
  <2>2. k \in 1 .. Len(s) + 1 /\ k - i < j - i /\ j - n < j - i /\ i < j
    BY <1>2, <2>1 DEF Splits
  <2>3. \A y \in Level : Agrees(s, run, m, y, i, k) /\ Agrees(s, run, m, y, n, j)
    BY <1>1, <2>2
  <2> QED  BY <2>1, <2>2, <2>3 DEF Agrees, Whole, Behind
<1> SUFFICES ASSUME NEW v \in Values(s, a, m, x, i, j)
             PROVE  i < j /\ v \in BOOLEAN /\ Reads(s, run, x, i, j, v)
  BY DEF Agrees
<1>5. CASE x = "primary"
  <2>1. v \in BOOLEAN /\ (Test(s, a, i, j, v) \/ (Enclosed(s, i, j) /\ v \in Inside(m, i, j)))
    BY <1>5, PrimaryValues
  <2>2. CASE Test(s, a, i, j, v)
    BY <1>2, <1>5, <2>1, <2>2, PrimaryOfTest, TestIsSomething DEF Reads
  <2>3. CASE Enclosed(s, i, j) /\ v \in Inside(m, i, j)
    <3>1. i < j
      BY <2>3 DEF Enclosed
    <3>2. PICK k \in 1 .. Len(s) + 1, e \in 1 .. Len(s) + 1 : k = i + 1 /\ e = j - 1
      BY <1>2, <3>1
    <3>3. e - k < j - i
      BY <1>2, <3>2
    <3>4. Agrees(s, run, m, "or", k, e)
      BY <1>1, <3>3 DEF Level
    <3>5. k < e /\ ReadsOr(s, run, k, e, v)
      BY <2>3, <3>2, <3>4 DEF Agrees, Inside, Reads
    <3>6. ReadsPrimary(s, run, i, j, v)
      BY <2>1, <2>3, <3>2, <3>5, PrimaryOfOr
    <3> QED  BY <1>5, <2>1, <3>1, <3>6 DEF Reads
  <2> QED  BY <2>1, <2>2, <2>3
<1>6. CASE x = "not"
  <2>1. /\ v \in BOOLEAN
        /\ \/ v \in Whole(m, "primary", i, j)
           \/ Negated(s, i, j) /\ (~v) \in Behind(m, "not", i, j)
    BY <1>6, NotValues
  <2>2. CASE v \in Whole(m, "primary", i, j)
    <3>1. i < j /\ ReadsPrimary(s, run, i, j, v)
      BY <1>3, <1>6, <2>2 DEF Level, Tier, Reads
    <3> QED  BY <1>6, <2>1, <3>1, NotOfPrimary DEF Reads
  <2>3. CASE Negated(s, i, j) /\ (~v) \in Behind(m, "not", i, j)
    <3>1. i < j
      BY <2>3 DEF Negated
    <3>2. PICK k \in 1 .. Len(s) + 1 : k = i + 1
      BY <1>2, <3>1
    <3>3. j - k < j - i
      BY <1>2, <3>2
    <3>4. Agrees(s, run, m, "not", k, j)
      BY <1>1, <3>3 DEF Level
    <3>5. ReadsNot(s, run, k, j, ~v)
      BY <2>3, <3>2, <3>4 DEF Agrees, Behind, Reads
    <3>6. ReadsNot(s, run, i, j, v)
      BY <2>1, <2>3, <3>2, <3>5, NotOfNot
    <3> QED  BY <1>6, <2>1, <3>1, <3>6 DEF Reads
  <2> QED  BY <2>1, <2>2, <2>3
<1>7. CASE x = "and"
  <2>1. \/ v \in Whole(m, "not", i, j)
        \/ \E k \in Splits(s, "AND", i, j) :
             \E y \in Whole(m, "and", i, k), z \in Behind(m, "not", k, j) : v = Both(y, z)
    BY <1>7, AndValues
  <2>2. CASE v \in Whole(m, "not", i, j)
    <3>1. i < j /\ v \in BOOLEAN /\ ReadsNot(s, run, i, j, v)
      BY <1>3, <1>7, <2>2 DEF Level, Tier, Reads
    <3> QED  BY <1>7, <3>1, AndOfNot DEF Reads
  <2>3. ASSUME NEW k \in Splits(s, "AND", i, j),
               NEW y \in Whole(m, "and", i, k), NEW z \in Behind(m, "not", k, j), v = Both(y, z)
        PROVE  i < j /\ v \in BOOLEAN /\ ReadsAnd(s, run, i, j, v)
    <3>1. PICK n \in 1 .. Len(s) + 1 :
            /\ n = k + 1 /\ i < j
            /\ y \in BOOLEAN /\ Reads(s, run, "and", i, k, y)
            /\ z \in BOOLEAN /\ Reads(s, run, "not", n, j, z)
      BY <1>4, <2>3 DEF Level
    <3>2. ReadsAnd(s, run, i, k, y) /\ ReadsNot(s, run, n, j, z)
      BY <3>1 DEF Reads
    <3>3. ReadsAnd(s, run, i, j, Both(y, z))
      BY <3>1, <3>2, AndOfAnd
    <3>4. Both(y, z) \in BOOLEAN
      BY DEF Both
    <3> QED  BY <2>3, <3>1, <3>3, <3>4
  <2> QED  BY <1>7, <2>1, <2>2, <2>3 DEF Reads
<1>8. CASE x = "or"
  <2>1. \/ v \in Whole(m, "and", i, j)
        \/ \E k \in Splits(s, "OR", i, j) :
             \E y \in Whole(m, "or", i, k), z \in Behind(m, "and", k, j) : v = Either(y, z)
    BY <1>8, OrValues
  <2>2. CASE v \in Whole(m, "and", i, j)
    <3>1. i < j /\ v \in BOOLEAN /\ ReadsAnd(s, run, i, j, v)
      BY <1>3, <1>8, <2>2 DEF Level, Tier, Reads
    <3> QED  BY <1>8, <3>1, OrOfAnd DEF Reads
  <2>3. ASSUME NEW k \in Splits(s, "OR", i, j),
               NEW y \in Whole(m, "or", i, k), NEW z \in Behind(m, "and", k, j), v = Either(y, z)
        PROVE  i < j /\ v \in BOOLEAN /\ ReadsOr(s, run, i, j, v)
    <3>1. PICK n \in 1 .. Len(s) + 1 :
            /\ n = k + 1 /\ i < j
            /\ y \in BOOLEAN /\ Reads(s, run, "or", i, k, y)
            /\ z \in BOOLEAN /\ Reads(s, run, "and", n, j, z)
      BY <1>4, <2>3 DEF Level
    <3>2. ReadsOr(s, run, i, k, y) /\ ReadsAnd(s, run, n, j, z)
      BY <3>1 DEF Reads
    <3>3. ReadsOr(s, run, i, j, Either(y, z))
      BY <3>1, <3>2, OrOfOr
    <3>4. Either(y, z) \in BOOLEAN
      BY DEF Either
    <3> QED  BY <2>3, <3>1, <3>3, <3>4
  <2> QED  BY <1>8, <2>1, <2>2, <2>3 DEF Reads
<1> QED  BY <1>5, <1>6, <1>7, <1>8 DEF Level

LEMMA EveryPhraseIsRead ==
  ASSUME NEW s, IsText(s), NEW a \in Attributes, NEW x \in Level,
         NEW i \in 1 .. Len(s) + 1, NEW j \in 1 .. Len(s) + 1
  PROVE  Agrees(s, TheRun(s, a), TheMeans(s, a), x, i, j)
<1> DEFINE T == {r \in Nat : \A y \in Level, k \in 1 .. Len(s) + 1, l \in 1 .. Len(s) + 1 :
                   PhraseRank(s, <<y, k, l>>) < r =>
                     Agrees(s, TheRun(s, a), TheMeans(s, a), y, k, l)}
<1>1. PICK n \in Nat : n = 8 * (Len(s) + 1)
  BY DEF IsText
<1>2. ASSUME NEW y \in Level, NEW k \in 1 .. Len(s) + 1, NEW l \in 1 .. Len(s) + 1
      PROVE  PhraseRank(s, <<y, k, l>>) \in Nat /\ PhraseRank(s, <<y, k, l>>) < n
  BY <1>1, PhraseRankIsNumber DEF Phrases
<1>3. 0 \in T
  <2>1. ASSUME NEW y \in Level, NEW k \in 1 .. Len(s) + 1, NEW l \in 1 .. Len(s) + 1
        PROVE  ~(PhraseRank(s, <<y, k, l>>) < 0)
    BY <1>2
  <2> QED  BY <2>1
<1>4. ASSUME NEW r \in 1 .. n, r - 1 \in T PROVE r \in T
  <2>1. ASSUME NEW y \in Level, NEW k \in 1 .. Len(s) + 1, NEW l \in 1 .. Len(s) + 1,
               PhraseRank(s, <<y, k, l>>) < r
        PROVE  Agrees(s, TheRun(s, a), TheMeans(s, a), y, k, l)
    <3>1. ASSUME NEW z \in Level, NEW u \in 1 .. Len(s) + 1, NEW w \in 1 .. Len(s) + 1,
                 PhraseRank(s, <<z, u, w>>) < PhraseRank(s, <<y, k, l>>)
          PROVE  Agrees(s, TheRun(s, a), TheMeans(s, a), z, u, w)
      <4>1. PICK b \in Nat, c \in Nat :
              b = PhraseRank(s, <<z, u, w>>) /\ c = PhraseRank(s, <<y, k, l>>)
        BY <1>2
      <4>2. b < r - 1
        BY <2>1, <3>1, <4>1
      <4> QED  BY <1>4, <4>1, <4>2
    <3>2. Runs(s, a, TheRun(s, a))
      BY ParserRuns DEF Runs
    <3>3. TheMeans(s, a)[<<y, k, l>>] = Values(s, a, TheMeans(s, a), y, k, l)
      BY GrammarHasMeaning
    <3> QED  BY <3>1, <3>2, <3>3, PhraseIsRead
  <2> HIDE DEF T
  <2>2. r \in Nat
    OBVIOUS
  <2> QED  BY <2>1, <2>2 DEF T
<1>5. n \in T
  <2> HIDE DEF T
  <2> QED  BY <1>3, <1>4, FirstFailure
<1> QED  BY <1>2, <1>5

\* A text that the grammar gives a value, matchesFilter parses to its end, and
\* it comes to that value, whatever the attributes of the message: so the
\* grammar gives no text two values, and what the parser evaluates while it
\* parses is the tree that the grammar sees in the whole text.
THEOREM ParserReadsGrammar ==
  ASSUME NEW s \in Seq(STRING), NEW a \in Attributes, NEW v \in Meanings(s, a)
  PROVE  Parse(s, a) = Found(v, Len(s) + 1) /\ Matches(s, a) = v
<1> DEFINE e == Len(s) + 1
<1>1. IsText(s) /\ 1 \in 1 .. e /\ e \in 1 .. e
  BY DEF IsText
<1>2. Agrees(s, TheRun(s, a), TheMeans(s, a), "or", 1, e)
  BY <1>1, EveryPhraseIsRead DEF Level
<1>3. v \in TheMeans(s, a)[<<"or", 1, e>>]
  BY <1>1, GrammarHasMeaning
<1>4. 1 < e /\ v \in BOOLEAN /\ ReadsOr(s, TheRun(s, a), 1, e, v)
  BY <1>2, <1>3 DEF Agrees, Reads
<1>5. TokenAt(s, e) = Nothing
  BY <1>1 DEF TokenAt, IsText
<1>6. Runs(s, a, TheRun(s, a))
  BY <1>1, ParserRuns DEF Runs
<1>7. TheRun(s, a)[<<"or", Found(FALSE, 1)>>] = TheRun(s, a)[<<"OR", Found(v, e)>>]
  BY <1>1, <1>4, <1>5, FoundIsOutcome DEF ReadsOr, Nothing
<1>8. TheRun(s, a)[<<"OR", Found(v, e)>>] = Found(v, e)
  <2>1. TokenAt(s, e) # "OR"
    BY <1>5 DEF Nothing
  <2> QED  BY <1>1, <1>4, <1>6, <2>1, LoopEnds
<1>9. Parse(s, a) = Found(v, e)
  BY <1>1, <1>7, <1>8, ParserRuns
<1>10. s # <<>> /\ Found(v, e).val = v
  BY <1>4 DEF Found
<1> QED  BY <1>4, <1>9, <1>10 DEF Matches
=============================================================================
