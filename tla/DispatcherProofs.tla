--------------------------- MODULE DispatcherProofs ---------------------------
(***************************************************************************)
(* Theorems about Dispatcher for every value of its constants.             *)
(***************************************************************************)
EXTENDS Dispatcher, SequenceTheorems, FiniteSetTheorems,
        WellFoundedInduction, TLAPS

-----------------------------------------------------------------------------
(* The list of consumers.                                                  *)

Distinct == {s \in Seq(Stream) : IsInjective(s)}

\* register adds a stream that is not in the list.
LEMMA Joins ==
  ASSUME NEW s \in Distinct, NEW c \in Stream, c \notin Range(s)
  PROVE  /\ Append(s, c) \in Distinct
         /\ Range(Append(s, c)) = Range(s) \cup {c}
         /\ Append(s, c) # <<>>
<1>1. /\ s \in Seq(Stream) /\ IsInjective(s) /\ Len(s) \in Nat
      /\ DOMAIN s = 1 .. Len(s)
  BY LenProperties DEF Distinct
<1> DEFINE t == Append(s, c)
<1>2. /\ t \in Seq(Stream) /\ Len(t) = Len(s) + 1 /\ t[Len(s) + 1] = c
      /\ \A i \in 1 .. Len(s) : t[i] = s[i]
  BY <1>1, AppendProperties
<1> HIDE DEF t
<1>3. DOMAIN t = 1 .. (Len(s) + 1)
  BY <1>1, <1>2, LenProperties
<1>4. \A i \in 1 .. Len(s) : s[i] # c
  BY <1>1 DEF Range
<1>5. \A i, j \in 1 .. Len(s) : s[i] = s[j] => i = j
  BY <1>1 DEF IsInjective
<1>6. \A i \in 1 .. (Len(s) + 1) : i \in 1 .. Len(s) \/ i = Len(s) + 1
  BY <1>1
<1>7. \A i, j \in 1 .. (Len(s) + 1) : t[i] = t[j] => i = j
  BY <1>1, <1>2, <1>4, <1>5, <1>6
<1>8. t \in Distinct
  BY <1>2, <1>3, <1>7 DEF Distinct, IsInjective
<1>9. Range(t) = Range(s) \cup {c}
  BY <1>1, <1>2, <1>3 DEF Range
<1>10. t # <<>>
  BY <1>1, <1>2, EmptySeq
<1> QED  BY <1>8, <1>9, <1>10 DEF t

\* What unregister leaves of the list.
LEMMA Leaves ==
  ASSUME NEW s \in Distinct, NEW c \in Stream
  PROVE  /\ RemoveFirst(s, c) \in Distinct
         /\ Range(RemoveFirst(s, c)) = Range(s) \ {c}
<1>1. /\ s \in Seq(Stream) /\ IsInjective(s) /\ Len(s) \in Nat
      /\ DOMAIN s = 1 .. Len(s)
  BY LenProperties DEF Distinct
<1>2. CASE c \notin Range(s)
  <2>1. RemoveFirst(s, c) = s
    BY <1>1, <1>2 DEF RemoveFirst, Range
  <2> QED  BY <1>2, <2>1
<1>3. CASE c \in Range(s)
  <2>1. PICK k \in 1 .. Len(s) : s[k] = c
    BY <1>1, <1>3 DEF Range
  <2>2. {i \in 1 .. Len(s) : s[i] = c} = {k}
    BY <1>1, <2>1 DEF IsInjective
  <2>3. SelectInSeq(s, LAMBDA v : v = c) = k
    BY <2>1, <2>2 DEF SelectInSeq, Min
  <2>4. RemoveFirst(s, c) = RemoveAt(s, k)
    BY <2>1, <2>3 DEF RemoveFirst
  <2> DEFINE a == SubSeq(s, 1, k - 1)
             b == SubSeq(s, k + 1, Len(s))
             t == a \o b
  <2>5. /\ a \in Seq(Stream) /\ Len(a) = k - 1
        /\ \A i \in 1 .. k - 1 : a[i] = s[i]
    BY <1>1, <2>1, SubSeqProperties, ElementOfSeq
  <2>6. /\ b \in Seq(Stream) /\ Len(b) = Len(s) - k
        /\ \A i \in 1 .. Len(s) - k : b[i] = s[k + i]
    <3>1. k + 1 \in Int /\ Len(s) \in Int /\ \A i \in k + 1 .. Len(s) : s[i] \in Stream
      BY <1>1, <2>1, ElementOfSeq
    <3>2. /\ b \in Seq(Stream)
          /\ Len(b) = IF k + 1 <= Len(s) THEN Len(s) - (k + 1) + 1 ELSE 0
          /\ \A i \in 1 .. Len(s) - (k + 1) + 1 : b[i] = s[k + 1 + i - 1]
      BY <3>1, SubSeqProperties
    <3> HIDE DEF b
    <3>3. Len(s) \in Nat /\ k \in 1 .. Len(s)
      BY <1>1
    <3>4. /\ (IF k + 1 <= Len(s) THEN Len(s) - (k + 1) + 1 ELSE 0) = Len(s) - k
          /\ Len(s) - (k + 1) + 1 = Len(s) - k
      BY ONLY <3>3
    <3>5. Len(b) = Len(s) - k /\ Len(s) - (k + 1) + 1 = Len(s) - k
      BY ONLY <3>2, <3>4
    <3>6. \A i \in 1 .. Len(s) - k : k + 1 + i - 1 = k + i
      BY <1>1, <2>1
    <3> QED  BY <3>2, <3>5, <3>6
  <2> HIDE DEF a, b
  <2>7. /\ t \in Seq(Stream) /\ Len(t) = Len(s) - 1
        /\ \A i \in 1 .. Len(s) - 1 : t[i] = IF i < k THEN s[i] ELSE s[i + 1]
    <3>1. /\ t \in Seq(Stream) /\ Len(t) = Len(a) + Len(b)
          /\ \A i \in 1 .. Len(a) + Len(b) :
               t[i] = IF i <= Len(a) THEN a[i] ELSE b[i - Len(a)]
      BY <2>5, <2>6, ConcatProperties
    <3> HIDE DEF t
    <3>2. Len(t) = Len(s) - 1
      BY <1>1, <2>1, <2>5, <2>6, <3>1
    <3>3. Len(a) + Len(b) = Len(s) - 1
      BY <3>1, <3>2
    <3>4. \A i \in 1 .. Len(s) - 1 :
            t[i] = IF i <= k - 1 THEN a[i] ELSE b[i - (k - 1)]
      BY ONLY <2>5, <3>1, <3>3, Zenon
    <3>5. ASSUME NEW i \in 1 .. Len(s) - 1, i < k  PROVE t[i] = s[i]
      <4>1. i \in 1 .. k - 1 /\ i <= k - 1
        BY <1>1, <2>1, <3>5
      <4> QED  BY <2>5, <3>4, <4>1
    <3>6. ASSUME NEW i \in 1 .. Len(s) - 1, ~(i < k)  PROVE t[i] = s[i + 1]
      <4>1. i - (k - 1) \in 1 .. Len(s) - k /\ k + (i - (k - 1)) = i + 1
        BY <1>1, <2>1, <3>6
      <4>2. ~(i <= k - 1)
        BY <1>1, <2>1, <3>6
      <4>3. t[i] = b[i - (k - 1)]
        BY <3>4, <4>2
      <4> QED  BY <2>6, <4>1, <4>3
    <3> QED  BY <3>1, <3>2, <3>5, <3>6
  <2> HIDE DEF t
  <2>8. DOMAIN t = 1 .. (Len(s) - 1)
    BY <1>1, <2>1, <2>7, LenProperties
  <2>9. \A i, j \in 1 .. Len(s) : s[i] = s[j] => i = j
    BY <1>1 DEF IsInjective
  <2>10. \A i, j \in 1 .. Len(s) - 1 : t[i] = t[j] => i = j
    <3>1. \A i \in 1 .. Len(s) - 1 : \E u \in 1 .. Len(s) :
            t[i] = s[u] /\ u = IF i < k THEN i ELSE i + 1
      BY <1>1, <2>1, <2>7
    <3>2. \A i, j \in 1 .. Len(s) - 1 :
            (IF i < k THEN i ELSE i + 1) = (IF j < k THEN j ELSE j + 1) => i = j
      BY <1>1, <2>1
    <3> QED  BY <2>9, <3>1, <3>2
  <2>11. t \in Distinct
    BY <2>7, <2>8, <2>10 DEF Distinct, IsInjective
  <2>12. Range(t) \subseteq Range(s) \ {c}
    BY <1>1, <2>1, <2>7, <2>8, <2>9 DEF Range
  <2>13. Range(s) \ {c} \subseteq Range(t)
    <3> SUFFICES ASSUME NEW i \in 1 .. Len(s), s[i] # c  PROVE s[i] \in Range(t)
      BY <1>1 DEF Range
    <3>1. CASE i < k
      BY <1>1, <2>1, <2>7, <2>8, <3>1 DEF Range
    <3>2. CASE i > k
      <4>1. i - 1 \in 1 .. Len(s) - 1 /\ t[i - 1] = s[i]
        BY <1>1, <2>1, <2>7, <3>2
      <4> QED  BY <2>8, <4>1 DEF Range
    <3> QED  BY <2>1, <3>1, <3>2
  <2> QED  BY <2>4, <2>11, <2>12, <2>13 DEF RemoveAt, t, a, b
<1> QED  BY <1>2, <1>3

-----------------------------------------------------------------------------
(* Batches.                                                                *)

\* A delivery pulls something if something waits, and all of it if PullMax
\* allows.
LEMMA Pulls ==
  ASSUME NEW available \in SUBSET Msg, available # {},
         NEW pulled \in kSubset(Min({PullMax, Cardinality(available)}), available)
  PROVE  /\ pulled \subseteq available /\ pulled # {}
         /\ Cardinality(Msg) <= PullMax => pulled = available
<1>1. IsFiniteSet(Msg) /\ PullMax \in Nat \ {0}
  BY DispatcherAssumption DEF DispatcherAssumption
<1>2. /\ IsFiniteSet(available) /\ Cardinality(available) <= Cardinality(Msg)
      /\ Cardinality(available) \in Nat /\ Cardinality(Msg) \in Nat
      /\ Cardinality(available) # 0
  BY <1>1, FS_Subset, FS_CardinalityType, FS_EmptySet
<1> DEFINE n == Cardinality(available)
           k == Min({PullMax, n})
<1>3. k \in {PullMax, n} /\ k <= n /\ (n <= PullMax => k = n)
  <2>1. \E x \in {PullMax, n} : \A y \in {PullMax, n} : x <= y
    BY <1>1, <1>2
  <2>2. k \in {PullMax, n} /\ \A y \in {PullMax, n} : k <= y
    BY <2>1 DEF Min
  <2> HIDE DEF k
  <2> QED  BY <1>1, <1>2, <2>2
<1>4. pulled \subseteq available /\ Cardinality(pulled) = k
  BY DEF kSubset
<1> HIDE DEF n, k
<1>5. pulled # {}
  BY <1>1, <1>2, <1>3, <1>4, FS_EmptySet DEF n
<1>6. n <= PullMax => pulled = available
  BY <1>2, <1>3, <1>4, FS_Subset DEF n
<1>7. Cardinality(Msg) <= PullMax => n <= PullMax
  BY <1>1, <1>2 DEF n
<1> QED  BY <1>4, <1>5, <1>6, <1>7

\* Sends and receives on a consumer channel.
LEMMA ChannelSeq ==
  /\ <<>> \in Seq(SUBSET Msg) /\ Len(<<>>) = 0
  /\ \A q \in Seq(SUBSET Msg) :
       /\ Len(q) \in Nat
       /\ \A b \in SUBSET Msg :
            Append(q, b) \in Seq(SUBSET Msg) /\ Len(Append(q, b)) = Len(q) + 1
       /\ q # <<>> => /\ Head(q) \in SUBSET Msg /\ Tail(q) \in Seq(SUBSET Msg)
                      /\ Len(Tail(q)) = Len(q) - 1
BY EmptySeq, LenProperties, AppendProperties, HeadTailProperties

-----------------------------------------------------------------------------
(* Round robin.                                                            *)

\* The index of a try is an index of the list.
LEMMA Modulo ==
  \A n \in Nat \ {0} : \A x \in Nat : x % n \in 0 .. n - 1
OBVIOUS

\* The loop of deliver tries consumers of the list only.
LEMMA TriedType ==
  ASSUME TypeOK, NEW i \in 0 .. Len(consumers) - 1
  PROVE  ((nextIdx + i) % Len(consumers)) + 1 \in DOMAIN consumers
         /\ Tried(i) \in Stream /\ Tried(i) \in Range(consumers)
<1>1. /\ consumers \in Seq(Stream) /\ Len(consumers) \in Nat /\ nextIdx \in Nat
      /\ DOMAIN consumers = 1 .. Len(consumers)
  BY LenProperties, DispatcherAssumption DEF TypeOK, DispatcherAssumption
<1> DEFINE k == (nextIdx + i) % Len(consumers)
<1>2. k \in 0 .. Len(consumers) - 1
  <2>1. Len(consumers) \in Nat \ {0} /\ nextIdx + i \in Nat
    BY <1>1
  <2> QED  BY ONLY <2>1, Modulo
<1> HIDE DEF k
<1>3. k + 1 \in 1 .. Len(consumers) /\ consumers[k + 1] \in Stream
  BY <1>1, <1>2, ElementOfSeq
<1> QED  BY <1>1, <1>3 DEF k, Tried, Range

\* The position of the round robin stays within its bound.
LEMMA IndexType ==
  ASSUME TypeOK, NEW i \in Nat  PROVE (nextIdx + i) % Wrap \in 0 .. Wrap - 1
BY Modulo, DispatcherAssumption DEF TypeOK, DispatcherAssumption

\* Numbers have a least one.
LEMMA LeastNumber ==
  ASSUME NEW S \in SUBSET Nat, S # {}
  PROVE  \E x \in S : \A y \in S : x <= y
<1>1. PICK x \in S : \A y \in S : ~(<<y, x>> \in OpToRel(<, Nat))
  BY NatLessThanWellFounded, WFMin
<1>2. \A y \in S : y \in Nat /\ x \in Nat /\ ~(y < x)
  BY <1>1 DEF OpToRel
<1> QED  BY <1>2

\* The loop ends at the first try that finds room.
LEMMA FirstTry ==
  ASSUME NEW S \in SUBSET Nat, S # {}
  PROVE  Min(S) \in S
BY LeastNumber DEF Min

\* Division with a remainder, by the least number that had none.
LEMMA Divides ==
  ASSUME NEW n \in Nat \ {0}, NEW x \in Nat
  PROVE  \E q \in Nat : \E r \in 0 .. n - 1 : x = n * q + r
<1> DEFINE Bad == {y \in Nat : ~ \E q \in Nat : \E r \in 0 .. n - 1 : y = n * q + r}
<1> SUFFICES ASSUME Bad # {} PROVE FALSE
  OBVIOUS
<1>1. PICK y \in Bad : \A z \in Bad : y <= z
  BY LeastNumber
<1>2. y >= n
  <2>1. y = n * 0 + y /\ 0 \in Nat /\ y \in Nat
    OBVIOUS
  <2> QED  BY <2>1
<1>3. y - n \in Nat /\ y - n < y /\ ~(y <= y - n)
  BY <1>2
<1>4. y - n \notin Bad
  <2> HIDE DEF Bad
  <2> QED  BY <1>1, <1>3
<1>5. PICK q \in Nat, r \in 0 .. n - 1 : y - n = n * q + r
  BY <1>3, <1>4
<1>6. y = n * (q + 1) + r /\ q + 1 \in Nat
  BY <1>3, <1>5
<1> QED  BY <1>6

\* The remainder is the one % yields.
LEMMA Remainder ==
  ASSUME NEW n \in Nat \ {0}, NEW q \in Nat, NEW j \in 0 .. n - 1
  PROVE  (n * q + j) % n = j
OBVIOUS

\* From any start, n tries in turn reach all of n places.
LEMMA RoundRobin ==
  ASSUME NEW n \in Nat \ {0}, NEW x \in Nat, NEW j \in 0 .. n - 1
  PROVE  \E i \in 0 .. n - 1 : (x + i) % n = j
<1>1. PICK q \in Nat, r \in 0 .. n - 1 : x = n * q + r
  BY Divides
<1>2. CASE j >= r
  <2>1. j - r \in 0 .. n - 1 /\ x + (j - r) = n * q + j
    BY <1>1, <1>2
  <2>2. (x + (j - r)) % n = j
    BY <2>1, Remainder
  <2> QED  BY <2>1, <2>2
<1>3. CASE j < r
  <2>1. /\ j - r + n \in 0 .. n - 1 /\ q + 1 \in Nat
        /\ x + (j - r + n) = n * (q + 1) + j
    BY <1>1, <1>3
  <2>2. (n * (q + 1) + j) % n = j
    BY <2>1, Remainder
  <2>3. (x + (j - r + n)) % n = j
    BY <2>1, <2>2
  <2> QED  BY <2>1, <2>3
<1> QED  BY <1>1, <1>2, <1>3

\* deliver parks a batch only if every channel of the list is full.
LEMMA TriesMeetAll ==
  ASSUME TypeOK, NEW c \in Range(consumers), HasSpace(c)
  PROVE  Tries # {}
<1>1. /\ consumers \in Seq(Stream) /\ Len(consumers) \in Nat /\ nextIdx \in Nat
      /\ DOMAIN consumers = 1 .. Len(consumers)
  BY LenProperties, DispatcherAssumption DEF TypeOK, DispatcherAssumption
<1>2. PICK k \in 1 .. Len(consumers) : consumers[k] = c
  BY <1>1 DEF Range
<1>3. Len(consumers) \in Nat \ {0} /\ k - 1 \in 0 .. Len(consumers) - 1
  BY <1>1, <1>2
<1>4. PICK i \in 0 .. Len(consumers) - 1 : (nextIdx + i) % Len(consumers) = k - 1
  BY <1>1, <1>3, RoundRobin
<1>5. Tried(i) = c
  BY <1>1, <1>2, <1>4 DEF Tried
<1> QED  BY <1>5 DEF Tries

-----------------------------------------------------------------------------
(* The inductive invariant.                                                *)

\* A stream is in the list once, from register to unregister, and its channel
\* is closed only when it has left the list.
Listed ==
  /\ IsInjective(consumers)
  /\ Range(consumers) \cap closed = {}
  /\ \A c \in Range(consumers) \cup closed :
       spc[c] \in {"registered", "streaming", "leaving"}

\* Where the dispatcher is not on its way to a Pull, something will wake it: a
\* delivery that pulls all there is leaves nothing to wait.
Awake ==
  (waiting # {} /\ consumers # <<>> /\ dpc \in {"select", "push"} /\ sub = "live")
    => notify \/ trigger \/ \E c \in Stream : spc[c] = "registered"

IInv == TypeOK /\ Listed

\* At the start nothing waits and nobody is registered.
LEMMA InitIInv == ASSUME Init PROVE IInv /\ Awake
<1>1. consumers \in Seq(Stream) /\ Range(consumers) = {} /\ IsInjective(consumers)
  <2>1. DOMAIN <<>> = {}
    BY EmptySeq
  <2> QED  BY <2>1, EmptySeq DEF Init, Range, IsInjective
<1>2. \A c \in Stream : chan[c] \in Seq(SUBSET Msg) /\ Len(chan[c]) = 0
  BY ChannelSeq DEF Init
<1>3. 0 \in 0 .. Wrap - 1 /\ 0 <= ChanCap
  BY DispatcherAssumption DEF DispatcherAssumption
<1>4. TypeOK
  BY <1>1, <1>2, <1>3 DEF Init, TypeOK
<1> QED  BY <1>1, <1>4 DEF Init, IInv, Listed, Awake

\* Every step keeps the types, the batch in hand among them.
LEMMA NextTypeOK ==
  ASSUME IInv, [Next]_vars
  PROVE  TypeOK'
<1> USE DEF queueVars, dispVars, streamVars
<1>0. TypeOK /\ Listed
  BY DEF IInv
<1>1. ASSUME NEW m \in Msg, Publish(m)  PROVE TypeOK'
  BY <1>0, <1>1 DEF TypeOK, Publish
<1>2. ASSUME NEW m \in Msg, Acknowledge(m)  PROVE TypeOK'
  BY <1>0, <1>2 DEF TypeOK, Acknowledge
<1>3. ASSUME NEW m \in Msg, LeaseRunsOut(m)  PROVE TypeOK'
  BY <1>0, <1>3 DEF TypeOK, LeaseRunsOut
<1>4. ASSUME Delete  PROVE TypeOK'
  BY <1>0, <1>4 DEF TypeOK, Delete, CancelDispatcher, DropQueue
<1>5. ASSUME Wake  PROVE TypeOK'
  BY <1>0, <1>5 DEF TypeOK, Wake, WakeOnNotify, WakeOnTrigger, WakeOnTick
<1>6. ASSUME Stop  PROVE TypeOK'
  <2>1. Range(consumers) \subseteq Stream /\ <<>> \in Seq(Stream)
    BY <1>0, LenProperties, ElementOfSeq, EmptySeq DEF TypeOK, Range
  <2> QED  BY <1>0, <1>6, <2>1 DEF TypeOK, Stop
<1>7. ASSUME CountConsumers  PROVE TypeOK'
  BY <1>0, <1>7 DEF TypeOK, CountConsumers
<1>8. ASSUME PullBatch  PROVE TypeOK'
  <2>1. CASE sub = "deleted" \/ waiting \cup past = {}
    BY <1>0, <1>8, <2>1 DEF TypeOK, PullBatch
  <2>2. CASE ~(sub = "deleted" \/ waiting \cup past = {})
    <3>1. waiting \cup past \in SUBSET Msg
      BY <1>0 DEF TypeOK
    <3>2. PICK pulled \in kSubset(Min({PullMax, Cardinality(waiting \cup past)}),
                                  waiting \cup past) :
            /\ batch' = pulled
            /\ waiting' = (waiting \cup past) \ pulled
            /\ leased' = (leased \ past) \cup pulled
      BY <1>8, <2>2 DEF PullBatch
    <3>3. pulled \subseteq waiting \cup past /\ pulled # {}
      BY <2>2, <3>1, Pulls
    <3>4. /\ past' = {} /\ notify' = (notify \/ past # {}) /\ dpc' = "push"
          /\ UNCHANGED <<acked, trigger, consumers, nextIdx, streamVars, sub>>
      BY <1>8, <2>2 DEF PullBatch
    <3> QED  BY <1>0, <3>2, <3>3, <3>4 DEF TypeOK
  <2> QED  BY <2>1, <2>2
<1>9. ASSUME PushBatch  PROVE TypeOK'
  <2> PICK i \in 0 .. Len(consumers) - 1 : 
        /\ HasSpace(Tried(i))
        /\ chan' = [chan EXCEPT ![Tried(i)] = Append(@, batch)]
        /\ nextIdx' = (nextIdx + i + 1) % Wrap
    <3>1. Tries \subseteq 0 .. Len(consumers) - 1 /\ Tries \subseteq Nat /\ Tries # {}
      BY <1>9 DEF PushBatch, Tries
    <3>2. Min(Tries) \in Tries
      BY <3>1, FirstTry
    <3>3. HasSpace(Tried(Min(Tries))) /\ Min(Tries) \in 0 .. Len(consumers) - 1
      BY <3>2 DEF Tries
    <3> QED  BY <1>9, <3>3 DEF PushBatch
  <2>1. /\ batch' = {} /\ dpc' = "select"
        /\ UNCHANGED <<queueVars, trigger, consumers, spc, closed, received, sub>>
    BY <1>9 DEF PushBatch
  <2>2. Tried(i) \in Stream
    BY <1>0, TriedType
  <2>3. nextIdx' \in 0 .. Wrap - 1
    <3>1. i + 1 \in Nat /\ nextIdx + i + 1 = nextIdx + (i + 1)
      BY <1>0, DispatcherAssumption DEF TypeOK, DispatcherAssumption
    <3> QED  BY <1>0, <3>1, IndexType
  <2> DEFINE c == Tried(i)
  <2> HIDE DEF c
  <2> QED  BY <1>0, <2>1, <2>2, <2>3, ChannelSeq, DispatcherAssumption
              DEF TypeOK, HasSpace, DispatcherAssumption, c
<1>10. ASSUME ParkBatch  PROVE TypeOK'
  <2>1. nextIdx' \in 0 .. Wrap - 1
    BY <1>0, <1>10, IndexType DEF ParkBatch
  <2> QED  BY <1>0, <1>10, <2>1 DEF TypeOK, ParkBatch
<1>11. ASSUME NEW c \in Stream,
              FindDispatcher(c) \/ FireTrigger(c) \/ SeeClosed(c) \/ HangUp(c)
       PROVE  TypeOK'
  BY <1>0, <1>11 DEF TypeOK, FindDispatcher, FireTrigger, SeeClosed, HangUp
<1>12. ASSUME NEW c \in Stream, Register(c)  PROVE TypeOK'
  BY <1>0, <1>12, AppendProperties DEF TypeOK, Register
<1>13. ASSUME NEW c \in Stream, Receive(c)  PROVE TypeOK'
  BY <1>0, <1>13, ChannelSeq, DispatcherAssumption
     DEF TypeOK, Receive, DispatcherAssumption
<1>14. ASSUME NEW c \in Stream, Unregister(c)  PROVE TypeOK'
  <2>1. consumers' \in Seq(Stream)
    BY <1>0, <1>14, Leaves DEF TypeOK, Listed, Unregister, Distinct
  <2> QED  BY <1>0, <1>14, <2>1, ChannelSeq, DispatcherAssumption
              DEF TypeOK, Unregister, DispatcherAssumption
<1>15. CASE UNCHANGED vars
  BY <1>0, <1>15 DEF TypeOK, vars
<1> QED
  BY <1>1, <1>2, <1>3, <1>4, <1>5, <1>6, <1>7, <1>8, <1>9, <1>10, <1>11, <1>12,
     <1>13, <1>14, <1>15 DEF Next, Deliver, Serve

\* What a step may do to the list, to the channels and to where streams are.
LEMMA NextListed ==
  ASSUME IInv, [Next]_vars
  PROVE  Listed'
<1> USE DEF queueVars, dispVars, streamVars
<1>0. /\ TypeOK /\ Listed /\ consumers \in Distinct
      /\ Range(consumers) \subseteq Stream
      /\ spc \in [Stream -> {"idle", "found", "registered", "streaming", "leaving"}]
  BY LenProperties, ElementOfSeq DEF IInv, Listed, TypeOK, Distinct, Range
<1>1. ASSUME NEW c \in Stream,
             UNCHANGED <<consumers, closed>>,
             \A d \in Stream \ {c} : spc'[d] = spc[d],
             c \in Range(consumers) \cup closed
               => spc'[c] \in {"registered", "streaming", "leaving"}
      PROVE  Listed'
  BY <1>0, <1>1 DEF Listed, TypeOK
<1>2. ASSUME UNCHANGED <<consumers, closed, spc>>  PROVE Listed'
  BY <1>2 DEF IInv, Listed
<1>3. ASSUME NEW m \in Msg, Publish(m) \/ Acknowledge(m) \/ LeaseRunsOut(m)
      PROVE  Listed'
  BY <1>2, <1>3 DEF Publish, Acknowledge, LeaseRunsOut
<1>4. ASSUME Delete \/ Wake \/ Deliver  PROVE Listed'
  BY <1>2, <1>4 DEF Delete, CancelDispatcher, DropQueue, Wake, WakeOnNotify,
     WakeOnTrigger, WakeOnTick, Deliver, CountConsumers, PullBatch, PushBatch, ParkBatch
<1>5. ASSUME Stop  PROVE Listed'
  <2>1. /\ consumers' = <<>> /\ closed' = closed \cup Range(consumers) /\ UNCHANGED spc
    BY <1>5 DEF Stop
  <2>2. DOMAIN <<>> = {}
    BY EmptySeq
  <2>3. Range(<<>>) = {} /\ IsInjective(<<>>)
    BY <2>2 DEF Range, IsInjective
  <2> QED  BY <1>0, <2>1, <2>3 DEF Listed
<1>6. ASSUME NEW c \in Stream,
             FindDispatcher(c) \/ FireTrigger(c) \/ SeeClosed(c) \/ HangUp(c)
      PROVE  Listed'
  BY <1>0, <1>1, <1>6 DEF Listed, FindDispatcher, FireTrigger, SeeClosed, HangUp
<1>7. ASSUME NEW c \in Stream, Register(c)  PROVE Listed'
  <2>1. /\ consumers' = Append(consumers, c) /\ UNCHANGED closed
        /\ spc[c] = "found" /\ spc' = [spc EXCEPT ![c] = "registered"]
    BY <1>7 DEF Register
  <2>2. c \notin Range(consumers) /\ c \notin closed
    BY <1>0, <2>1 DEF Listed
  <2>3. consumers' \in Distinct /\ Range(consumers') = Range(consumers) \cup {c}
    BY <1>0, <2>1, <2>2, Joins
  <2> QED  BY <1>0, <2>1, <2>2, <2>3 DEF Listed, Distinct, TypeOK
<1>8. ASSUME NEW c \in Stream, Receive(c)  PROVE Listed'
  BY <1>2, <1>8 DEF Receive
<1>9. ASSUME NEW c \in Stream, Unregister(c)  PROVE Listed'
  <2>1. /\ consumers' = RemoveFirst(consumers, c) /\ closed' = closed \ {c}
        /\ spc' = [spc EXCEPT ![c] = "idle"]
    BY <1>9 DEF Unregister
  <2>2. consumers' \in Distinct /\ Range(consumers') = Range(consumers) \ {c}
    BY <1>0, <2>1, Leaves
  <2> QED  BY <1>0, <2>1, <2>2 DEF Listed, Distinct, TypeOK
<1>10. CASE UNCHANGED vars
  BY <1>2, <1>10 DEF vars
<1> QED
  BY <1>3, <1>4, <1>5, <1>6, <1>7, <1>8, <1>9, <1>10 DEF Next, Serve

\* The invariant holds in every state.
LEMMA Invariance == Spec => []IInv
<1>1. Init => IInv
  BY InitIInv
<1>2. IInv /\ [Next]_vars => IInv'
  BY NextTypeOK, NextListed DEF IInv
<1> QED  BY <1>1, <1>2, PTL DEF Spec

-----------------------------------------------------------------------------
(* The theorems.                                                           *)

\* The variables keep their types, and between a Pull and the push there is a
\* batch in hand, never an empty one.
THEOREM TypeCorrect == Spec => []TypeOK
BY Invariance, PTL DEF IInv

\* Whatever streams come and go while the dispatcher stops, no channel of its
\* list is closed, so that neither a send nor a close panics.
THEOREM NoneIsClosed == Spec => []NoClosedConsumer
<1>1. IInv => NoClosedConsumer
  BY DEF IInv, Listed, NoClosedConsumer
<1> QED  BY <1>1, Invariance, PTL

\* No wake-up is lost while a delivery pulls all there can be: each step that
\* leaves a message waiting or a list not empty leaves a token as well, or a
\* register that is about to leave one.
THEOREM NoneIsLost ==
  ASSUME Cardinality(Msg) <= PullMax  PROVE Spec => []NoLostWakeup
<1>1. Init => Awake
  BY InitIInv
<1>2. ASSUME IInv, Awake, [Next]_vars  PROVE Awake'
  <2> USE <1>2 DEF queueVars, dispVars, streamVars
  <2>0. spc \in [Stream -> {"idle", "found", "registered", "streaming", "leaving"}]
    BY DEF IInv, TypeOK
  <2>1. ASSUME NEW m \in Msg, Publish(m) \/ Acknowledge(m) \/ LeaseRunsOut(m)
        PROVE  Awake'
    BY <2>1 DEF Awake, Publish, Acknowledge, LeaseRunsOut
  <2>2. ASSUME Delete  PROVE Awake'
    BY <2>2 DEF Awake, Delete, CancelDispatcher, DropQueue
  <2>3. ASSUME Wake \/ Stop \/ CountConsumers \/ PushBatch \/ ParkBatch  PROVE Awake'
    BY <2>3 DEF Awake, Wake, WakeOnNotify, WakeOnTrigger, WakeOnTick, Stop,
       CountConsumers, PushBatch, ParkBatch
  <2>4. ASSUME PullBatch  PROVE Awake'
    <3>1. CASE sub = "deleted" \/ waiting \cup past = {}
      BY <2>4, <3>1 DEF Awake, PullBatch
    <3>2. CASE ~(sub = "deleted" \/ waiting \cup past = {})
      <4>1. waiting \cup past \in SUBSET Msg
        BY DEF IInv, TypeOK
      <4>2. PICK pulled \in kSubset(Min({PullMax, Cardinality(waiting \cup past)}),
                                    waiting \cup past) :
              waiting' = (waiting \cup past) \ pulled
        BY <2>4, <3>2 DEF PullBatch
      <4>3. pulled = waiting \cup past
        BY <3>2, <4>1, Pulls
      <4> QED  BY <4>2, <4>3 DEF Awake
    <3> QED  BY <3>1, <3>2
  <2>5. ASSUME NEW c \in Stream, Register(c)  PROVE Awake'
    <3>1. spc'[c] = "registered"
      BY <2>0, <2>5 DEF Register
    <3> QED  BY <3>1 DEF Awake
  <2>6. ASSUME NEW c \in Stream, FireTrigger(c)  PROVE Awake'
    BY <2>6 DEF Awake, FireTrigger
  <2>7. ASSUME NEW c \in Stream, spc[c] # "registered",
               \A d \in Stream \ {c} : spc'[d] = spc[d],
               consumers = <<>> => consumers' = <<>>,
               UNCHANGED <<waiting, dpc, sub, notify, trigger>>
        PROVE  Awake'
    BY <2>7 DEF Awake
  <2>8. ASSUME NEW c \in Stream,
               FindDispatcher(c) \/ Receive(c) \/ SeeClosed(c) \/ HangUp(c)
        PROVE  Awake'
    <3>1. /\ spc[c] # "registered" /\ \A d \in Stream \ {c} : spc'[d] = spc[d]
          /\ UNCHANGED <<waiting, dpc, sub, notify, trigger, consumers>>
      BY <2>0, <2>8 DEF FindDispatcher, Receive, SeeClosed, HangUp
    <3> QED  BY <2>7, <3>1
  <2>9. ASSUME NEW c \in Stream, Unregister(c)  PROVE Awake'
    <3>1. /\ spc[c] # "registered" /\ \A d \in Stream \ {c} : spc'[d] = spc[d]
          /\ consumers' = RemoveFirst(consumers, c)
          /\ UNCHANGED <<waiting, dpc, sub, notify, trigger>>
      BY <2>0, <2>9 DEF Unregister
    <3>2. consumers = <<>> => consumers' = <<>>
      BY <3>1, EmptySeq DEF RemoveFirst
    <3> QED  BY <2>7, <3>1, <3>2
  <2>10. CASE UNCHANGED vars
    BY <2>10 DEF Awake, vars
  <2> QED
    BY <2>1, <2>2, <2>3, <2>4, <2>5, <2>6, <2>8, <2>9, <2>10 DEF Next, Deliver, Serve
<1>3. Awake => NoLostWakeup
  BY DEF Awake, NoLostWakeup
<1> QED  BY <1>1, <1>2, <1>3, Invariance, PTL DEF Spec

\* A batch goes whole to one stream of the list, unless every channel of the
\* list is full, wherever the round robin stands.
THEOREM OneIsServed == Spec => BatchGoesToOneWithRoom
<1>1. ASSUME IInv, [Next]_vars  PROVE GoesToOneWithRoom
  <2> SUFFICES ASSUME dpc = "push", dpc' = "select"  PROVE GoesToOneWithRoom
    BY DEF GoesToOneWithRoom
  <2>0. TypeOK /\ batch \in SUBSET Msg /\ chan \in [Stream -> Seq(SUBSET Msg)]
    BY <1>1 DEF IInv, TypeOK
  <2>1. PushBatch \/ ParkBatch
    BY <1>1 DEF Next, vars, queueVars, dispVars, streamVars, Publish, Acknowledge,
       LeaseRunsOut, Delete, CancelDispatcher, DropQueue, Wake, WakeOnNotify,
       WakeOnTrigger, WakeOnTick, Stop, Deliver, CountConsumers, PullBatch,
       FindDispatcher, Serve, HangUp, Register, FireTrigger, Receive, SeeClosed,
       Unregister
  <2>2. CASE PushBatch
    <3>1. Tries \subseteq 0 .. Len(consumers) - 1 /\ Tries \subseteq Nat /\ Tries # {}
      BY <2>2 DEF PushBatch, Tries
    <3>2. Min(Tries) \in Tries
      BY <3>1, FirstTry
    <3>3. PICK c \in Stream : c = Tried(Min(Tries)) /\ c \in Range(consumers) /\ HasSpace(c)
      BY <2>0, <3>1, <3>2, TriedType DEF Tries
    <3>4. chan' = [chan EXCEPT ![c] = Append(@, batch)]
      BY <2>2, <3>3 DEF PushBatch
    <3>5. chan[c] \in Seq(SUBSET Msg)
      BY <2>0
    <3>6. Len(chan'[c]) = Len(chan[c]) + 1 /\ Len(chan[c]) \in Nat
          /\ chan'[c] = Append(chan[c], batch)
      BY <2>0, <3>4, <3>5, ChannelSeq
    <3>7. chan'[c] # chan[c]
      BY <3>6
    <3>8. {d \in Stream : chan'[d] # chan[d]} = {c}
      BY <2>0, <3>4, <3>7
    <3> QED  BY <3>3, <3>6, <3>8 DEF GoesToOneWithRoom
  <2>3. CASE ParkBatch
    <3>1. \A c \in Range(consumers) : ~HasSpace(c)
      BY <2>0, <2>3, TriesMeetAll DEF ParkBatch
    <3>2. UNCHANGED chan
      BY <2>3 DEF ParkBatch, streamVars
    <3> QED  BY <3>1, <3>2 DEF GoesToOneWithRoom
  <2> QED  BY <2>1, <2>2, <2>3
<1> QED  BY <1>1, Invariance, PTL DEF Spec, BatchGoesToOneWithRoom
===============================================================================
