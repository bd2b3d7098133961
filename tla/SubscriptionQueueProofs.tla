----------------------- MODULE SubscriptionQueueProofs -----------------------
(***************************************************************************)
(* Theorems about SubscriptionQueue for every value of its constants, and  *)
(* about the promise of Backlog that it keeps.                             *)
(***************************************************************************)
EXTENDS QueueImplementsBacklog, SequenceTheorems, FiniteSetTheorems, TLAPS

-----------------------------------------------------------------------------
(* Sequences, and the sets of their elements.                              *)

\* A send adds its message to the messages in the channel.
LEMMA AppendRange ==
  ASSUME NEW S, NEW s \in Seq(S), NEW e \in S
  PROVE  /\ Append(s, e) \in Seq(S)
         /\ Len(Append(s, e)) = Len(s) + 1
         /\ Range(Append(s, e)) = Range(s) \cup {e}
<1>1. /\ Append(s, e) \in Seq(S)
      /\ Len(Append(s, e)) = Len(s) + 1
      /\ \A i \in 1 .. Len(s) : Append(s, e)[i] = s[i]
      /\ Append(s, e)[Len(s) + 1] = e
  BY AppendProperties
<1>2. /\ DOMAIN s = 1 .. Len(s)
      /\ Len(s) \in Nat
      /\ DOMAIN Append(s, e) = 1 .. (Len(s) + 1)
  BY <1>1, LenProperties
<1>3. Range(Append(s, e)) = Range(s) \cup {e}
  BY <1>1, <1>2 DEF Range
<1> QED  BY <1>1, <1>3

\* A receive takes the head and leaves the rest.
LEMMA HeadTailRange ==
  ASSUME NEW S, NEW s \in Seq(S), s # <<>>
  PROVE  /\ Head(s) \in S
         /\ Tail(s) \in Seq(S)
         /\ Len(Tail(s)) = Len(s) - 1
         /\ Range(s) = Range(Tail(s)) \cup {Head(s)}
<1>1. /\ Head(s) \in S
      /\ Tail(s) \in Seq(S)
      /\ Len(Tail(s)) = Len(s) - 1
      /\ \A i \in 1 .. Len(Tail(s)) : Tail(s)[i] = s[i + 1]
  BY HeadTailProperties
<1>2. /\ Len(s) \in Nat \ {0}
      /\ DOMAIN s = 1 .. Len(s)
      /\ DOMAIN Tail(s) = 1 .. (Len(s) - 1)
      /\ Head(s) = s[1]
  BY <1>1, LenProperties, EmptySeq
<1>3. Range(s) \subseteq Range(Tail(s)) \cup {Head(s)}
  <2> SUFFICES ASSUME NEW i \in 1 .. Len(s)
               PROVE  s[i] \in Range(Tail(s)) \cup {Head(s)}
    BY <1>2 DEF Range
  <2>1. CASE i = 1
    BY <1>2, <2>1
  <2>2. CASE i # 1
    <3>1. i - 1 \in 1 .. Len(Tail(s)) /\ s[i] = Tail(s)[i - 1]
      BY <1>1, <1>2, <2>2
    <3> QED  BY <1>1, <1>2, <3>1 DEF Range
  <2> QED  BY <2>1, <2>2
<1>4. Range(Tail(s)) \cup {Head(s)} \subseteq Range(s)
  BY <1>1, <1>2 DEF Range
<1> QED  BY <1>1, <1>3, <1>4

\* No message is in an empty batch or channel.
LEMMA EmptyRange ==
  /\ Range(<<>>) = {}
  /\ \A S : <<>> \in Seq(S)
  /\ \A S : \A s \in Seq(S) : Range(s) \subseteq S
<1>1. Range(<<>>) = {}
  BY DEF Range
<1>2. ASSUME NEW S, NEW s \in Seq(S)  PROVE Range(s) \subseteq S
  BY LenProperties, ElementOfSeq DEF Range
<1> QED  BY <1>1, <1>2, EmptySeq

-----------------------------------------------------------------------------
(* Type correctness.                                                       *)

\* The sequence facts the actions need, at type PM.
LEMMA QueueSeq ==
  /\ <<>> \in Seq(PM) /\ Len(<<>>) = 0 /\ Range(<<>>) = {}
  /\ \A s \in Seq(PM) : Len(s) \in Nat /\ Range(s) \subseteq PM
  /\ \A s \in Seq(PM) : \A m \in PM :
       /\ Append(s, m) \in Seq(PM)
       /\ Len(Append(s, m)) = Len(s) + 1
       /\ Range(Append(s, m)) = Range(s) \cup {m}
  /\ \A s \in Seq(PM) : s # <<>> =>
       /\ Head(s) \in PM
       /\ Tail(s) \in Seq(PM)
       /\ Len(Tail(s)) = Len(s) - 1
       /\ Range(s) = Range(Tail(s)) \cup {Head(s)}
<1>1. \A s \in Seq(PM) : Len(s) \in Nat /\ Range(s) \subseteq PM
  BY LenProperties, EmptyRange
<1> QED  BY <1>1, EmptyRange, EmptySeq, AppendRange, HeadTailRange

\* A send keeps the channel within its capacity.
LEMMA SendTypes ==
  ASSUME TypeOK, NEW m \in PM, HasRoom, Send(m)
  PROVE  ch' \in Seq(PM) /\ Len(ch') <= QueueSize /\ notify' \in BOOLEAN
BY QueueSeq, QueueAssumption DEF TypeOK, HasRoom, Send, QueueAssumption

\* A receive keeps the channel within its capacity.
LEMMA ReceiveTypes ==
  ASSUME TypeOK, ch # <<>>, ch' = Tail(ch)
  PROVE  Head(ch) \in PM /\ ch' \in Seq(PM) /\ Len(ch') <= QueueSize
BY QueueSeq, QueueAssumption DEF TypeOK, QueueAssumption

\* The new queue and the idle goroutines have their types.
LEMMA InitTypeOK == Init => TypeOK
<1> SUFFICES ASSUME Init  PROVE TypeOK
  OBVIOUS
<1> USE QueueAssumption DEF QueueAssumption, Senders, Holders, Threads
<1>1. ch \in Seq(PM) /\ Len(ch) <= QueueSize
  BY QueueSeq DEF Init
<1>2. todo \in [Threads -> Seq(PM)]
  BY QueueSeq DEF Init
<1>3. out \in [Holders -> Seq(PM)]
  BY QueueSeq DEF Init
<1> QED  BY <1>1, <1>2, <1>3 DEF Init, TypeOK

\* Each operation keeps the types: one step below per action.
LEMMA NextTypeOK == TypeOK /\ [Next]_vars => TypeOK'
<1> SUFFICES ASSUME TypeOK, [Next]_vars  PROVE TypeOK'
  OBVIOUS
<1> USE DEF Senders, Holders, Threads, Goto, queueVars, msgVars,
                            localVars, history
<1>1. ASSUME NEW t \in Senders, SendNext(t)  PROVE TypeOK'
  <2>1. todo[t] \in Seq(PM) /\ t \in Threads
    BY <1>1 DEF TypeOK
  <2>2. Head(todo[t]) \in PM /\ Tail(todo[t]) \in Seq(PM)
    BY <1>1, <2>1, QueueSeq DEF SendNext
  <2>3. ch' \in Seq(PM) /\ Len(ch') <= QueueSize /\ notify' \in BOOLEAN
    BY <1>1, <2>2, SendTypes DEF TypeOK, SendNext
  <2>4. todo' \in [Threads -> Seq(PM)]
    BY <1>1, <2>2 DEF TypeOK, SendNext
  <2> QED  BY <1>1, <2>3, <2>4 DEF TypeOK, SendNext
<1>2. ASSUME NEW t \in Senders, SendRefused(t)  PROVE TypeOK'
  BY <1>2, QueueSeq DEF TypeOK, SendRefused
<1>3. ASSUME NEW p \in Pullers, PullStart(p)  PROVE TypeOK'
  BY <1>3 DEF TypeOK, PullStart
<1>4. ASSUME NEW p \in Pullers, NEW m \in PM, FindExpired(p, m)  PROVE TypeOK'
  BY <1>4 DEF TypeOK, FindExpired
<1>5. ASSUME NEW p \in Pullers, DeleteExpired(p)  PROVE TypeOK'
  BY <1>5 DEF TypeOK, DeleteExpired
<1>6. ASSUME NEW p \in Pullers, RequeueExpired(p)  PROVE TypeOK'
  <2>1. cur[p] \in PM
    BY <1>6 DEF TypeOK, RequeueExpired
  <2>2. /\ ch' \in Seq(PM) /\ Len(ch') <= QueueSize /\ notify' \in BOOLEAN
        /\ dropped' \subseteq PM
    BY <1>6, <2>1, SendTypes DEF TypeOK, RequeueExpired
  <2> QED  BY <1>6, <2>2 DEF TypeOK, RequeueExpired
<1>7. ASSUME NEW p \in Pullers, CollectLeasedKeys(p)  PROVE TypeOK'
  BY <1>7 DEF TypeOK, CollectLeasedKeys, Keys
<1>8. ASSUME NEW p \in Pullers, SkipMessage(p)  PROVE TypeOK'
  <2>1. /\ Head(ch) \in PM /\ ch' \in Seq(PM) /\ Len(ch') <= QueueSize
    BY <1>8, ReceiveTypes DEF TypeOK, SkipMessage, CanDequeue
  <2>2. Append(todo[p], Head(ch)) \in Seq(PM)
    BY <1>8, <2>1, QueueSeq DEF TypeOK
  <2>3. todo' \in [Threads -> Seq(PM)]
    BY <1>8, <2>2 DEF TypeOK, SkipMessage
  <2> QED  BY <1>8, <2>1, <2>3 DEF TypeOK, SkipMessage
<1>9. ASSUME NEW p \in Pullers, TakeMessage(p)  PROVE TypeOK'
  <2>1. /\ Head(ch) \in PM /\ ch' \in Seq(PM) /\ Len(ch') <= QueueSize
    BY <1>9, ReceiveTypes DEF TypeOK, TakeMessage, CanDequeue
  <2>2. leasedKeys' \in [Pullers -> SUBSET Keys(PM)]
    BY <1>9, <2>1 DEF TypeOK, TakeMessage, Keys
  <2>3. attempt' \in [PM -> Nat] /\ deadline' \in [PM -> {"none", "live", "past"}]
    BY <1>9, <2>1 DEF TypeOK, TakeMessage
  <2> QED  BY <1>9, <2>1, <2>2, <2>3 DEF TypeOK, TakeMessage
<1>10. ASSUME NEW p \in Pullers, StoreInFlight(p)  PROVE TypeOK'
  BY <1>10, QueueSeq DEF TypeOK, StoreInFlight
<1>11. ASSUME NEW p \in Pullers, EndLoop(p)  PROVE TypeOK'
  BY <1>11 DEF TypeOK, EndLoop
<1>12. ASSUME NEW p \in Pullers, PullReturn(p)  PROVE TypeOK'
  BY <1>12, QueueSeq DEF TypeOK, PullReturn
<1>13. ASSUME NEW t \in Holders, PutBack(t)  PROVE TypeOK'
  <2>1. todo[t] \in Seq(PM) /\ t \in Threads
    BY <1>13 DEF TypeOK
  <2>2. Head(todo[t]) \in PM /\ Tail(todo[t]) \in Seq(PM)
    BY <1>13, <2>1, QueueSeq DEF PutBack
  <2>3. /\ ch' \in Seq(PM) /\ Len(ch') <= QueueSize /\ notify' \in BOOLEAN
        /\ dropped' \subseteq PM
    BY <1>13, <2>2, SendTypes DEF TypeOK, PutBack
  <2>4. todo' \in [Threads -> Seq(PM)]
    BY <1>13, <2>2 DEF TypeOK, PutBack
  <2> QED  BY <1>13, <2>3, <2>4 DEF TypeOK, PutBack
<1>14. ASSUME NEW l \in Listers, ListStart(l)  PROVE TypeOK'
  BY <1>14, QueueSeq DEF TypeOK, ListStart, Backlog, Held, InHand
<1>15. ASSUME NEW l \in Listers, ListDrain(l)  PROVE TypeOK'
  <2>1. CASE ch = <<>>
    BY <1>15, <2>1 DEF TypeOK, ListDrain
  <2>2. CASE ch # <<>>
    <3>1. /\ Head(ch) \in PM /\ ch' \in Seq(PM) /\ Len(ch') <= QueueSize
      BY <1>15, <2>2, ReceiveTypes DEF TypeOK, ListDrain
    <3>2. /\ Append(todo[l], Head(ch)) \in Seq(PM)
          /\ Append(out[l], Head(ch)) \in Seq(PM)
      BY <1>15, <3>1, QueueSeq DEF TypeOK
    <3>3. todo' \in [Threads -> Seq(PM)] /\ out' \in [Holders -> Seq(PM)]
      BY <1>15, <2>2, <3>2 DEF TypeOK, ListDrain
    <3> QED  BY <1>15, <2>2, <3>1, <3>3 DEF TypeOK, ListDrain
  <2> QED  BY <2>1, <2>2
<1>16. ASSUME NEW l \in Listers, ListReturn(l)  PROVE TypeOK'
  <2>1. PICK order \in Bijection(1 .. Cardinality(inFlight), inFlight) :
          out' = [out EXCEPT ![l] = @ \o order]
    BY <1>16 DEF ListReturn
  <2>2. Cardinality(inFlight) \in Nat
    BY QueueAssumption, FS_Subset, FS_CardinalityType DEF QueueAssumption, TypeOK
  <2>3. order \in [1 .. Cardinality(inFlight) -> PM]
    BY DEF Bijection, Injection, TypeOK
  <2>4. order \in Seq(PM)
    BY <2>2, <2>3, SeqDef
  <2>5. out[l] \o order \in Seq(PM)
    BY <1>16, <2>4, ConcatProperties DEF TypeOK
  <2>6. out' \in [Holders -> Seq(PM)]
    BY <1>16, <2>1, <2>5 DEF TypeOK
  <2> QED  BY <1>16, <2>6 DEF TypeOK, ListReturn
<1>17. ASSUME NEW q \in Seekers, SeekDrain(q)  PROVE TypeOK'
  <2>1. /\ Head(ch) \in PM /\ ch' \in Seq(PM) /\ Len(ch') <= QueueSize
    BY <1>17, ReceiveTypes DEF TypeOK, SeekDrain
  <2> QED  BY <1>17, <2>1 DEF TypeOK, SeekDrain
<1>18. ASSUME NEW q \in Seekers, SeekClear(q)  PROVE TypeOK'
  BY <1>18 DEF TypeOK, SeekClear
<1>19. ASSUME NEW m \in PM, Acknowledge(m)  PROVE TypeOK'
  BY <1>19 DEF TypeOK, Acknowledge
<1>20. ASSUME NEW m \in PM, LoadForUpdate(m)  PROVE TypeOK'
  BY <1>20 DEF TypeOK, LoadForUpdate
<1>21. ASSUME NEW m \in PM, WriteDeadline(m)  PROVE TypeOK'
  BY <1>21 DEF TypeOK, WriteDeadline
<1>22. ASSUME NEW m \in PM, LeaseRunsOut(m)  PROVE TypeOK'
  BY <1>22 DEF TypeOK, LeaseRunsOut
<1>23. CASE UNCHANGED vars
  BY <1>23 DEF TypeOK, vars
<1> QED
  BY <1>1, <1>2, <1>3, <1>4, <1>5, <1>6, <1>7, <1>8, <1>9, <1>10, <1>11, <1>12, <1>13, <1>14, <1>15, <1>16, <1>17, <1>18, <1>19, <1>20, <1>21, <1>22, <1>23
  DEF Next, SendStep, PullStep, ListStep, SeekStep, ClientStep

\* The variables keep their types, and a Pull that works on a message has one.
THEOREM TypeCorrect == Spec => []TypeOK
<1>1. Init => TypeOK
  BY InitTypeOK
<1>2. TypeOK /\ [Next]_vars => TypeOK'
  BY NextTypeOK
<1> QED  BY <1>1, <1>2, PTL DEF Spec

-----------------------------------------------------------------------------
(* No message is lost.                                                     *)

\* Conservation said of one message: where it is, or what became of it.
Accounted(m) ==
  \/ \E t \in Threads : m \in Range(todo[t])
  \/ m \in Range(ch) \cup inFlight \cup Gone
  \/ \E p \in Pullers : pc[p] \in {"requeue", "store"} /\ m = cur[p]

\* Conservation speaks of each message by itself.
LEMMA ConservationPointwise == Conservation <=> \A m \in PM : Accounted(m)
BY DEF Conservation, Accounted, Entered, Backlog, Held, InHand, Threads, Holders

\* The same of the state after a step.
LEMMA ConservationPrimed == Conservation' <=> \A m \in PM : Accounted(m)'
BY DEF Conservation, Accounted, Entered, Backlog, Held, InHand, Threads, Holders

\* Nothing has entered a new queue.
LEMMA InitConservation == Init => Conservation
<1> SUFFICES ASSUME Init, NEW m \in PM
             PROVE  \E t \in Threads : m \in Range(todo[t])
  BY ConservationPointwise DEF Accounted
<1>1. PICK t \in Senders : m \in Range(Batch[t])
  BY QueueAssumption DEF QueueAssumption
<1>2. t \in Threads /\ todo[t] = Batch[t]
  BY DEF Init, Threads
<1> QED  BY <1>1, <1>2

\* The four ways in which messages move between a goroutine and the channel.
LEMMA SendAccounts ==
  ASSUME TypeOK, NEW t \in Threads, todo[t] # <<>>, HasRoom, Send(Head(todo[t])),
         todo' = [todo EXCEPT ![t] = Tail(@)],
         UNCHANGED <<inFlight, pc, cur, acked, dropped, replaced>>,
         NEW m \in PM, Accounted(m)
  PROVE  Accounted(m)'
<1>1. ch \in Seq(PM) /\ todo[t] \in Seq(PM) /\ todo \in [Threads -> Seq(PM)]
  BY DEF TypeOK
<1>2. /\ Range(todo[t]) = Range(todo'[t]) \cup {Head(todo[t])}
      /\ Range(ch') = Range(ch) \cup {Head(todo[t])}
  BY <1>1, QueueSeq DEF Send
<1>3. \A u \in Threads \ {t} : todo'[u] = todo[u]
  BY <1>1
<1> QED  BY <1>2, <1>3 DEF Accounted, Gone

\* A message that a full channel refuses is in dropped.
LEMMA RefusalAccounts ==
  ASSUME TypeOK, NEW t \in Threads, todo[t] # <<>>,
         \/ todo' = [todo EXCEPT ![t] = <<>>] /\ dropped' = dropped \cup Range(todo[t])
         \/ todo' = [todo EXCEPT ![t] = Tail(@)] /\ dropped' = dropped \cup {Head(todo[t])},
         UNCHANGED <<ch, inFlight, pc, cur, acked, replaced>>,
         NEW m \in PM, Accounted(m)
  PROVE  Accounted(m)'
<1>1. todo[t] \in Seq(PM) /\ todo \in [Threads -> Seq(PM)]
  BY DEF TypeOK
<1>2. Range(todo[t]) \subseteq Range(todo'[t]) \cup dropped'
  BY <1>1, QueueSeq
<1>3. \A u \in Threads \ {t} : todo'[u] = todo[u]
  BY <1>1
<1> QED  BY <1>2, <1>3 DEF Accounted, Gone

\* A message received from the channel is in its receiver's hand.
LEMMA ReceiveAccounts ==
  ASSUME TypeOK, NEW t \in Threads, ch # <<>>, ch' = Tail(ch),
         todo' = [todo EXCEPT ![t] = Append(@, Head(ch))],
         UNCHANGED <<inFlight, pc, cur, acked, dropped, replaced>>,
         NEW m \in PM, Accounted(m)
  PROVE  Accounted(m)'
<1>1. ch \in Seq(PM) /\ todo[t] \in Seq(PM) /\ todo \in [Threads -> Seq(PM)]
  BY DEF TypeOK
<1>2. /\ Range(todo'[t]) = Range(todo[t]) \cup {Head(ch)}
      /\ Range(ch) = Range(ch') \cup {Head(ch)}
  BY <1>1, QueueSeq
<1>3. \A u \in Threads \ {t} : todo'[u] = todo[u]
  BY <1>1
<1> QED  BY <1>2, <1>3 DEF Accounted, Gone

\* A step of control that moves no message loses none.
LEMMA LabelAccounts ==
  ASSUME TypeOK, NEW t \in Threads, NEW label, Goto(t, label),
         t \in Pullers => pc[t] \notin {"requeue", "store"},
         UNCHANGED <<ch, inFlight, cur, todo, acked, dropped, replaced>>,
         NEW m \in PM, Accounted(m)
  PROVE  Accounted(m)'
BY DEF Accounted, Gone, TypeOK, Goto

\* No operation loses a message: one step below per action.
LEMMA NextConservation == TypeOK /\ Conservation /\ [Next]_vars => Conservation'
<1> SUFFICES ASSUME TypeOK, [Next]_vars, NEW m \in PM, Accounted(m)
             PROVE  Accounted(m)'
  BY ConservationPointwise, ConservationPrimed
<1> USE DEF queueVars, msgVars, localVars, history
<1>1. ASSUME NEW t \in Senders, SendNext(t)  PROVE Accounted(m)'
  BY <1>1, SendAccounts DEF SendNext, Threads
<1>2. ASSUME NEW t \in Senders, SendRefused(t)  PROVE Accounted(m)'
  BY <1>2, RefusalAccounts DEF SendRefused, Threads
<1>3. ASSUME NEW p \in Pullers, PullStart(p)  PROVE Accounted(m)'
  BY <1>3, LabelAccounts DEF PullStart, Threads, Holders
<1>4. ASSUME NEW p \in Pullers, NEW n \in PM, FindExpired(p, n)  PROVE Accounted(m)'
  BY <1>4 DEF FindExpired, Accounted, Gone, Goto, TypeOK, Threads, Holders
<1>5. ASSUME NEW p \in Pullers, DeleteExpired(p)  PROVE Accounted(m)'
  BY <1>5 DEF DeleteExpired, Accounted, Gone, Goto, TypeOK, Threads, Holders
<1>6. ASSUME NEW p \in Pullers, RequeueExpired(p)  PROVE Accounted(m)'
  <2>1. cur[p] \in PM /\ ch \in Seq(PM)
    BY <1>6 DEF RequeueExpired, TypeOK
  <2>2. Range(Append(ch, cur[p])) = Range(ch) \cup {cur[p]}
    BY <2>1, QueueSeq
  <2>3. cur[p] \in Range(ch') \cup dropped' /\ Range(ch) \subseteq Range(ch')
    BY <1>6, <2>2 DEF RequeueExpired, Send
  <2> QED  BY <1>6, <2>3 DEF RequeueExpired, Accounted, Gone, Goto, TypeOK, Threads, Holders
<1>7. ASSUME NEW p \in Pullers, CollectLeasedKeys(p)  PROVE Accounted(m)'
  BY <1>7, LabelAccounts DEF CollectLeasedKeys, Threads, Holders
<1>8. ASSUME NEW p \in Pullers, SkipMessage(p)  PROVE Accounted(m)'
  BY <1>8, ReceiveAccounts DEF SkipMessage, CanDequeue, Threads, Holders
<1>9. ASSUME NEW p \in Pullers, TakeMessage(p)  PROVE Accounted(m)'
  <2>1. Range(ch) = Range(ch') \cup {Head(ch)}
    BY <1>9, QueueSeq DEF TakeMessage, CanDequeue, TypeOK
  <2> QED  BY <1>9, <2>1 DEF TakeMessage, CanDequeue, Accounted, Gone, Goto, TypeOK, Threads, Holders
<1>10. ASSUME NEW p \in Pullers, StoreInFlight(p)  PROVE Accounted(m)'
  BY <1>10 DEF StoreInFlight, Accounted, Gone, Goto, TypeOK, Threads, Holders
<1>11. ASSUME NEW p \in Pullers, EndLoop(p)  PROVE Accounted(m)'
  BY <1>11, LabelAccounts DEF EndLoop, Threads, Holders
<1>12. ASSUME NEW t \in Holders, PutBack(t)  PROVE Accounted(m)'
  <2>1. CASE HasRoom
    BY <1>12, <2>1, SendAccounts DEF PutBack, Threads
  <2>2. CASE ~HasRoom
    BY <1>12, <2>2, RefusalAccounts DEF PutBack, Threads
  <2> QED  BY <2>1, <2>2
<1>13. ASSUME NEW p \in Pullers, PullReturn(p)  PROVE Accounted(m)'
  BY <1>13, LabelAccounts DEF PullReturn, Threads, Holders
<1>14. ASSUME NEW l \in Listers, ListStart(l)  PROVE Accounted(m)'
  BY <1>14, LabelAccounts DEF ListStart, Threads, Holders
<1>15. ASSUME NEW l \in Listers, ListDrain(l)  PROVE Accounted(m)'
  <2>1. CASE ch = <<>>
    BY <1>15, <2>1, LabelAccounts DEF ListDrain, Threads, Holders
  <2>2. CASE ch # <<>>
    BY <1>15, <2>2, ReceiveAccounts DEF ListDrain, Threads, Holders
  <2> QED  BY <2>1, <2>2
<1>16. ASSUME NEW l \in Listers, ListReturn(l)  PROVE Accounted(m)'
  BY <1>16, LabelAccounts DEF ListReturn, Threads, Holders
<1>17. ASSUME NEW q \in Seekers, SeekDrain(q)  PROVE Accounted(m)'
  <2>1. Range(ch) = Range(ch') \cup {Head(ch)}
    BY <1>17, QueueSeq DEF SeekDrain, TypeOK
  <2> QED  BY <1>17, <2>1 DEF SeekDrain, Accounted, Gone
<1>18. ASSUME NEW q \in Seekers, SeekClear(q)  PROVE Accounted(m)'
  BY <1>18, QueueAssumption
  DEF SeekClear, Accounted, Gone, Goto, TypeOK, Threads, Holders, QueueAssumption
<1>19. ASSUME NEW n \in PM, Acknowledge(n)  PROVE Accounted(m)'
  BY <1>19 DEF Acknowledge, Accounted, Gone
<1>20. ASSUME NEW n \in PM, LoadForUpdate(n)  PROVE Accounted(m)'
  BY <1>20 DEF LoadForUpdate, Accounted, Gone
<1>21. ASSUME NEW n \in PM, WriteDeadline(n)  PROVE Accounted(m)'
  BY <1>21 DEF WriteDeadline, Accounted, Gone
<1>22. ASSUME NEW n \in PM, LeaseRunsOut(n)  PROVE Accounted(m)'
  BY <1>22 DEF LeaseRunsOut, Accounted, Gone
<1>23. CASE UNCHANGED vars
  BY <1>23 DEF Accounted, Gone, vars
<1> QED
  BY <1>1, <1>2, <1>3, <1>4, <1>5, <1>6, <1>7, <1>8, <1>9, <1>10, <1>11, <1>12, <1>13, <1>14, <1>15, <1>16, <1>17, <1>18, <1>19, <1>20, <1>21, <1>22, <1>23
  DEF Next, SendStep, PullStep, ListStep, SeekStep, ClientStep, Holders

\* Whatever the number of goroutines and however their steps interleave, a
\* message that was enqueued stays in the backlog until it is acknowledged,
\* replaced by a seek or refused by a full channel.
THEOREM NothingIsLost == Spec => []Conservation
<1>1. Init => TypeOK /\ Conservation
  BY InitTypeOK, InitConservation
<1>2. TypeOK /\ Conservation /\ [Next]_vars => (TypeOK /\ Conservation)'
  BY NextTypeOK, NextConservation
<1> QED  BY <1>1, <1>2, PTL DEF Spec

-----------------------------------------------------------------------------
(***************************************************************************)
(* Theorems about SubscriptionQueue while at most one goroutine is in Pull *)
(* (a streaming subscriber without unary Pull calls, or the reverse).  Any *)
(* number of goroutines publish, list and seek beside it, and clients ack  *)
(* and modify deadlines as they like.                                      *)
(***************************************************************************)

SinglePull == \A p, q \in Pullers : p = q

-----------------------------------------------------------------------------
(* The inductive invariant, in parts.                                      *)

\* A Pull that has found an expired entry, or works on a message.
Works(p) == pc[p] \in {"delete", "requeue", "store"}

\* A message is in one place.  What a Pull works on is in none, other than in
\* inFlight for as long as it has not been deleted.
Placed ==
  /\ IsInjective(ch)
  /\ Range(ch) \cap inFlight = {}
  /\ \A t \in Threads :
       /\ IsInjective(todo[t])
       /\ Range(todo[t]) \cap (Range(ch) \cup inFlight) = {}
       /\ \A u \in Threads \ {t} : Range(todo[t]) \cap Range(todo[u]) = {}
  /\ \A p \in Pullers : Works(p) =>
       /\ cur[p] \notin Range(ch)
       /\ \A t \in Threads : cur[p] \notin Range(todo[t])
       /\ pc[p] # "delete" => cur[p] \notin inFlight

\* A message is on its way to the channel or in it, or its lease is past.
Returning(m) ==
  \/ m \in Range(ch)
  \/ \E t \in Threads : m \in Range(todo[t])
  \/ \E p \in Pullers : pc[p] \in {"delete", "requeue"} /\ cur[p] = m
  \/ m \in inFlight /\ deadline[m] = "past"

\* Every attempt but the last is of a lease that ran out.
Counted ==
  /\ \A p \in Pullers : pc[p] = "store" => deadline[cur[p]] = "live"
  /\ \A m \in PM : /\ attempt[m] <= expiries[m] + 1
                   /\ Returning(m) => attempt[m] <= expiries[m]

\* What is leased, and what a Pull works on, have different keys, and those a
\* Pull has to keep off are in its leasedKeys.
Bound == inFlight \cup {cur[p] : p \in {p \in Pullers : Works(p)}}
KeysApart ==
  Ordered =>
    /\ \A m, n \in Bound : Key[m] = Key[n] /\ Key[m] # NoKey => m = n
    /\ \A p \in Pullers :
         pc[p] \in {"loop", "store"} => Keys(Bound) \subseteq leasedKeys[p]

IInv == TypeOK /\ Placed

-----------------------------------------------------------------------------
(* Sequences without repetition.                                           *)

Distinct == {s \in Seq(PM) : IsInjective(s)}

\* One element more, which is not in the sequence yet.
LEMMA OneMoreInjective ==
  ASSUME NEW s \in Seq(PM), NEW m \in PM, IsInjective(s), m \notin Range(s),
         NEW t \in Seq(PM), Len(t) = Len(s) + 1, t[Len(s) + 1] = m,
         \A i \in 1 .. Len(s) : t[i] = s[i]
  PROVE  t \in Distinct
<1>1. /\ Len(s) \in Nat /\ DOMAIN s = 1 .. Len(s)
      /\ DOMAIN t = 1 .. (Len(s) + 1)
  BY LenProperties
<1>2. \A i \in 1 .. Len(s) : s[i] # m
  BY <1>1 DEF Range
<1>3. \A i, j \in 1 .. Len(s) : s[i] = s[j] => i = j
  BY <1>1 DEF IsInjective
<1>4. \A i \in 1 .. (Len(s) + 1) : i \in 1 .. Len(s) \/ i = Len(s) + 1
  BY <1>1
<1>5. \A i, j \in 1 .. (Len(s) + 1) : t[i] = t[j] => i = j
  BY <1>1, <1>2, <1>3, <1>4
<1> QED  BY <1>1, <1>5 DEF IsInjective, Distinct

\* A send of a message that the channel lacks leaves no message in it twice.
LEMMA AppendDistinct ==
  \A s \in Distinct : \A m \in PM \ Range(s) : Append(s, m) \in Distinct
<1> SUFFICES ASSUME NEW s \in Distinct, NEW m \in PM \ Range(s)
             PROVE  Append(s, m) \in Distinct
  OBVIOUS
<1>1. s \in Seq(PM) /\ IsInjective(s)
  BY DEF Distinct
<1>2. /\ Append(s, m) \in Seq(PM)
      /\ Len(Append(s, m)) = Len(s) + 1
      /\ \A i \in 1 .. Len(s) : Append(s, m)[i] = s[i]
      /\ Append(s, m)[Len(s) + 1] = m
  BY <1>1, AppendProperties
<1>3. m \in PM /\ m \notin Range(s)
  OBVIOUS
<1> QED  BY ONLY <1>1, <1>2, <1>3, OneMoreInjective, Zenon

\* A receive takes its message out of the channel.
LEMMA TailInjective ==
  ASSUME NEW s \in Seq(PM), s # <<>>, IsInjective(s)
  PROVE  IsInjective(Tail(s)) /\ Head(s) \notin Range(Tail(s))
<1>1. /\ Tail(s) \in Seq(PM)
      /\ Len(Tail(s)) = Len(s) - 1
      /\ \A i \in 1 .. Len(Tail(s)) : Tail(s)[i] = s[i + 1]
  BY HeadTailProperties
<1>2. /\ Len(s) \in Nat \ {0}
      /\ DOMAIN s = 1 .. Len(s)
      /\ DOMAIN Tail(s) = 1 .. (Len(s) - 1)
      /\ Head(s) = s[1]
  BY <1>1, LenProperties, EmptySeq
<1>3. IsInjective(Tail(s))
  BY <1>1, <1>2 DEF IsInjective
<1>4. \A i \in 1 .. (Len(s) - 1) : Tail(s)[i] # s[1]
  BY <1>1, <1>2 DEF IsInjective
<1> QED  BY <1>2, <1>3, <1>4 DEF Range

\* Nothing is twice, or at all, in an empty channel or batch.
LEMMA EmptyInjective == IsInjective(<<>>) /\ Range(<<>>) = {}
<1>1. DOMAIN <<>> = {}
  BY EmptySeq
<1> QED  BY <1>1, EmptyRange DEF IsInjective

\* With room for all, a channel that lacks a message has room for it.
LEMMA RoomForOne ==
  ASSUME TypeOK, IsInjective(ch), NEW m \in PM, m \notin Range(ch),
         Cardinality(PM) <= QueueSize
  PROVE  HasRoom
<1>1. ch \in Seq(PM) /\ Len(ch) \in Nat /\ DOMAIN ch = 1 .. Len(ch)
  BY LenProperties DEF TypeOK
<1>2. ch \in [1 .. Len(ch) -> PM \ {m}]
  BY <1>1, ElementOfSeq DEF Range
<1>3. ch \in Injection(1 .. Len(ch), PM \ {m})
  BY <1>1, <1>2 DEF Injection, IsInjective
<1>4. IsFiniteSet(PM) /\ IsFiniteSet(PM \ {m})
      /\ Cardinality(PM \ {m}) = Cardinality(PM) - 1
      /\ Cardinality(PM) \in Nat
  BY QueueAssumption, FS_RemoveElement, FS_CardinalityType DEF QueueAssumption
<1>5. Cardinality(1 .. Len(ch)) <= Cardinality(PM \ {m})
  BY <1>3, <1>4, FS_Injection
<1>6. Cardinality(1 .. Len(ch)) = Len(ch)
  BY <1>1, FS_Interval
<1>7. QueueSize \in Nat
  BY QueueAssumption DEF QueueAssumption
<1> QED  BY <1>1, <1>4, <1>5, <1>6, <1>7 DEF HasRoom

-----------------------------------------------------------------------------
(* A message is in one place: the ways in which messages move.             *)

\* The head of what a goroutine will send goes to the channel.
LEMMA SendPlaces ==
  ASSUME IInv, NEW t \in Threads, todo[t] # <<>>, Send(Head(todo[t])),
         todo' = [todo EXCEPT ![t] = Tail(@)], UNCHANGED <<inFlight, pc, cur>>
  PROVE  Placed'
<1> DEFINE m == Head(todo[t])
<1>1. ch \in Seq(PM) /\ todo[t] \in Seq(PM) /\ todo \in [Threads -> Seq(PM)]
  BY DEF IInv, TypeOK
<1>2. /\ m \in PM /\ Range(todo[t]) = Range(todo'[t]) \cup {m}
      /\ Range(ch') = Range(ch) \cup {m}
  BY <1>1, QueueSeq DEF Send
<1>3. m \notin Range(todo'[t]) /\ IsInjective(todo'[t])
  BY <1>1, TailInjective DEF IInv, Placed
<1>4. m \notin Range(ch) /\ m \notin inFlight
      /\ \A u \in Threads \ {t} : m \notin Range(todo[u])
  BY <1>2 DEF IInv, Placed
<1>5. IsInjective(ch')
  <2>1. IsInjective(ch) /\ ch' = Append(ch, m)
    BY DEF IInv, Placed, Send
  <2> HIDE DEF m
  <2>2. ch \in Distinct /\ m \in PM \ Range(ch)
    BY <1>1, <1>2, <1>4, <2>1 DEF Distinct
  <2>3. ch' \in Distinct
    BY <2>1, <2>2, AppendDistinct
  <2> QED  BY <2>3 DEF Distinct
<1>6. \A u \in Threads \ {t} : todo'[u] = todo[u]
  BY <1>1
<1> HIDE DEF m
<1> QED  BY <1>2, <1>3, <1>4, <1>5, <1>6 DEF IInv, Placed, Works

\* The head of the channel goes to what a goroutine has drained or skipped.
LEMMA ReceivePlaces ==
  ASSUME IInv, NEW t \in Threads, ch # <<>>, ch' = Tail(ch),
         todo' = [todo EXCEPT ![t] = Append(@, Head(ch))],
         UNCHANGED <<inFlight, pc, cur>>
  PROVE  Placed'
<1> DEFINE m == Head(ch)
<1>1. ch \in Seq(PM) /\ todo[t] \in Seq(PM) /\ todo \in [Threads -> Seq(PM)]
  BY DEF IInv, TypeOK
<1>2. /\ m \in PM /\ Range(todo'[t]) = Range(todo[t]) \cup {m}
      /\ Range(ch) = Range(ch') \cup {m}
  BY <1>1, QueueSeq
<1>3. m \notin Range(ch') /\ IsInjective(ch')
  BY <1>1, TailInjective DEF IInv, Placed
<1>4. m \notin inFlight /\ \A u \in Threads : m \notin Range(todo[u])
  BY <1>2 DEF IInv, Placed
<1>5. IsInjective(todo'[t])
  <2>1. IsInjective(todo[t]) /\ todo'[t] = Append(todo[t], m)
    BY <1>1 DEF IInv, Placed
  <2> HIDE DEF m
  <2>2. todo[t] \in Distinct /\ m \in PM \ Range(todo[t])
    BY <1>1, <1>2, <1>4, <2>1 DEF Distinct
  <2>3. todo'[t] \in Distinct
    BY <2>1, <2>2, AppendDistinct
  <2> QED  BY <2>3 DEF Distinct
<1>6. \A u \in Threads \ {t} : todo'[u] = todo[u]
  BY <1>1
<1> HIDE DEF m
<1>7. ASSUME NEW u \in Threads
      PROVE  /\ IsInjective(todo'[u])
             /\ Range(todo'[u]) \cap (Range(ch') \cup inFlight) = {}
             /\ \A v \in Threads \ {u} : Range(todo'[u]) \cap Range(todo'[v]) = {}
  <2>1. /\ IsInjective(todo[u]) /\ Range(todo[u]) \cap (Range(ch) \cup inFlight) = {}
        /\ \A v \in Threads \ {u} : Range(todo[u]) \cap Range(todo[v]) = {}
    BY DEF IInv, Placed
  <2>2. CASE u = t
    BY <1>2, <1>3, <1>4, <1>5, <1>6, <2>1, <2>2
  <2>3. CASE u # t
    BY <1>2, <1>3, <1>4, <1>5, <1>6, <2>1, <2>3
  <2> QED  BY <2>2, <2>3
<1>8. \A p \in Pullers : Works(p) =>
        /\ cur[p] \notin Range(ch')
        /\ \A u \in Threads : cur[p] \notin Range(todo'[u])
        /\ pc[p] # "delete" => cur[p] \notin inFlight
  BY <1>2, <1>6 DEF IInv, Placed
<1>9. Range(ch') \cap inFlight = {}
  BY <1>2 DEF IInv, Placed
<1> QED  BY <1>3, <1>7, <1>8, <1>9 DEF Placed, Works

\* Where messages only disappear, and no Pull begins to work on one.
LEMMA FewerPlaces ==
  ASSUME IInv,
         ch' = ch \/ (ch # <<>> /\ ch' = Tail(ch)),
         inFlight' \subseteq inFlight,
         \A t \in Threads : \/ todo'[t] = todo[t] \/ todo'[t] = <<>>
                            \/ todo[t] # <<>> /\ todo'[t] = Tail(todo[t]),
         \A p \in Pullers : Works(p)' =>
           /\ Works(p) /\ cur'[p] = cur[p]
           /\ pc'[p] # "delete" => pc[p] # "delete" \/ cur[p] \notin inFlight'
  PROVE  Placed'
<1>1. ch \in Seq(PM) /\ todo \in [Threads -> Seq(PM)]
  BY DEF IInv, TypeOK
<1>2. IsInjective(ch') /\ Range(ch') \subseteq Range(ch)
  BY <1>1, QueueSeq, TailInjective DEF IInv, Placed
<1>3. ASSUME NEW t \in Threads
      PROVE  IsInjective(todo'[t]) /\ Range(todo'[t]) \subseteq Range(todo[t])
  <2>1. todo[t] \in Seq(PM) /\ IsInjective(todo[t])
    BY <1>1 DEF IInv, Placed
  <2>2. CASE todo'[t] = todo[t]
    BY <2>1, <2>2
  <2>3. CASE todo'[t] = <<>>
    BY <2>3, EmptyInjective
  <2>4. CASE todo[t] # <<>> /\ todo'[t] = Tail(todo[t])
    BY <2>1, <2>4, QueueSeq, TailInjective
  <2> QED  BY <2>2, <2>3, <2>4
<1>4. ASSUME NEW p \in Pullers, Works(p)'
      PROVE  /\ cur'[p] \notin Range(ch')
             /\ \A t \in Threads : cur'[p] \notin Range(todo'[t])
             /\ pc'[p] # "delete" => cur'[p] \notin inFlight'
  BY <1>2, <1>3, <1>4 DEF IInv, Placed
<1> QED  BY <1>2, <1>3, <1>4 DEF IInv, Placed

\* A new queue is empty, and no message is in two batches.
LEMMA InitPlaced == ASSUME Init PROVE Placed
<1> USE DEF Init, Senders, Holders, Threads
<1>1. ch = <<>> /\ inFlight = {}
      /\ \A t \in Threads : todo[t] = IF t \in Senders THEN Batch[t] ELSE <<>>
  OBVIOUS
<1>2. \A p \in Pullers : ~Works(p)
  BY QueueAssumption DEF Works, QueueAssumption
<1>3. \A t \in Senders : IsInjective(Batch[t])
  BY QueueAssumption DEF QueueAssumption
<1>4. \A t, u \in Senders : t # u => Range(Batch[t]) \cap Range(Batch[u]) = {}
  BY QueueAssumption DEF QueueAssumption
<1>5. \A t \in Threads : IsInjective(todo[t])
  BY <1>1, <1>3, EmptyInjective
<1>6. \A t \in Threads : \A u \in Threads \ {t} :
        Range(todo[t]) \cap Range(todo[u]) = {}
  BY <1>1, <1>4, EmptyInjective
<1> QED  BY <1>1, <1>2, <1>5, <1>6, EmptyInjective DEF Placed

\* Each operation keeps every message in one place: one step below per action.
LEMMA NextPlaced ==
  ASSUME SinglePull, IInv, [Next]_vars
  PROVE  Placed'
<1> USE DEF queueVars, msgVars, localVars, history
<1>1. ASSUME NEW t \in Senders, SendNext(t)  PROVE Placed'
  BY <1>1, SendPlaces DEF SendNext, Threads
<1>2. ASSUME NEW t \in Senders, SendRefused(t)  PROVE Placed'
  BY <1>2, FewerPlaces DEF SendRefused, Threads, Works, IInv, TypeOK
<1>3. ASSUME NEW p \in Pullers, PullStart(p)  PROVE Placed'
  BY <1>3, FewerPlaces DEF PullStart, Goto, Works, IInv, TypeOK
<1>4. ASSUME NEW p \in Pullers, NEW m \in PM, FindExpired(p, m)  PROVE Placed'
  <2>1. m \in inFlight /\ cur'[p] = m /\ \A q \in Pullers : q = p
    BY <1>4, SinglePull DEF SinglePull, FindExpired, Due, IInv, TypeOK
  <2>2. pc'[p] = "delete" /\ UNCHANGED <<ch, inFlight, todo>>
    BY <1>4 DEF FindExpired, Goto, IInv, TypeOK, Threads, Holders
  <2>3. m \notin Range(ch) /\ \A t \in Threads : m \notin Range(todo[t])
    BY <2>1 DEF IInv, Placed
  <2> QED  BY <2>1, <2>2, <2>3 DEF IInv, Placed, Works
<1>5. ASSUME NEW p \in Pullers, DeleteExpired(p)  PROVE Placed'
  BY <1>5, FewerPlaces DEF DeleteExpired, Goto, Works, IInv, TypeOK
<1>6. ASSUME NEW p \in Pullers, RequeueExpired(p)  PROVE Placed'
  <2>1. /\ cur[p] \in PM /\ Works(p) /\ ch \in Seq(PM)
        /\ cur[p] \notin Range(ch) \cup inFlight
        /\ \A t \in Threads : cur[p] \notin Range(todo[t])
    BY <1>6 DEF RequeueExpired, IInv, TypeOK, Placed, Works
  <2>2. /\ IsInjective(ch') /\ Range(ch') \subseteq Range(ch) \cup {cur[p]}
        /\ UNCHANGED <<inFlight, todo>>
    <3>1. ch' = ch \/ ch' = Append(ch, cur[p])
      BY <1>6 DEF RequeueExpired, Send
    <3>2. IsInjective(ch) /\ cur[p] \notin Range(ch)
      BY <2>1 DEF IInv, Placed
    <3>3. CASE ch' = ch
      BY <1>6, <3>2, <3>3 DEF RequeueExpired
    <3>4. CASE ch' = Append(ch, cur[p])
      <4>1. ch \in Distinct /\ cur[p] \in PM \ Range(ch)
        BY <2>1, <3>2 DEF Distinct
      <4>2. ch' \in Distinct
        BY <3>4, <4>1, AppendDistinct
      <4>3. IsInjective(ch')
        BY <4>2 DEF Distinct
      <4> QED  BY <1>6, <2>1, <3>4, <4>3, QueueSeq DEF RequeueExpired
    <3> QED  BY <3>1, <3>3, <3>4
  <2>3. \A q \in Pullers : ~Works(q)'
    <3>1. pc'[p] = "scan"
      BY <1>6 DEF RequeueExpired, Goto, IInv, TypeOK, Threads, Holders
    <3>2. \A q \in Pullers : q = p
      BY SinglePull DEF SinglePull
    <3> QED  BY <3>1, <3>2 DEF Works
  <2> QED  BY <2>1, <2>2, <2>3 DEF IInv, Placed
<1>7. ASSUME NEW p \in Pullers, CollectLeasedKeys(p)  PROVE Placed'
  BY <1>7, FewerPlaces DEF CollectLeasedKeys, Goto, Works, IInv, TypeOK
<1>8. ASSUME NEW p \in Pullers, SkipMessage(p)  PROVE Placed'
  BY <1>8, ReceivePlaces DEF SkipMessage, CanDequeue, Threads, Holders
<1>9. ASSUME NEW p \in Pullers, TakeMessage(p)  PROVE Placed'
  <2>1. /\ ch # <<>> /\ ch \in Seq(PM) /\ ch' = Tail(ch) /\ cur'[p] = Head(ch)
        /\ UNCHANGED <<inFlight, todo>>
    BY <1>9 DEF TakeMessage, CanDequeue, IInv, TypeOK
  <2>2. /\ IsInjective(ch') /\ Range(ch) = Range(ch') \cup {Head(ch)}
        /\ Head(ch) \notin Range(ch')
    BY <2>1, QueueSeq, TailInjective DEF IInv, Placed
  <2>3. Head(ch) \notin inFlight /\ \A t \in Threads : Head(ch) \notin Range(todo[t])
    BY <2>2 DEF IInv, Placed
  <2>4. \A q \in Pullers : q = p
    BY SinglePull DEF SinglePull
  <2> QED  BY <2>1, <2>2, <2>3, <2>4 DEF IInv, Placed
<1>10. ASSUME NEW p \in Pullers, StoreInFlight(p)  PROVE Placed'
  <2>1. /\ cur[p] \notin Range(ch) /\ \A t \in Threads : cur[p] \notin Range(todo[t])
        /\ inFlight' = inFlight \cup {cur[p]} /\ UNCHANGED <<ch, todo>>
    BY <1>10 DEF StoreInFlight, IInv, Placed, Works
  <2>2. \A q \in Pullers : ~Works(q)'
    <3>1. pc'[p] = "loop"
      BY <1>10 DEF StoreInFlight, Goto, IInv, TypeOK, Threads, Holders
    <3>2. \A q \in Pullers : q = p
      BY SinglePull DEF SinglePull
    <3> QED  BY <3>1, <3>2 DEF Works
  <2> QED  BY <2>1, <2>2 DEF IInv, Placed
<1>11. ASSUME NEW p \in Pullers, EndLoop(p)  PROVE Placed'
  BY <1>11, FewerPlaces DEF EndLoop, Goto, Works, IInv, TypeOK
<1>12. ASSUME NEW t \in Holders, PutBack(t)  PROVE Placed'
  <2>1. CASE HasRoom
    BY <1>12, <2>1, SendPlaces DEF PutBack, Threads
  <2>2. CASE ~HasRoom
    BY <1>12, <2>2, FewerPlaces DEF PutBack, Works, IInv, TypeOK
  <2> QED  BY <2>1, <2>2
<1>13. ASSUME NEW p \in Pullers, PullReturn(p)  PROVE Placed'
  BY <1>13, FewerPlaces DEF PullReturn, Goto, Works, IInv, TypeOK
<1>14. ASSUME NEW l \in Listers, ListStart(l)  PROVE Placed'
  BY <1>14, FewerPlaces DEF ListStart, Goto, Works, IInv, TypeOK
<1>15. ASSUME NEW l \in Listers, ListDrain(l)  PROVE Placed'
  <2>1. CASE ch = <<>>
    <3>1. UNCHANGED <<ch, inFlight, todo, cur>> /\ pc' = [pc EXCEPT ![l] = "putback"]
      BY <1>15, <2>1 DEF ListDrain, Goto
    <3> QED  BY <3>1, FewerPlaces DEF Works, IInv, TypeOK
  <2>2. CASE ch # <<>>
    BY <1>15, <2>2, ReceivePlaces DEF ListDrain, Threads, Holders
  <2> QED  BY <2>1, <2>2
<1>16. ASSUME NEW l \in Listers, ListReturn(l)  PROVE Placed'
  BY <1>16, FewerPlaces DEF ListReturn, Goto, Works, IInv, TypeOK
<1>17. ASSUME NEW q \in Seekers, SeekDrain(q)  PROVE Placed'
  BY <1>17, FewerPlaces DEF SeekDrain, Works
<1>18. ASSUME NEW q \in Seekers, SeekClear(q)  PROVE Placed'
  BY <1>18, FewerPlaces DEF SeekClear, Goto, Works, IInv, TypeOK
<1>19. ASSUME NEW m \in PM, Acknowledge(m)  PROVE Placed'
  BY <1>19, FewerPlaces DEF Acknowledge, Works
<1>20. ASSUME NEW m \in PM, LoadForUpdate(m) \/ WriteDeadline(m) \/ LeaseRunsOut(m)
       PROVE  Placed'
  BY <1>20, FewerPlaces DEF LoadForUpdate, WriteDeadline, LeaseRunsOut, Works
<1>21. CASE UNCHANGED vars
  BY <1>21, FewerPlaces DEF vars, Works
<1> QED
  BY <1>1, <1>2, <1>3, <1>4, <1>5, <1>6, <1>7, <1>8, <1>9, <1>10, <1>11, <1>12,
     <1>13, <1>14, <1>15, <1>16, <1>17, <1>18, <1>19, <1>20, <1>21
     DEF Next, SendStep, PullStep, ListStep, SeekStep, ClientStep, Holders

\* The invariant holds throughout.
LEMMA AlwaysPlaced == ASSUME SinglePull PROVE Spec => []IInv
<1>1. Init => IInv
  BY InitTypeOK, InitPlaced DEF IInv
<1>2. IInv /\ [Next]_vars => IInv'
  BY NextTypeOK, NextPlaced DEF IInv
<1> QED  BY <1>1, <1>2, PTL DEF Spec

\* While Pulls do not overlap, no message is in two places at once, for any
\* number of publishes, seeks and snapshots beside them.
THEOREM OnePlace == ASSUME SinglePull PROVE Spec => []Exclusive
<1>1. ASSUME IInv PROVE Exclusive
  <2>1. \A t, u \in Threads : InHand(t) # {} /\ InHand(u) # {} => t = u
    BY SinglePull DEF SinglePull, InHand
  <2>2. \A t \in Threads : \A m \in InHand(t) :
          /\ m \notin Range(ch) \cup inFlight
          /\ \A u \in Threads : m \notin Range(todo[u])
    BY <1>1 DEF IInv, Placed, InHand, Works
  <2> QED  BY <1>1, <2>1, <2>2 DEF IInv, Placed, Exclusive, Held
<1> QED  BY <1>1, AlwaysPlaced, PTL

-----------------------------------------------------------------------------
(* What follows from it.                                                   *)

\* While Pulls do not overlap, no message is lost to a full channel whose
\* capacity is the number of messages: no call leaves a second copy of one.
THEOREM NoneIsLost == ASSUME SinglePull PROVE Spec => []NoLossBelowCapacity
<1>1. Init => NoLossBelowCapacity
  BY DEF Init, NoLossBelowCapacity
<1>2. ASSUME IInv, NoLossBelowCapacity, [Next]_vars PROVE NoLossBelowCapacity'
  <2> SUFFICES ASSUME Cardinality(PM) <= QueueSize, dropped = {} PROVE dropped' = {}
    BY <1>2 DEF NoLossBelowCapacity, IInv
  <2> USE <1>2 DEF queueVars, msgVars, localVars, history
  <2>1. \A m \in PM : m \notin Range(ch) => HasRoom
    BY RoomForOne DEF IInv, Placed
  <2>2. \A t \in Threads : todo[t] # <<>> => HasRoom
    <3> SUFFICES ASSUME NEW t \in Threads, todo[t] # <<>> PROVE HasRoom
      OBVIOUS
    <3>1. todo[t] \in Seq(PM)
      BY DEF IInv, TypeOK
    <3>2. Head(todo[t]) \in PM /\ Head(todo[t]) \in Range(todo[t])
      BY <3>1, QueueSeq
    <3>3. Head(todo[t]) \notin Range(ch)
      BY <3>2 DEF IInv, Placed
    <3> QED  BY <2>1, <3>2, <3>3
  <2>3. \A p \in Pullers : pc[p] = "requeue" => HasRoom
    BY <2>1 DEF IInv, TypeOK, Placed, Works
  <2>4. ASSUME NEW t \in Senders, SendStep(t)  PROVE dropped' = {}
    BY <2>2, <2>4 DEF SendStep, SendNext, SendRefused, Threads
  <2>5. ASSUME NEW t \in Holders, PutBack(t)  PROVE dropped' = {}
    BY <2>2, <2>5 DEF PutBack, Threads
  <2>6. ASSUME NEW p \in Pullers, RequeueExpired(p)  PROVE dropped' = {}
    BY <2>3, <2>6 DEF RequeueExpired
  <2>7. ASSUME NEW p \in Pullers, PullStart(p) \/ PullStep(p)  PROVE dropped' = {}
    <3>1. CASE RequeueExpired(p) \/ PutBack(p)
      BY <2>5, <2>6, <3>1 DEF Holders
    <3>2. CASE \E m \in PM : FindExpired(p, m)
      BY <3>2 DEF FindExpired
    <3> QED  BY <2>7, <3>1, <3>2 DEF PullStart, PullStep, DeleteExpired,
                  CollectLeasedKeys, SkipMessage, TakeMessage, StoreInFlight,
                  EndLoop, PullReturn
  <2>8. ASSUME NEW l \in Listers, ListStart(l) \/ ListStep(l)  PROVE dropped' = {}
    BY <2>5, <2>8 DEF ListStart, ListStep, ListDrain, ListReturn, Holders
  <2>9. ASSUME NEW q \in Seekers, SeekStep(q)  PROVE dropped' = {}
    BY <2>9 DEF SeekStep, SeekDrain, SeekClear
  <2>10. ASSUME NEW m \in PM, ClientStep(m) \/ LeaseRunsOut(m)  PROVE dropped' = {}
    BY <2>10 DEF ClientStep, Acknowledge, LoadForUpdate, WriteDeadline, LeaseRunsOut
  <2>11. CASE UNCHANGED vars
    BY <2>11 DEF vars
  <2> QED  BY <2>4, <2>7, <2>8, <2>9, <2>10, <2>11 DEF Next
<1> QED  BY <1>1, <1>2, AlwaysPlaced, PTL DEF Spec

\* While Pulls do not overlap, and whatever deadlines clients modify, a step
\* ends a lease only by an ack, by a seek, or after its deadline, unless the
\* deadline was modified between a Pull's test and its delete: what the scan has
\* found expired is expired still, or marked as overtaken, when it deletes it.
THEOREM LeasesLast == ASSUME SinglePull PROVE Spec => NoLeaseCutShort
<1> DEFINE Settled == \A p \in Pullers :
                        pc[p] = "delete" /\ cur[p] \in inFlight
                          => deadline[cur[p]] = "past" \/ cur[p] \in overtaken
           Lasts == \A m \in inFlight \ inFlight' :
                      m \in acked' \cup replaced' \cup overtaken \/ deadline[m] = "past"
<1>1. Init => Settled
  BY QueueAssumption DEF Init, QueueAssumption, Senders, Holders, Threads
<1>2. ASSUME IInv, Settled, [Next]_vars  PROVE Settled' /\ Lasts
  <2> USE <1>2 DEF queueVars, msgVars, localVars, history
  <2>1. ASSUME UNCHANGED <<deadline, overtaken>>, inFlight' \subseteq inFlight,
               \A p \in Pullers :
                 pc'[p] = "delete" => pc[p] = "delete" /\ cur'[p] = cur[p]
        PROVE  Settled'
    BY <2>1
  <2>2. ASSUME NEW t \in Senders, SendStep(t)  PROVE Settled' /\ Lasts
    BY <2>1, <2>2 DEF SendStep, SendNext, SendRefused
  <2>3. ASSUME NEW t \in Holders, PutBack(t)  PROVE Settled' /\ Lasts
    BY <2>1, <2>3 DEF PutBack
  <2>4. ASSUME NEW p \in Pullers, NEW m \in PM, FindExpired(p, m)
        PROVE  Settled' /\ Lasts
    <3>1. \A q \in Pullers : q = p
      BY SinglePull DEF SinglePull
    <3>2. /\ cur'[p] = m /\ deadline[m] = "past"
          /\ UNCHANGED <<inFlight, deadline, overtaken>>
      BY <2>4 DEF FindExpired, Due, IInv, TypeOK
    <3> QED  BY <3>1, <3>2
  <2>5. ASSUME NEW p \in Pullers, DeleteExpired(p)  PROVE Settled' /\ Lasts
    <3>1. \A q \in Pullers : q = p
      BY SinglePull DEF SinglePull
    <3>2. pc'[p] = "requeue"
      BY <2>5 DEF DeleteExpired, Goto, IInv, TypeOK, Threads, Holders
    <3>3. Settled'
      BY <2>5, <3>1, <3>2 DEF DeleteExpired
    <3>4. inFlight' = inFlight \ {cur[p]} /\ pc[p] = "delete"
      BY <2>5 DEF DeleteExpired
    <3> QED  BY <3>3, <3>4
  <2>6. ASSUME NEW p \in Pullers, TakeMessage(p) \/ StoreInFlight(p)
        PROVE  Settled' /\ Lasts
    <3>1. \A q \in Pullers : q = p
      BY SinglePull DEF SinglePull
    <3>2. pc'[p] # "delete"
      BY <2>6 DEF TakeMessage, StoreInFlight, Goto, IInv, TypeOK, Threads, Holders
    <3>3. UNCHANGED overtaken /\ inFlight \subseteq inFlight'
      BY <2>6 DEF TakeMessage, StoreInFlight
    <3> QED  BY <3>1, <3>2, <3>3
  <2>7. ASSUME NEW p \in Pullers,
               \/ PullStart(p) \/ RequeueExpired(p) \/ CollectLeasedKeys(p)
               \/ SkipMessage(p) \/ EndLoop(p) \/ PullReturn(p)
        PROVE  Settled' /\ Lasts
    <3>1. UNCHANGED <<inFlight, deadline, overtaken>>
      BY <2>7 DEF PullStart, RequeueExpired, CollectLeasedKeys, SkipMessage,
                  EndLoop, PullReturn
    <3>2. \A q \in Pullers : pc'[q] = "delete" => pc[q] = "delete" /\ cur'[q] = cur[q]
      BY <2>7, SinglePull DEF SinglePull, PullStart, RequeueExpired,
         CollectLeasedKeys, SkipMessage, EndLoop, PullReturn, Goto, IInv, TypeOK,
         Threads, Holders
    <3> QED  BY <2>1, <3>1, <3>2
  <2>8. ASSUME NEW l \in Listers, ListStart(l) \/ ListDrain(l) \/ ListReturn(l)
        PROVE  Settled' /\ Lasts
    <3>1. UNCHANGED <<inFlight, deadline, overtaken, cur>>
      BY <2>8 DEF ListStart, ListDrain, ListReturn
    <3>2. \A q \in Pullers : pc'[q] = "delete" => pc[q] = "delete"
      BY <2>8 DEF ListStart, ListDrain, ListReturn, Goto, IInv, TypeOK, Threads, Holders
    <3> QED  BY <2>1, <3>1, <3>2
  <2>9. ASSUME NEW q \in Seekers, SeekStep(q)  PROVE Settled' /\ Lasts
    <3>1. UNCHANGED <<deadline, overtaken, cur>> /\ inFlight' \subseteq inFlight
      BY <2>9 DEF SeekStep, SeekDrain, SeekClear
    <3>2. \A p \in Pullers : pc'[p] = "delete" => pc[p] = "delete"
      BY <2>9 DEF SeekStep, SeekDrain, SeekClear, Goto, IInv, TypeOK, Threads, Holders
    <3>3. Lasts
      BY <2>9 DEF SeekStep, SeekDrain, SeekClear
    <3> QED  BY <2>1, <3>1, <3>2, <3>3
  <2>10. ASSUME NEW m \in PM, ClientStep(m)  PROVE Settled' /\ Lasts
    <3>1. CASE Acknowledge(m) \/ LoadForUpdate(m)
      BY <2>1, <3>1 DEF Acknowledge, LoadForUpdate
    <3>2. CASE WriteDeadline(m)
      <4>1. /\ deadline' = [deadline EXCEPT ![m] = "live"]
            /\ UNCHANGED <<inFlight, pc, cur>>
            /\ overtaken \subseteq overtaken'
            /\ m \in Condemned => m \in overtaken'
        BY <3>2 DEF WriteDeadline
      <4>2. \A p \in Pullers : pc[p] = "delete" => cur[p] \in Condemned
        BY DEF Condemned
      <4> QED  BY <4>1, <4>2 DEF IInv, TypeOK
    <3> QED  BY <2>10, <3>1, <3>2 DEF ClientStep
  <2>11. ASSUME NEW m \in PM, LeaseRunsOut(m)  PROVE Settled' /\ Lasts
    <3>1. deadline' = [deadline EXCEPT ![m] = "past"]
          /\ UNCHANGED <<inFlight, overtaken, pc, cur>>
      BY <2>11 DEF LeaseRunsOut
    <3> QED  BY <3>1 DEF IInv, TypeOK
  <2>12. CASE UNCHANGED vars
    BY <2>1, <2>12 DEF vars
  <2> QED
    BY <2>2, <2>3, <2>4, <2>5, <2>6, <2>7, <2>8, <2>9, <2>10, <2>11, <2>12
       DEF Next, PullStep, ListStep, Holders
<1>3. Spec => [][Lasts]_vars
  <2> HIDE DEF Settled, Lasts
  <2> QED  BY <1>1, <1>2, AlwaysPlaced, PTL DEF Spec
<1> QED  BY <1>3 DEF NoLeaseCutShort

\* While Pulls do not overlap, of the messages with one ordering key at most
\* one is leased or about to be: an expired message keeps its key bound until
\* it is back in the channel, and leasedKeys has every bound key of the rest.
THEOREM KeysOnce == ASSUME SinglePull PROVE Spec => []OneLeasePerKey
<1>1. Init => KeysApart
  BY QueueAssumption
     DEF Init, QueueAssumption, KeysApart, Bound, Works, Senders, Holders, Threads
<1>2. ASSUME IInv, KeysApart, [Next]_vars  PROVE KeysApart'
  <2> SUFFICES ASSUME Ordered  PROVE KeysApart'
    BY DEF KeysApart
  <2> USE <1>2 DEF queueVars, msgVars, localVars, history
  <2>1. ASSUME Bound' \subseteq Bound,
               \A p \in Pullers : pc'[p] \in {"loop", "store"} =>
                 pc[p] \in {"loop", "store"} /\ leasedKeys'[p] = leasedKeys[p]
        PROVE  KeysApart'
    BY <2>1 DEF KeysApart, Keys
  <2>2. ASSUME inFlight' \subseteq inFlight, UNCHANGED <<cur, leasedKeys>>,
               \A p \in Pullers : pc'[p] = pc[p]
        PROVE  KeysApart'
    <3>1. Bound' \subseteq Bound
      BY <2>2 DEF Bound, Works
    <3> QED  BY <2>1, <2>2, <3>1
  <2>3. ASSUME NEW t \in Senders, SendStep(t)  PROVE KeysApart'
    BY <2>2, <2>3 DEF SendStep, SendNext, SendRefused
  <2>4. ASSUME NEW t \in Holders, PutBack(t)  PROVE KeysApart'
    BY <2>2, <2>4 DEF PutBack
  <2>5. ASSUME NEW p \in Pullers, NEW m \in PM, FindExpired(p, m)  PROVE KeysApart'
    <3>1. \A q \in Pullers : q = p
      BY SinglePull DEF SinglePull
    <3>2. m \in inFlight /\ cur'[p] = m /\ pc'[p] = "delete" /\ UNCHANGED inFlight
      BY <2>5 DEF FindExpired, Due, Goto, IInv, TypeOK, Threads, Holders
    <3>3. Bound' \subseteq Bound
      BY <3>1, <3>2 DEF Bound
    <3> QED  BY <2>1, <3>1, <3>2, <3>3
  <2>6. ASSUME NEW p \in Pullers, DeleteExpired(p)  PROVE KeysApart'
    <3>1. \A q \in Pullers : q = p
      BY SinglePull DEF SinglePull
    <3>2. /\ pc[p] = "delete" /\ pc'[p] = "requeue" /\ UNCHANGED cur
          /\ inFlight' \subseteq inFlight
      BY <2>6 DEF DeleteExpired, Goto, IInv, TypeOK, Threads, Holders
    <3>3. Bound' \subseteq Bound
      BY <3>1, <3>2 DEF Bound, Works
    <3> QED  BY <2>1, <3>1, <3>2, <3>3
  <2>7. ASSUME NEW p \in Pullers,
               \/ PullStart(p) \/ RequeueExpired(p) \/ PullReturn(p)
        PROVE  KeysApart'
    <3>1. \A q \in Pullers : q = p
      BY SinglePull DEF SinglePull
    <3>2. pc'[p] \in {"scan", "idle"} /\ UNCHANGED inFlight
      BY <2>7 DEF PullStart, RequeueExpired, PullReturn, Goto, IInv, TypeOK,
         Threads, Holders
    <3>3. Bound' \subseteq Bound
      BY <3>1, <3>2 DEF Bound, Works
    <3> QED  BY <2>1, <3>1, <3>2, <3>3
  <2>8. ASSUME NEW p \in Pullers, CollectLeasedKeys(p)  PROVE KeysApart'
    <3>1. \A q \in Pullers : q = p
      BY SinglePull DEF SinglePull
    <3>2. pc'[p] = "loop" /\ leasedKeys'[p] = Keys(inFlight) /\ UNCHANGED inFlight
      BY <2>8 DEF CollectLeasedKeys, Goto, IInv, TypeOK, Threads, Holders
    <3>3. Bound' = inFlight /\ inFlight \subseteq Bound
      BY <3>1, <3>2 DEF Bound, Works
    <3> QED  BY <3>1, <3>2, <3>3 DEF KeysApart
  <2>9. ASSUME NEW p \in Pullers, SkipMessage(p)  PROVE KeysApart'
    BY <2>2, <2>9 DEF SkipMessage
  <2>10. ASSUME NEW p \in Pullers, TakeMessage(p)  PROVE KeysApart'
    <3> DEFINE m == Head(ch)
    <3>1. \A q \in Pullers : q = p
      BY SinglePull DEF SinglePull
    <3>2. /\ pc[p] = "loop" /\ pc'[p] = "store" /\ cur'[p] = m /\ UNCHANGED inFlight
          /\ leasedKeys'[p] = leasedKeys[p] \cup Keys({m})
          /\ Key[m] = NoKey \/ Key[m] \notin leasedKeys[p]
      BY <2>10 DEF TakeMessage, CanDequeue, KeyLeased, Goto, IInv, TypeOK,
         Threads, Holders
    <3> HIDE DEF m
    <3>3. Bound' = inFlight \cup {m} /\ inFlight \subseteq Bound
      BY <3>1, <3>2 DEF Bound, Works
    <3>4. Keys(Bound) \subseteq leasedKeys[p]
      BY <3>2 DEF KeysApart
    <3>5. \A n \in inFlight : Key[n] = Key[m] => Key[m] = NoKey
      BY <3>2, <3>3, <3>4 DEF Keys
    <3>6. Keys(Bound') \subseteq leasedKeys'[p]
      BY <3>2, <3>3, <3>4 DEF Keys
    <3>7. \A k, n \in Bound' : Key[k] = Key[n] /\ Key[k] # NoKey => k = n
      BY <3>3, <3>5 DEF KeysApart
    <3> QED  BY <3>1, <3>6, <3>7 DEF KeysApart
  <2>11. ASSUME NEW p \in Pullers, StoreInFlight(p)  PROVE KeysApart'
    <3>1. \A q \in Pullers : q = p
      BY SinglePull DEF SinglePull
    <3>2. /\ pc[p] = "store" /\ pc'[p] = "loop" /\ UNCHANGED leasedKeys
          /\ inFlight' = inFlight \cup {cur[p]}
      BY <2>11 DEF StoreInFlight, Goto, IInv, TypeOK, Threads, Holders
    <3>3. Bound' \subseteq Bound
      BY <3>1, <3>2 DEF Bound, Works
    <3> QED  BY <2>1, <3>1, <3>2, <3>3
  <2>12. ASSUME NEW p \in Pullers, EndLoop(p)  PROVE KeysApart'
    <3>1. \A q \in Pullers : q = p
      BY SinglePull DEF SinglePull
    <3>2. pc'[p] = "putback" /\ UNCHANGED inFlight
      BY <2>12 DEF EndLoop, Goto, IInv, TypeOK, Threads, Holders
    <3>3. Bound' \subseteq Bound
      BY <3>1, <3>2 DEF Bound, Works
    <3> QED  BY <2>1, <3>1, <3>2, <3>3
  <2>13. ASSUME NEW l \in Listers, ListStart(l) \/ ListDrain(l) \/ ListReturn(l)
         PROVE  KeysApart'
    <3>1. UNCHANGED <<inFlight, cur, leasedKeys>>
      BY <2>13 DEF ListStart, ListDrain, ListReturn
    <3>2. \A p \in Pullers : pc'[p] = pc[p]
      BY <2>13, QueueAssumption DEF ListStart, ListDrain, ListReturn, Goto,
         IInv, TypeOK, Threads, Holders, QueueAssumption
    <3> QED  BY <2>2, <3>1, <3>2
  <2>14. ASSUME NEW q \in Seekers, SeekStep(q)  PROVE KeysApart'
    <3>1. UNCHANGED <<cur, leasedKeys>> /\ inFlight' \subseteq inFlight
      BY <2>14 DEF SeekStep, SeekDrain, SeekClear
    <3>2. \A p \in Pullers : pc'[p] = pc[p]
      BY <2>14, QueueAssumption DEF SeekStep, SeekDrain, SeekClear, Goto,
         IInv, TypeOK, Threads, Holders, QueueAssumption
    <3> QED  BY <2>2, <3>1, <3>2
  <2>15. ASSUME NEW m \in PM, ClientStep(m) \/ LeaseRunsOut(m)  PROVE KeysApart'
    BY <2>2, <2>15
       DEF ClientStep, Acknowledge, LoadForUpdate, WriteDeadline, LeaseRunsOut
  <2>16. CASE UNCHANGED vars
    BY <2>2, <2>16 DEF vars
  <2> QED
    BY <2>3, <2>4, <2>5, <2>6, <2>7, <2>8, <2>9, <2>10, <2>11, <2>12, <2>13,
       <2>14, <2>15, <2>16 DEF Next, PullStep, ListStep, Holders
<1>3. KeysApart => OneLeasePerKey
  BY DEF KeysApart, OneLeasePerKey, Bound, InHand, Works
<1> QED  BY <1>1, <1>2, <1>3, AlwaysPlaced, PTL DEF Spec

\* While Pulls do not overlap, delivery_attempt is at most one more than the
\* number of leases that ran out: a message that is about to be delivered anew
\* has had every one of its leases run out.
THEOREM AttemptsAreCounted == ASSUME SinglePull PROVE Spec => []AttemptsCountLeases
<1>1. Init => Counted
  BY QueueAssumption
     DEF Init, QueueAssumption, Counted, Senders, Holders, Threads
<1>2. ASSUME IInv, Counted, [Next]_vars  PROVE Counted'
  <2> USE <1>2 DEF queueVars, msgVars, localVars, history
  <2>1. ASSUME UNCHANGED <<attempt, expiries>>,
               \A m \in PM : Returning(m)' => Returning(m),
               \A p \in Pullers : pc'[p] = "store" => deadline'[cur'[p]] = "live"
        PROVE  Counted'
    BY <2>1 DEF Counted
  \* Steps of other goroutines than Pulls.
  <2>2. ASSUME UNCHANGED <<attempt, expiries, deadline, cur>>,
               inFlight' \subseteq inFlight,
               \A p \in Pullers : pc'[p] = pc[p],
               \A m \in PM :
                 m \in Range(ch') \/ (\E t \in Threads : m \in Range(todo'[t])) =>
                   m \in Range(ch) \/ (\E t \in Threads : m \in Range(todo[t]))
        PROVE  Counted'
    <3>1. \A m \in PM : Returning(m)' => Returning(m)
      BY <2>2 DEF Returning
    <3>2. \A p \in Pullers : pc'[p] = "store" => deadline'[cur'[p]] = "live"
      BY <2>2 DEF Counted
    <3> QED  BY <2>1, <2>2, <3>1, <3>2
  <2>3. ASSUME NEW t \in Threads, todo[t] # <<>>,
               ch' = ch \/ ch' = Append(ch, Head(todo[t])),
               todo' = [todo EXCEPT ![t] = Tail(@)],
               UNCHANGED <<attempt, expiries, deadline, cur, inFlight, pc>>
        PROVE  Counted'
    <3>1. ch \in Seq(PM) /\ todo \in [Threads -> Seq(PM)] /\ todo[t] \in Seq(PM)
      BY DEF IInv, TypeOK
    <3>2. /\ Range(todo[t]) = Range(todo'[t]) \cup {Head(todo[t])}
          /\ Range(ch') \subseteq Range(ch) \cup {Head(todo[t])}
      BY <2>3, <3>1, QueueSeq
    <3>3. \A u \in Threads : Range(todo'[u]) \subseteq Range(todo[u])
      BY <2>3, <3>1, <3>2
    <3> QED  BY <2>2, <2>3, <3>2, <3>3
  <2>4. ASSUME NEW t \in Threads, ch # <<>>, ch' = Tail(ch),
               todo' = [todo EXCEPT ![t] = Append(@, Head(ch))],
               UNCHANGED <<attempt, expiries, deadline, cur, inFlight, pc>>
        PROVE  Counted'
    <3>1. ch \in Seq(PM) /\ todo \in [Threads -> Seq(PM)] /\ todo[t] \in Seq(PM)
      BY DEF IInv, TypeOK
    <3>2. /\ Range(ch) = Range(ch') \cup {Head(ch)}
          /\ Range(todo'[t]) = Range(todo[t]) \cup {Head(ch)}
      BY <2>4, <3>1, QueueSeq
    <3>3. \A u \in Threads \ {t} : todo'[u] = todo[u]
      BY <2>4, <3>1
    <3> QED  BY <2>2, <2>4, <3>2, <3>3
  <2>5. ASSUME NEW t \in Senders, SendStep(t)  PROVE Counted'
    <3>1. CASE SendNext(t)
      BY <2>3, <3>1 DEF SendNext, Send, Threads
    <3>2. CASE SendRefused(t)
      <4>1. todo' = [todo EXCEPT ![t] = <<>>]
            /\ UNCHANGED <<attempt, expiries, deadline, cur, inFlight, pc, ch>>
        BY <3>2 DEF SendRefused
      <4>2. \A u \in Threads : Range(todo'[u]) \subseteq Range(todo[u])
        BY <4>1, QueueSeq DEF IInv, TypeOK
      <4> QED  BY <2>2, <4>1, <4>2
    <3> QED  BY <2>5, <3>1, <3>2 DEF SendStep
  <2>6. ASSUME NEW t \in Holders, PutBack(t)  PROVE Counted'
    BY <2>3, <2>6 DEF PutBack, Send, Threads
  <2>7. ASSUME NEW l \in Listers, ListStart(l) \/ ListDrain(l) \/ ListReturn(l)
        PROVE  Counted'
    <3>1. \A p \in Pullers : pc'[p] = pc[p]
      BY <2>7, QueueAssumption DEF ListStart, ListDrain, ListReturn, Goto,
         IInv, TypeOK, Threads, Holders, QueueAssumption
    <3>2. CASE ListDrain(l) /\ ch # <<>>
      BY <2>4, <3>2 DEF ListDrain, Threads, Holders
    <3>3. CASE ~(ListDrain(l) /\ ch # <<>>)
      BY <2>2, <2>7, <3>1, <3>3 DEF ListStart, ListDrain, ListReturn
    <3> QED  BY <3>2, <3>3
  <2>8. ASSUME NEW q \in Seekers, SeekStep(q)  PROVE Counted'
    <3>1. /\ UNCHANGED <<attempt, expiries, deadline, cur, todo>>
          /\ inFlight' \subseteq inFlight
          /\ ch' = ch \/ (ch # <<>> /\ ch' = Tail(ch))
      BY <2>8 DEF SeekStep, SeekDrain, SeekClear
    <3>2. Range(ch') \subseteq Range(ch)
      BY <3>1, QueueSeq DEF IInv, TypeOK
    <3>3. \A p \in Pullers : pc'[p] = pc[p]
      BY <2>8, QueueAssumption DEF SeekStep, SeekDrain, SeekClear, Goto,
         IInv, TypeOK, Threads, Holders, QueueAssumption
    <3> QED  BY <2>2, <3>1, <3>2, <3>3
  <2>9. ASSUME NEW m \in PM, Acknowledge(m) \/ LoadForUpdate(m)  PROVE Counted'
    BY <2>2, <2>9 DEF Acknowledge, LoadForUpdate
  <2>10. ASSUME NEW m \in PM, WriteDeadline(m)  PROVE Counted'
    <3>1. /\ deadline' = [deadline EXCEPT ![m] = "live"]
          /\ deadline \in [PM -> {"none", "live", "past"}]
          /\ UNCHANGED <<attempt, expiries, cur, pc, todo, ch, inFlight>>
      BY <2>10 DEF WriteDeadline, IInv, TypeOK
    <3>2. \A n \in PM : deadline'[n] \in {deadline[n], "live"}
      BY <3>1
    <3>3. \A n \in PM : Returning(n)' => Returning(n)
      BY <3>1, <3>2 DEF Returning
    <3>4. \A p \in Pullers : pc'[p] = "store" => deadline'[cur'[p]] = "live"
      BY <3>1, <3>2 DEF Counted, IInv, TypeOK
    <3> QED  BY <2>1, <3>1, <3>3, <3>4
  <2>11. ASSUME NEW m \in PM, LeaseRunsOut(m)  PROVE Counted'
    <3>1. /\ deadline' = [deadline EXCEPT ![m] = "past"] /\ m \in inFlight
          /\ expiries' = [expiries EXCEPT ![m] = @ + 1]
          /\ UNCHANGED <<attempt, cur, pc, todo, ch, inFlight>>
      BY <2>11 DEF LeaseRunsOut
    <3>2. attempt \in [PM -> Nat] /\ expiries \in [PM -> Nat]
          /\ deadline \in [PM -> {"none", "live", "past"}]
      BY DEF IInv, TypeOK
    <3>3. \A p \in Pullers : pc[p] = "store" => cur[p] \in PM \ {m}
      BY <3>1 DEF IInv, TypeOK, Placed, Works
    <3>4. \A p \in Pullers : pc'[p] = "store" => deadline'[cur'[p]] = "live"
      BY <3>1, <3>2, <3>3 DEF Counted
    <3>5. attempt'[m] <= expiries'[m]
      BY <3>1, <3>2 DEF Counted
    <3>6. ASSUME NEW n \in PM, n # m
          PROVE  /\ expiries'[n] = expiries[n] /\ attempt'[n] = attempt[n]
                 /\ Returning(n)' => Returning(n)
      BY <3>1, <3>2, <3>6 DEF Returning
    <3>7. attempt'[m] <= expiries'[m] + 1
      BY <3>1, <3>2, <3>5
    <3> QED  BY <3>4, <3>5, <3>6, <3>7 DEF Counted
  \* Steps of the Pull.
  <2>12. ASSUME NEW p \in Pullers, PullStart(p) \/ PullStep(p)  PROVE Counted'
    <3>1. \A q \in Pullers : q = p
      BY SinglePull DEF SinglePull
    <3>2. CASE PutBack(p)
      BY <2>6, <3>2 DEF Holders
    <3>3. CASE SkipMessage(p)
      BY <2>4, <3>3 DEF SkipMessage, CanDequeue, Threads, Holders
    <3>4. CASE PullStart(p) \/ CollectLeasedKeys(p) \/ EndLoop(p) \/ PullReturn(p)
      <4>1. UNCHANGED <<attempt, expiries, deadline, cur, inFlight, ch, todo>>
        BY <3>4 DEF PullStart, CollectLeasedKeys, EndLoop, PullReturn
      <4>2. pc'[p] \notin {"store", "delete", "requeue"}
        BY <3>4 DEF PullStart, CollectLeasedKeys, EndLoop, PullReturn, Goto,
           IInv, TypeOK, Threads, Holders
      <4>3. \A m \in PM : Returning(m)' => Returning(m)
        BY <3>1, <4>1, <4>2 DEF Returning
      <4> QED  BY <2>1, <3>1, <4>1, <4>2, <4>3
    <3>5. CASE \E m \in PM : FindExpired(p, m)
      <4>1. PICK m \in PM : FindExpired(p, m)
        BY <3>5
      <4>2. /\ UNCHANGED <<attempt, expiries, deadline, inFlight, ch, todo>>
            /\ m \in inFlight /\ deadline[m] = "past"
            /\ cur'[p] = m /\ pc'[p] = "delete"
        BY <4>1 DEF FindExpired, Due, Goto, IInv, TypeOK, Threads, Holders
      <4>3. \A n \in PM : Returning(n)' => Returning(n)
        BY <3>1, <4>2 DEF Returning
      <4> QED  BY <2>1, <3>1, <4>2, <4>3
    <3>6. CASE DeleteExpired(p)
      <4>1. /\ UNCHANGED <<attempt, expiries, cur, ch, todo>>
            /\ pc[p] = "delete" /\ pc'[p] = "requeue"
            /\ inFlight' = inFlight \ {cur[p]}
            /\ deadline' = [deadline EXCEPT ![cur[p]] = "none"]
        BY <3>6 DEF DeleteExpired, Goto, IInv, TypeOK, Threads, Holders
      <4>2. \A n \in PM : Returning(n)' => Returning(n)
        BY <3>1, <4>1 DEF Returning, IInv, TypeOK
      <4> QED  BY <2>1, <3>1, <4>1, <4>2
    <3>7. CASE RequeueExpired(p)
      <4>1. /\ UNCHANGED <<attempt, expiries, deadline, inFlight, todo>>
            /\ pc[p] = "requeue" /\ pc'[p] = "scan"
            /\ ch' = ch \/ ch' = Append(ch, cur[p])
            /\ cur[p] \in PM /\ ch \in Seq(PM)
        BY <3>7 DEF RequeueExpired, Send, Goto, IInv, TypeOK, Threads, Holders
      <4>2. Range(ch') \subseteq Range(ch) \cup {cur[p]}
        <5>1. Range(Append(ch, cur[p])) = Range(ch) \cup {cur[p]}
          BY <4>1, QueueSeq
        <5> QED  BY <4>1, <5>1
      <4>3. \A n \in PM : Returning(n)' => Returning(n)
        BY <3>1, <4>1, <4>2 DEF Returning
      <4> QED  BY <2>1, <3>1, <4>1, <4>3
    <3>8. CASE TakeMessage(p)
      <4>0. ch # <<>> /\ ch \in Seq(PM) /\ Head(ch) \in PM
        BY <3>8, QueueSeq DEF TakeMessage, CanDequeue, IInv, TypeOK
      <4> PICK m \in PM : m = Head(ch)
        BY <4>0
      <4>1. /\ UNCHANGED <<expiries, inFlight, todo>>
            /\ ch' = Tail(ch) /\ pc'[p] = "store" /\ cur'[p] = m
            /\ attempt' = [attempt EXCEPT ![m] = @ + 1]
            /\ deadline' = [deadline EXCEPT ![m] = "live"]
        BY <3>8 DEF TakeMessage, Goto, IInv, TypeOK, Threads, Holders
      <4>2. Range(ch) = Range(ch') \cup {m} /\ m \notin Range(ch')
        BY <4>0, <4>1, QueueSeq, TailInjective DEF IInv, Placed
      <4>3. attempt \in [PM -> Nat] /\ expiries \in [PM -> Nat]
            /\ deadline \in [PM -> {"none", "live", "past"}]
        BY DEF IInv, TypeOK
      <4>4. m \notin inFlight /\ \A t \in Threads : m \notin Range(todo[t])
        BY <4>2 DEF IInv, Placed
      <4>5. ~Returning(m)'
        BY <3>1, <4>1, <4>2, <4>4 DEF Returning
      <4>6. attempt[m] <= expiries[m]
        BY <4>2 DEF Counted, Returning
      <4>7. attempt'[m] <= expiries'[m] + 1
        BY <4>1, <4>2, <4>3, <4>6
      <4>8. ASSUME NEW n \in PM, n # m
            PROVE  attempt'[n] = attempt[n] /\ (Returning(n)' => Returning(n))
        BY <3>1, <4>1, <4>2, <4>3, <4>8 DEF Returning
      <4>9. \A q \in Pullers : pc'[q] = "store" => deadline'[cur'[q]] = "live"
        BY <3>1, <4>1, <4>2, <4>3
      <4> QED  BY <4>1, <4>5, <4>7, <4>8, <4>9 DEF Counted
    <3>9. CASE StoreInFlight(p)
      <4>1. /\ UNCHANGED <<attempt, expiries, deadline, ch, todo>>
            /\ pc[p] = "store" /\ pc'[p] = "loop"
            /\ inFlight' = inFlight \cup {cur[p]}
        BY <3>9 DEF StoreInFlight, Goto, IInv, TypeOK, Threads, Holders
      <4>2. deadline[cur[p]] = "live"
        BY <4>1 DEF Counted
      <4>3. \A n \in PM : Returning(n)' => Returning(n)
        BY <3>1, <4>1, <4>2 DEF Returning
      <4> QED  BY <2>1, <3>1, <4>1, <4>3
    <3> QED  BY <2>12, <3>2, <3>3, <3>4, <3>5, <3>6, <3>7, <3>8, <3>9 DEF PullStep
  <2>13. CASE UNCHANGED vars
    BY <2>2, <2>13 DEF vars
  <2> QED
    BY <2>5, <2>6, <2>7, <2>8, <2>9, <2>10, <2>11, <2>12, <2>13
       DEF Next, ListStep, ClientStep, Holders
<1>3. Counted => AttemptsCountLeases
  BY DEF Counted, AttemptsCountLeases
<1> QED  BY <1>1, <1>2, <1>3, AlwaysPlaced, PTL DEF Spec

-----------------------------------------------------------------------------
(* SubscriptionQueue implements Backlog while at most one goroutine is in  *)
(* Pull: the initial state maps to the initial state, and each step to a   *)
(* step of Backlog or to a stutter.                                        *)

\* What is still to be published is fresh, what was dropped is nowhere, and
\* what a seek replaced is not leased, though it may wait again: the Pull
\* that found it expired before the seek puts it back.
Kept ==
  /\ \A t \in Senders : Range(todo[t]) \cap Gone = {}
  /\ dropped \cap (Range(ch) \cup inFlight) = {}
  /\ \A t \in Holders : dropped \cap Range(todo[t]) = {}
  /\ \A p \in Pullers : Works(p) => cur[p] \notin dropped
  /\ inFlight \cap replaced = {}
  /\ \A p \in Pullers : pc[p] = "store" => cur[p] \notin replaced

RInv == IInv /\ Kept

-----------------------------------------------------------------------------
(* The mapping, message by message.                                        *)

InWork(m) == \E p \in Pullers : Works(p) /\ cur[p] = m
Releases(m) == \E p \in Pullers : pc[p] = "delete" /\ cur[p] = m

MapsTo ==
  \A m : /\ m \in waiting <=> \/ m \in Range(ch) \/ InWork(m)
                              \/ \E t \in Holders : m \in Range(todo[t])
         /\ m \in leased <=> m \in inFlight /\ ~Releases(m)

LEMMA Mapping == MapsTo
<1> SUFFICES ASSUME NEW m
             PROVE  /\ m \in waiting <=> \/ m \in Range(ch) \/ InWork(m)
                                         \/ \E t \in Holders : m \in Range(todo[t])
                    /\ m \in leased <=> m \in inFlight /\ ~Releases(m)
  BY DEF MapsTo
<1>1. m \in releasing <=> Releases(m)
  BY DEF releasing, Condemned, Releases
<1>2. ASSUME NEW t \in Holders
      PROVE  m \in Held(t) <=> \/ m \in Range(todo[t])
                               \/ /\ t \in Pullers /\ pc[t] \in {"requeue", "store"}
                                  /\ cur[t] = m
  BY DEF Held, InHand
<1>3. (\E t \in Holders : m \in Held(t)) <=>
        \/ \E t \in Holders : m \in Range(todo[t])
        \/ \E p \in Pullers : pc[p] \in {"requeue", "store"} /\ cur[p] = m
  BY <1>2 DEF Holders
<1>4. m \in UNION {Held(t) : t \in Holders} <=> \E t \in Holders : m \in Held(t)
  OBVIOUS
<1>5. InWork(m) <=> \/ Releases(m)
                    \/ \E p \in Pullers : pc[p] \in {"requeue", "store"} /\ cur[p] = m
  BY DEF InWork, Releases, Works
<1> QED  BY <1>1, <1>3, <1>4, <1>5 DEF waiting, leased

\* A message is not leased while it waits.
LEMMA Disjoint == ASSUME IInv PROVE waiting \cap leased = {}
<1> SUFFICES ASSUME NEW m, m \in waiting, m \in leased PROVE FALSE
  OBVIOUS
<1>1. m \in inFlight /\ ~Releases(m)
  BY Mapping DEF MapsTo
<1>2. m \notin Range(ch) /\ \A t \in Holders : m \notin Range(todo[t])
  BY <1>1 DEF IInv, Placed, Threads
<1>3. ~InWork(m)
  BY <1>1 DEF IInv, Placed, InWork, Releases
<1> QED  BY <1>2, <1>3, Mapping DEF MapsTo

\* The mapping holds in the next state, too.
LEMMA MappingNext == MapsTo'
BY Mapping, PTL

\* A step that changes nothing of what Backlog sees.
LEMMA Stutters ==
  ASSUME waiting' = waiting, leased' = leased,
         \A m : m \in waiting \cup leased \/
                  /\ m \in dropped' \cup replaced' <=> m \in dropped \cup replaced
                  /\ m \in acked' <=> m \in acked
  PROVE  UNCHANGED Promise!vars
<1>1. lost' = lost
  BY DEF lost
<1>2. acknowledged' = acknowledged
  BY <1>1 DEF acknowledged
<1> QED  BY <1>1, <1>2 DEF Promise!vars

\* A step after which the messages of S are lost.
LEMMA Loses ==
  ASSUME NEW S \in SUBSET PM, S \cap leased = {},
         S \subseteq waiting \/ S \cap (waiting \cup Gone) = {},
         waiting' = waiting \ S, leased' = leased,
         dropped' \cup replaced' = dropped \cup replaced \cup S, acked' = acked
  PROVE  Promise!Next
<1>1. lost' = lost \cup S
  BY DEF lost
<1>2. acknowledged' = acknowledged
  BY <1>1 DEF lost, acknowledged, Gone
<1>3. S \subseteq Promise!Losable
  BY DEF Promise!Losable, lost, acknowledged, Gone
<1>4. Promise!Lose(S)
  BY <1>1, <1>2, <1>3 DEF Promise!Lose
<1> QED  BY <1>3, <1>4 DEF Promise!Next

\* A step that releases R and leases L.
LEMMA Delivers ==
  ASSUME NEW R \in SUBSET leased, NEW L \in SUBSET (waiting \cup R),
         waiting' = (waiting \cup R) \ L, leased' = (leased \ R) \cup L,
         UNCHANGED <<dropped, replaced, acked>>
  PROVE  Promise!Next
<1>1. waiting' \cup leased' = waiting \cup leased
  OBVIOUS
<1>2. lost' = lost
  BY <1>1 DEF lost
<1>3. acknowledged' = acknowledged
  BY <1>1, <1>2 DEF acknowledged
<1>4. Promise!Deliver(R, L)
  BY <1>2, <1>3 DEF Promise!Deliver
<1> QED  BY <1>4 DEF Promise!Next

-----------------------------------------------------------------------------
(* Kept is inductive: one step below per action.                           *)

LEMMA InitKept == ASSUME Init PROVE Kept
BY QueueAssumption
   DEF Init, Kept, Gone, Works, QueueAssumption, Senders, Holders, Threads

\* Steps of other goroutines than Pulls, which lose nothing.
LEMMA NothingNewKept ==
  ASSUME RInv, UNCHANGED <<dropped, cur>>, replaced' \subseteq replaced,
         acked' \subseteq acked \cup inFlight, inFlight' \subseteq inFlight,
         Range(ch') \subseteq Range(ch) \cup UNION {Range(todo[t]) : t \in Threads},
         \A t \in Senders : Range(todo'[t]) \subseteq Range(todo[t]),
         \A t \in Holders : Range(todo'[t]) \subseteq Range(todo[t]) \cup Range(ch),
         \A p \in Pullers : pc'[p] = pc[p]
  PROVE  Kept'
BY DEF RInv, IInv, Placed, Kept, Gone, Works, Threads

LEMMA NextKept ==
  ASSUME SinglePull, RInv, [Next]_vars
  PROVE  Kept'
<1> USE DEF queueVars, msgVars, localVars, history
<1>0. /\ ch \in Seq(PM) /\ todo \in [Threads -> Seq(PM)]
      /\ pc \in [Threads -> {"idle", "scan", "delete", "requeue", "loop", "store",
                             "putback", "drain", "fill", "listed"}]
      /\ cur \in [Pullers -> PM \cup {Nil}]
      /\ \A p, q \in Pullers : p = q
  BY SinglePull DEF RInv, IInv, TypeOK, SinglePull
<1>1. ASSUME NEW t \in Threads, todo[t] # <<>>
      PROVE  /\ Head(todo[t]) \in PM
             /\ Range(todo[t]) = Range(Tail(todo[t])) \cup {Head(todo[t])}
             /\ Range(Append(ch, Head(todo[t]))) = Range(ch) \cup {Head(todo[t])}
  BY <1>0, <1>1, QueueSeq
<1>2. ASSUME ch # <<>>
      PROVE  /\ Head(ch) \in PM /\ Range(ch) = Range(Tail(ch)) \cup {Head(ch)}
             /\ Head(ch) \notin Range(Tail(ch)) /\ Head(ch) \notin inFlight
             /\ \A t \in Threads : Head(ch) \notin Range(todo[t])
  BY <1>0, <1>2, QueueSeq, TailInjective DEF RInv, IInv, Placed
<1>3. ASSUME NEW t \in Senders, SendNext(t)  PROVE Kept'
  <2>1. \A u \in Threads : Range(todo'[u]) \subseteq Range(todo[u])
    BY <1>0, <1>1, <1>3 DEF SendNext, Threads
  <2>2. Range(ch') \subseteq Range(ch) \cup Range(todo[t])
    BY <1>1, <1>3 DEF SendNext, Send, Threads
  <2>3. Range(ch') \cap dropped = {}
    BY <2>2 DEF RInv, Kept, Gone
  <2> QED  BY <1>3, <2>1, <2>3 DEF SendNext, RInv, Kept, Gone, Works, Threads
<1>4. ASSUME NEW t \in Senders, SendRefused(t)  PROVE Kept'
  <2>1. /\ todo' = [todo EXCEPT ![t] = <<>>] /\ dropped' = dropped \cup Range(todo[t])
        /\ UNCHANGED <<ch, inFlight, pc, cur, acked, replaced>>
    BY <1>4 DEF SendRefused
  <2>2. \A u \in Threads \ {t} : todo'[u] = todo[u]
    BY <1>0, <2>1
  <2>3. Range(todo'[t]) = {}
    BY <1>0, <2>1, QueueSeq DEF Threads
  <2>4. t \in Threads /\ t \notin Holders
    BY QueueAssumption DEF QueueAssumption, Senders, Holders, Threads
  <2> QED  BY <2>1, <2>2, <2>3, <2>4 DEF RInv, IInv, Placed, Kept, Gone, Works, Threads
<1>5. ASSUME NEW t \in Holders, PutBack(t)  PROVE Kept'
  <2> DEFINE m == Head(todo[t])
  <2>1. /\ t \in Threads /\ t \notin Senders
        /\ todo' = [todo EXCEPT ![t] = Tail(@)]
        /\ UNCHANGED <<inFlight, pc, cur, acked, replaced>>
        /\ \/ ch' = Append(ch, m) /\ dropped' = dropped
           \/ ch' = ch /\ dropped' = dropped \cup {m}
    BY <1>5, QueueAssumption
       DEF PutBack, Send, QueueAssumption, Senders, Holders, Threads
  <2>2. m \in PM /\ Range(todo[t]) = Range(todo'[t]) \cup {m} /\ m \notin Range(todo'[t])
    BY <1>0, <1>1, <1>5, <2>1, TailInjective DEF PutBack, RInv, IInv, Placed
  <2>3. /\ m \notin Range(ch) /\ m \notin inFlight /\ m \notin dropped
        /\ \A u \in Threads \ {t} : m \notin Range(todo[u])
        /\ \A p \in Pullers : Works(p) => cur[p] # m
    BY <2>1, <2>2 DEF RInv, IInv, Placed, Kept
  <2>4. Range(Append(ch, m)) = Range(ch) \cup {m}
    BY <1>1, <1>5 DEF PutBack, Threads
  <2>5. \A u \in Threads \ {t} : todo'[u] = todo[u]
    BY <1>0, <2>1
  <2> HIDE DEF m
  <2>6. Range(ch') \subseteq Range(ch) \cup {m}
    BY <2>1, <2>4
  <2>7. CASE ch' = Append(ch, m) /\ dropped' = dropped
    BY <2>1, <2>2, <2>3, <2>5, <2>6, <2>7 DEF RInv, Kept, Gone, Works, Threads
  <2>8. CASE ch' = ch /\ dropped' = dropped \cup {m}
    BY <2>1, <2>2, <2>3, <2>5, <2>8 DEF RInv, Kept, Gone, Works, Threads
  <2> QED  BY <2>1, <2>7, <2>8
<1>6. ASSUME NEW p \in Pullers, NEW m \in PM, FindExpired(p, m)  PROVE Kept'
  <2>1. /\ m \in inFlight /\ cur'[p] = m /\ pc'[p] = "delete"
        /\ UNCHANGED <<ch, inFlight, todo, dropped, replaced, acked>>
    BY <1>0, <1>6 DEF FindExpired, Due, Goto, Threads, Holders
  <2> QED  BY <1>0, <2>1 DEF RInv, Kept, Gone, Works
<1>7. ASSUME NEW p \in Pullers, DeleteExpired(p)  PROVE Kept'
  <2>1. /\ pc[p] = "delete" /\ pc'[p] = "requeue" /\ inFlight' \subseteq inFlight
        /\ UNCHANGED <<ch, cur, todo, dropped, replaced, acked>>
    BY <1>0, <1>7 DEF DeleteExpired, Goto, Threads, Holders
  <2> QED  BY <1>0, <2>1 DEF RInv, Kept, Gone, Works
<1>8. ASSUME NEW p \in Pullers, RequeueExpired(p)  PROVE Kept'
  <2>1. /\ pc[p] = "requeue" /\ pc'[p] = "scan" /\ cur[p] \in PM
        /\ UNCHANGED <<inFlight, todo, replaced, acked>>
        /\ \/ ch' = Append(ch, cur[p]) /\ dropped' = dropped
           \/ ch' = ch /\ dropped' = dropped \cup {cur[p]}
    BY <1>0, <1>8 DEF RequeueExpired, Send, Goto, Threads, Holders, RInv, IInv, TypeOK
  <2>2. Range(Append(ch, cur[p])) = Range(ch) \cup {cur[p]}
    BY <1>0, <2>1, QueueSeq
  <2>3. /\ cur[p] \notin Range(ch) \cup inFlight \cup dropped
        /\ \A t \in Threads : cur[p] \notin Range(todo[t])
    BY <2>1 DEF RInv, IInv, Placed, Kept, Works
  <2>4. Range(ch') \subseteq Range(ch) \cup {cur[p]}
    BY <2>1, <2>2
  <2>5. \A q \in Pullers : ~Works(q)' /\ pc'[q] # "store"
    BY <1>0, <2>1 DEF Works
  <2>6. CASE ch' = Append(ch, cur[p]) /\ dropped' = dropped
    BY <2>1, <2>3, <2>4, <2>5, <2>6 DEF RInv, Kept, Gone, Threads
  <2>7. CASE ch' = ch /\ dropped' = dropped \cup {cur[p]}
    BY <2>1, <2>3, <2>5, <2>7 DEF RInv, Kept, Gone, Threads
  <2> QED  BY <2>1, <2>6, <2>7
<1>9. ASSUME NEW p \in Pullers,
             PullStart(p) \/ CollectLeasedKeys(p) \/ EndLoop(p) \/ PullReturn(p)
      PROVE  Kept'
  <2>1. UNCHANGED <<ch, inFlight, todo, cur, dropped, replaced, acked>>
    BY <1>9 DEF PullStart, CollectLeasedKeys, EndLoop, PullReturn
  <2>2. pc'[p] \notin {"delete", "requeue", "store"}
    BY <1>0, <1>9 DEF PullStart, CollectLeasedKeys, EndLoop, PullReturn, Goto,
       Threads, Holders
  <2> QED  BY <1>0, <2>1, <2>2 DEF RInv, Kept, Gone, Works
<1>10. ASSUME NEW p \in Pullers, SkipMessage(p)  PROVE Kept'
  <2>1. /\ ch # <<>> /\ ch' = Tail(ch) /\ todo' = [todo EXCEPT ![p] = Append(@, Head(ch))]
        /\ UNCHANGED <<inFlight, pc, cur, dropped, replaced, acked>>
    BY <1>10 DEF SkipMessage, CanDequeue
  <2>2. p \in Threads /\ p \notin Senders
    BY QueueAssumption DEF QueueAssumption, Senders, Holders, Threads
  <2>3. \A t \in Threads \ {p} : todo'[t] = todo[t]
    BY <1>0, <2>1
  <2>4. Range(todo'[p]) = Range(todo[p]) \cup {Head(ch)}
    BY <1>0, <1>2, <2>1, <2>2, QueueSeq
  <2>5. Range(ch') \subseteq Range(ch) /\ Head(ch) \in Range(ch)
    BY <1>2, <2>1
  <2> QED
    BY <2>1, <2>2, <2>3, <2>4, <2>5 DEF RInv, Kept, Gone, Works, Threads
<1>11. ASSUME NEW p \in Pullers, TakeMessage(p)  PROVE Kept'
  <2>1. /\ ch # <<>> /\ ch' = Tail(ch) /\ cur'[p] = Head(ch) /\ pc'[p] = "store"
        /\ replaced' = replaced \ {Head(ch)}
        /\ UNCHANGED <<inFlight, todo, dropped, acked>>
    BY <1>0, <1>11 DEF TakeMessage, CanDequeue, Goto, Threads, Holders
  <2>2. Range(ch') \subseteq Range(ch) /\ Head(ch) \in Range(ch)
    BY <1>2, <2>1
  <2> QED  BY <1>0, <2>1, <2>2 DEF RInv, Kept, Gone, Works
<1>12. ASSUME NEW p \in Pullers, StoreInFlight(p)  PROVE Kept'
  <2>1. /\ pc[p] = "store" /\ pc'[p] = "loop" /\ inFlight' = inFlight \cup {cur[p]}
        /\ UNCHANGED <<ch, todo, dropped, replaced, acked>>
    BY <1>0, <1>12 DEF StoreInFlight, Goto, Threads, Holders
  <2> QED  BY <1>0, <2>1 DEF RInv, Kept, Gone, Works
<1>13. ASSUME NEW l \in Listers, ListStart(l) \/ ListDrain(l) \/ ListReturn(l)
       PROVE  Kept'
  <2>1. UNCHANGED <<inFlight, cur, dropped, replaced, acked>>
    BY <1>13 DEF ListStart, ListDrain, ListReturn
  <2>2. \A p \in Pullers : pc'[p] = pc[p]
    BY <1>0, <1>13, QueueAssumption DEF ListStart, ListDrain, ListReturn, Goto,
       Threads, Holders, QueueAssumption
  <2>3. CASE ListDrain(l) /\ ch # <<>>
    <3>1. ch' = Tail(ch) /\ todo' = [todo EXCEPT ![l] = Append(@, Head(ch))]
      BY <2>3 DEF ListDrain
    <3>2. l \in Threads /\ l \notin Senders
      BY QueueAssumption DEF QueueAssumption, Senders, Holders, Threads
    <3>3. \A t \in Threads \ {l} : todo'[t] = todo[t]
      BY <1>0, <3>1
    <3>4. Range(todo'[l]) = Range(todo[l]) \cup {Head(ch)}
      BY <1>0, <1>2, <2>3, <3>1, <3>2, QueueSeq
    <3>5. Range(ch') \subseteq Range(ch) /\ Head(ch) \in Range(ch)
      BY <1>2, <2>3, <3>1
    <3> QED
      BY <2>1, <2>2, <3>2, <3>3, <3>4, <3>5, NothingNewKept DEF Threads
  <2>4. CASE ~(ListDrain(l) /\ ch # <<>>)
    <3>1. UNCHANGED <<ch, todo>>
      BY <1>13, <2>4 DEF ListStart, ListDrain, ListReturn
    <3> QED  BY <2>1, <2>2, <3>1, NothingNewKept
  <2> QED  BY <2>3, <2>4
<1>14. ASSUME NEW q \in Seekers, SeekStep(q)  PROVE Kept'
  <2>1. UNCHANGED <<todo, cur, dropped, acked>>
    BY <1>14 DEF SeekStep, SeekDrain, SeekClear
  <2>2. \A p \in Pullers : pc'[p] = pc[p]
    BY <1>0, <1>14, QueueAssumption DEF SeekStep, SeekDrain, SeekClear, Goto,
       Threads, Holders, QueueAssumption
  <2>3. CASE SeekDrain(q)
    <3>1. ch # <<>> /\ ch' = Tail(ch) /\ replaced' = replaced \cup {Head(ch)}
          /\ UNCHANGED inFlight
      BY <2>3 DEF SeekDrain
    <3>2. \A p \in Pullers : Works(p) => cur[p] # Head(ch)
      BY <1>2, <3>1 DEF RInv, IInv, Placed
    <3> QED
      BY <1>2, <2>1, <2>2, <3>1, <3>2 DEF RInv, Kept, Gone, Works, Threads
  <2>4. CASE SeekClear(q)
    <3>1. inFlight' = {} /\ replaced' = replaced \cup inFlight /\ UNCHANGED ch
      BY <2>4 DEF SeekClear
    <3> QED
      BY <2>1, <2>2, <3>1 DEF RInv, IInv, Placed, Kept, Gone, Works, Threads
  <2> QED  BY <1>14, <2>3, <2>4 DEF SeekStep
<1>15. ASSUME NEW m \in PM, ClientStep(m) \/ LeaseRunsOut(m)  PROVE Kept'
  BY <1>15, NothingNewKept
     DEF ClientStep, Acknowledge, LoadForUpdate, WriteDeadline, LeaseRunsOut
<1>16. CASE UNCHANGED vars
  BY <1>16, NothingNewKept DEF vars
<1> QED
  BY <1>3, <1>4, <1>5, <1>6, <1>7, <1>8, <1>9, <1>10, <1>11, <1>12, <1>13, <1>14,
     <1>15, <1>16 DEF Next, SendStep, PullStep, ListStep, Holders

-----------------------------------------------------------------------------
(* Each step maps to one of Backlog, or to a stutter.                      *)

\* Where the messages that wait and those that are leased stay the same ones.
LEMMA Moves ==
  ASSUME \A m : (m \in Range(ch') \/ InWork(m)' \/ \E t \in Holders : m \in Range(todo'[t]))
            <=> (m \in Range(ch) \/ InWork(m) \/ \E t \in Holders : m \in Range(todo[t])),
         \A m : m \in inFlight' /\ ~Releases(m)' <=> m \in inFlight /\ ~Releases(m)
  PROVE  waiting' = waiting /\ leased' = leased
BY Mapping, MappingNext DEF MapsTo

LEMMA NextRefines ==
  ASSUME SinglePull, RInv, [Next]_vars
  PROVE  [Promise!Next]_(Promise!vars)
<1> USE DEF queueVars, msgVars, localVars, history
<1> DEFINE Goal == [Promise!Next]_(Promise!vars)
<1>0. /\ ch \in Seq(PM) /\ todo \in [Threads -> Seq(PM)]
      /\ pc \in [Threads -> {"idle", "scan", "delete", "requeue", "loop", "store",
                             "putback", "drain", "fill", "listed"}]
      /\ cur \in [Pullers -> PM \cup {Nil}]
      /\ \A p, q \in Pullers : p = q
  BY SinglePull DEF RInv, IInv, TypeOK, SinglePull
<1>1. ASSUME NEW t \in Threads, todo[t] # <<>>
      PROVE  /\ Head(todo[t]) \in PM
             /\ Range(todo[t]) = Range(Tail(todo[t])) \cup {Head(todo[t])}
             /\ Head(todo[t]) \notin Range(Tail(todo[t]))
             /\ Range(Append(ch, Head(todo[t]))) = Range(ch) \cup {Head(todo[t])}
  BY <1>0, <1>1, QueueSeq, TailInjective DEF RInv, IInv, Placed
<1>2. ASSUME ch # <<>>
      PROVE  /\ Head(ch) \in PM /\ Range(ch) = Range(Tail(ch)) \cup {Head(ch)}
             /\ Head(ch) \notin Range(Tail(ch)) /\ Head(ch) \notin inFlight
             /\ \A t \in Threads : Head(ch) \notin Range(todo[t])
             /\ ~InWork(Head(ch))
  BY <1>0, <1>2, QueueSeq, TailInjective DEF RInv, IInv, Placed, InWork
\* What moves nothing, or from one place where it waits to another.
<1>3. ASSUME UNCHANGED <<ch, inFlight, todo, cur, dropped, acked, replaced>>,
             \A p \in Pullers : \/ pc'[p] = pc[p]
                                \/ /\ ~Works(p) /\ ~Works(p)'
      PROVE  Goal
  <2>1. \A m : (InWork(m)' <=> InWork(m)) /\ (Releases(m)' <=> Releases(m))
    BY <1>3 DEF InWork, Releases, Works
  <2> QED  BY <1>3, <2>1, Moves, Stutters
<1>4. ASSUME NEW t \in Holders, ch # <<>>, ch' = Tail(ch),
             todo' = [todo EXCEPT ![t] = Append(@, Head(ch))],
             UNCHANGED <<inFlight, cur, pc, dropped, acked, replaced>>
      PROVE  Goal
  <2>1. Range(todo'[t]) = Range(todo[t]) \cup {Head(ch)}
    BY <1>0, <1>2, <1>4, QueueSeq DEF Threads
  <2>2. \A u \in Holders \ {t} : todo'[u] = todo[u]
    BY <1>0, <1>4 DEF Threads
  <2>3. \A m : (InWork(m)' <=> InWork(m)) /\ (Releases(m)' <=> Releases(m))
    BY <1>4 DEF InWork, Releases, Works
  <2> QED  BY <1>2, <1>4, <2>1, <2>2, <2>3, Moves, Stutters
<1>5. ASSUME NEW t \in Senders, SendNext(t)  PROVE Goal
  <2> PICK m \in PM : m = Head(todo[t])
    BY <1>1, <1>5 DEF SendNext, Threads
  <2>1. /\ todo' = [todo EXCEPT ![t] = Tail(@)] /\ ch' = Append(ch, m)
        /\ UNCHANGED <<inFlight, cur, pc, dropped, acked, replaced>>
    BY <1>5 DEF SendNext, Send
  <2>2. Range(ch') = Range(ch) \cup {m} /\ m \in Range(todo[t])
    BY <1>1, <1>5, <2>1 DEF SendNext, Threads
  <2>3. t \notin Holders
    BY QueueAssumption DEF QueueAssumption, Senders, Holders
  <2>4. \A u \in Holders : todo'[u] = todo[u]
    BY <1>0, <2>1, <2>3 DEF Threads
  <2>5. \A n : (InWork(n)' <=> InWork(n)) /\ (Releases(n)' <=> Releases(n))
    BY <2>1 DEF InWork, Releases, Works
  <2>6. waiting' = waiting \cup {m} /\ leased' = leased
    BY <2>1, <2>2, <2>4, <2>5, Mapping, MappingNext DEF MapsTo
  <2>7. m \notin Gone /\ m \notin Range(ch) /\ m \notin inFlight /\ ~InWork(m)
        /\ \A u \in Holders : m \notin Range(todo[u])
    BY <2>2, <2>3 DEF RInv, IInv, Placed, Kept, InWork, Threads
  <2>8. m \notin waiting \cup leased
    BY <2>7, Mapping DEF MapsTo
  <2>9. lost' = lost
    BY <2>1, <2>6, <2>7 DEF lost, Gone
  <2>10. acknowledged' = acknowledged
    BY <2>1, <2>6, <2>7, <2>9 DEF acknowledged, Gone
  <2>11. Promise!Publish(m)
    BY <2>6, <2>7, <2>8, <2>9, <2>10 DEF Promise!Publish, lost, acknowledged, Gone
  <2> QED  BY <2>11 DEF Promise!Next
<1>6. ASSUME NEW t \in Senders, SendRefused(t)  PROVE Goal
  <2> DEFINE S == Range(todo[t])
  <2>1. /\ todo' = [todo EXCEPT ![t] = <<>>] /\ dropped' = dropped \cup S
        /\ UNCHANGED <<ch, inFlight, cur, pc, acked, replaced>>
    BY <1>6 DEF SendRefused
  <2>2. t \notin Holders
    BY QueueAssumption DEF QueueAssumption, Senders, Holders
  <2>3. \A u \in Holders : todo'[u] = todo[u]
    BY <1>0, <2>1, <2>2 DEF Threads
  <2>4. waiting' = waiting /\ leased' = leased
    <3>1. \A n : (InWork(n)' <=> InWork(n)) /\ (Releases(n)' <=> Releases(n))
      BY <2>1 DEF InWork, Releases, Works
    <3> QED  BY <2>1, <2>3, <3>1, Moves
  <2>5. ASSUME NEW m \in S
        PROVE  m \notin Gone /\ m \notin waiting /\ m \notin leased
    <3>1. m \notin Gone /\ m \notin Range(ch) /\ m \notin inFlight /\ ~InWork(m)
          /\ \A u \in Holders : m \notin Range(todo[u])
      BY <2>2 DEF RInv, IInv, Placed, Kept, InWork, Threads
    <3> QED  BY <3>1, Mapping DEF MapsTo
  <2>6. S \in SUBSET PM
    BY <1>0, QueueSeq DEF Threads
  <2> HIDE DEF S
  <2>7. S \cap leased = {} /\ S \cap (waiting \cup Gone) = {} /\ waiting' = waiting \ S
    BY <2>4, <2>5
  <2>8. dropped' \cup replaced' = dropped \cup replaced \cup S /\ acked' = acked
    BY <2>1
  <2>9. Promise!Next
    BY <2>4, <2>6, <2>7, <2>8, Loses
  <2> QED  BY <2>9
<1>7. ASSUME NEW t \in Holders, PutBack(t)  PROVE Goal
  <2> PICK m \in PM : m = Head(todo[t])
    BY <1>1, <1>7 DEF PutBack, Threads
  <2>1. /\ todo' = [todo EXCEPT ![t] = Tail(@)] /\ todo[t] # <<>>
        /\ UNCHANGED <<inFlight, cur, pc, acked, replaced>>
        /\ \/ ch' = Append(ch, m) /\ dropped' = dropped
           \/ ch' = ch /\ dropped' = dropped \cup {m}
    BY <1>7 DEF PutBack, Send
  <2>2. /\ Range(todo[t]) = Range(todo'[t]) \cup {m} /\ m \notin Range(todo'[t])
        /\ Range(Append(ch, m)) = Range(ch) \cup {m}
    BY <1>0, <1>1, <2>1 DEF Threads
  <2>3. \A u \in Holders \ {t} : todo'[u] = todo[u]
    BY <1>0, <2>1 DEF Threads
  <2>4. \A n : (InWork(n)' <=> InWork(n)) /\ (Releases(n)' <=> Releases(n))
    BY <2>1 DEF InWork, Releases, Works
  <2>5. CASE ch' = Append(ch, m) /\ dropped' = dropped
    <3>1. Range(ch') = Range(ch) \cup {m}
      BY <2>2, <2>5
    <3> QED  BY <2>1, <2>2, <2>3, <2>4, <2>5, <3>1, Moves, Stutters
  <2>6. CASE ch' = ch /\ dropped' = dropped \cup {m}
    <3>1. m \notin Range(ch) /\ m \notin inFlight /\ ~InWork(m)
          /\ \A u \in Holders \ {t} : m \notin Range(todo[u])
      BY <2>2 DEF RInv, IInv, Placed, InWork, Threads
    <3>2. waiting' = waiting \ {m} /\ leased' = leased
      BY <2>1, <2>2, <2>3, <2>4, <2>6, <3>1, Mapping, MappingNext DEF MapsTo
    <3>3. m \in waiting /\ m \notin leased
      BY <2>2, <3>1, Mapping DEF MapsTo
    <3>4. dropped' \cup replaced' = dropped \cup replaced \cup {m} /\ acked' = acked
      BY <2>1, <2>6
    <3>5. {m} \in SUBSET PM /\ {m} \cap leased = {} /\ {m} \subseteq waiting
      BY <3>3
    <3>6. Promise!Next
      BY <3>2, <3>4, <3>5, Loses
    <3> QED  BY <3>6
  <2> QED  BY <2>1, <2>5, <2>6
<1>8. ASSUME NEW p \in Pullers, FindExpired(p, cur'[p])  PROVE Goal
  <2> PICK m \in PM : m = cur'[p] /\ FindExpired(p, m)
    BY <1>8 DEF FindExpired, Due, RInv, IInv, TypeOK
  <2>1. /\ m \in inFlight /\ pc[p] = "scan" /\ pc'[p] = "delete" /\ cur'[p] = m
        /\ UNCHANGED <<ch, inFlight, todo, dropped, replaced, acked>>
    BY <1>0 DEF FindExpired, Due, Goto, Threads, Holders
  <2>2. \A n : /\ ~InWork(n) /\ ~Releases(n)
               /\ (InWork(n)' <=> n = m) /\ (Releases(n)' <=> n = m)
    BY <1>0, <2>1 DEF InWork, Releases, Works
  <2>3. waiting' = waiting \cup {m} /\ leased' = leased \ {m} /\ m \in leased
    BY <2>1, <2>2, Mapping, MappingNext DEF MapsTo
  <2>4. /\ {m} \in SUBSET leased /\ {} \in SUBSET (waiting \cup {m})
        /\ waiting' = (waiting \cup {m}) \ {} /\ leased' = (leased \ {m}) \cup {}
    BY <2>3
  <2>5. Promise!Next
    BY <2>1, <2>4, Delivers
  <2> QED  BY <2>5
<1>9. ASSUME NEW p \in Pullers, DeleteExpired(p)  PROVE Goal
  <2>1. /\ pc[p] = "delete" /\ pc'[p] = "requeue" /\ inFlight' = inFlight \ {cur[p]}
        /\ UNCHANGED <<ch, cur, todo, dropped, replaced, acked>>
    BY <1>0, <1>9 DEF DeleteExpired, Goto, Threads, Holders
  <2>2. \A n : /\ InWork(n)' <=> InWork(n)
               /\ Releases(n) <=> n = cur[p]
               /\ ~Releases(n)'
    BY <1>0, <2>1 DEF InWork, Releases, Works
  <2> QED  BY <2>1, <2>2, Moves, Stutters
<1>10. ASSUME NEW p \in Pullers, RequeueExpired(p)  PROVE Goal
  <2> PICK m \in PM : m = cur[p]
    BY <1>10 DEF RequeueExpired, RInv, IInv, TypeOK
  <2>1. /\ pc[p] = "requeue" /\ pc'[p] = "scan"
        /\ UNCHANGED <<inFlight, todo, replaced, acked>>
        /\ \/ ch' = Append(ch, m) /\ dropped' = dropped
           \/ ch' = ch /\ dropped' = dropped \cup {m}
    BY <1>0, <1>10 DEF RequeueExpired, Send, Goto, Threads, Holders
  <2>2. Range(Append(ch, m)) = Range(ch) \cup {m}
    BY <1>0, QueueSeq
  <2>3. \A n : /\ InWork(n) <=> n = m
               /\ ~InWork(n)' /\ ~Releases(n) /\ ~Releases(n)'
    BY <1>0, <2>1 DEF InWork, Releases, Works
  <2>4. /\ m \notin Range(ch) /\ m \notin inFlight
        /\ \A t \in Holders : m \notin Range(todo[t])
    BY <2>1 DEF RInv, IInv, Placed, Works, Threads
  <2>5. CASE ch' = Append(ch, m) /\ dropped' = dropped
    <3>1. Range(ch') = Range(ch) \cup {m}
      BY <2>2, <2>5
    <3> QED  BY <2>1, <2>3, <2>5, <3>1, Moves, Stutters
  <2>6. CASE ch' = ch /\ dropped' = dropped \cup {m}
    <3>1. waiting' = waiting \ {m} /\ leased' = leased /\ m \in waiting /\ m \notin leased
      BY <2>1, <2>3, <2>4, <2>6, Mapping, MappingNext DEF MapsTo
    <3>2. dropped' \cup replaced' = dropped \cup replaced \cup {m} /\ acked' = acked
      BY <2>1, <2>6
    <3>3. {m} \in SUBSET PM /\ {m} \cap leased = {} /\ {m} \subseteq waiting
      BY <3>1
    <3>4. Promise!Next
      BY <3>1, <3>2, <3>3, Loses
    <3> QED  BY <3>4
  <2> QED  BY <2>1, <2>5, <2>6
<1>11. ASSUME NEW p \in Pullers,
              PullStart(p) \/ CollectLeasedKeys(p) \/ EndLoop(p) \/ PullReturn(p)
       PROVE  Goal
  <2>1. UNCHANGED <<ch, inFlight, todo, cur, dropped, replaced, acked>>
    BY <1>11 DEF PullStart, CollectLeasedKeys, EndLoop, PullReturn
  <2>2. {pc[p], pc'[p]} \cap {"delete", "requeue", "store"} = {}
    BY <1>0, <1>11 DEF PullStart, CollectLeasedKeys, EndLoop, PullReturn, Goto,
       Threads, Holders
  <2> QED  BY <1>0, <1>3, <2>1, <2>2 DEF Works
<1>12. ASSUME NEW p \in Pullers, TakeMessage(p)  PROVE Goal
  <2> PICK m \in PM : m = Head(ch)
    BY <1>2, <1>12 DEF TakeMessage, CanDequeue
  <2>1. /\ ch # <<>> /\ ch' = Tail(ch) /\ cur'[p] = m
        /\ pc[p] = "loop" /\ pc'[p] = "store" /\ replaced' = replaced \ {m}
        /\ UNCHANGED <<inFlight, todo, dropped, acked>>
    BY <1>0, <1>12 DEF TakeMessage, CanDequeue, Goto, Threads, Holders
  <2>2. Range(ch) = Range(ch') \cup {m}
    BY <1>2, <2>1
  <2>3. \A n : /\ ~InWork(n) /\ ~Releases(n) /\ ~Releases(n)'
               /\ InWork(n)' <=> n = m
    BY <1>0, <2>1 DEF InWork, Releases, Works
  <2>4. waiting' = waiting /\ leased' = leased
    BY <2>1, <2>2, <2>3, Moves
  <2>5. m \in waiting
    BY <2>2, Mapping DEF MapsTo
  <2>6. UNCHANGED Promise!vars
    BY <2>1, <2>4, <2>5, Stutters
  <2> QED  BY <2>6
<1>13. ASSUME NEW p \in Pullers, StoreInFlight(p)  PROVE Goal
  <2> PICK m \in PM : m = cur[p]
    BY <1>13 DEF StoreInFlight, RInv, IInv, TypeOK
  <2>1. /\ pc[p] = "store" /\ pc'[p] = "loop" /\ inFlight' = inFlight \cup {m}
        /\ UNCHANGED <<ch, todo, dropped, replaced, acked>>
    BY <1>0, <1>13 DEF StoreInFlight, Goto, Threads, Holders
  <2>2. \A n : /\ InWork(n) <=> n = m
               /\ ~InWork(n)' /\ ~Releases(n) /\ ~Releases(n)'
    BY <1>0, <2>1 DEF InWork, Releases, Works
  <2>3. m \notin Range(ch) /\ \A t \in Holders : m \notin Range(todo[t])
    BY <2>1 DEF RInv, IInv, Placed, Works, Threads
  <2>4. waiting' = waiting \ {m} /\ leased' = leased \cup {m} /\ m \in waiting
    BY <2>1, <2>2, <2>3, Mapping, MappingNext DEF MapsTo
  <2>5. /\ {} \in SUBSET leased /\ {m} \in SUBSET (waiting \cup {})
        /\ waiting' = (waiting \cup {}) \ {m} /\ leased' = (leased \ {}) \cup {m}
    BY <2>4
  <2>6. Promise!Next
    BY <2>1, <2>5, Delivers
  <2> QED  BY <2>6
<1>14. ASSUME NEW l \in Listers, ListStart(l) \/ ListDrain(l) \/ ListReturn(l)
       PROVE  Goal
  <2>1. UNCHANGED <<inFlight, cur, dropped, replaced, acked>>
    BY <1>14 DEF ListStart, ListDrain, ListReturn
  <2>2. \A p \in Pullers : pc'[p] = pc[p]
    BY <1>0, <1>14, QueueAssumption DEF ListStart, ListDrain, ListReturn, Goto,
       Threads, Holders, QueueAssumption
  <2>3. CASE ListDrain(l) /\ ch # <<>>
    BY <1>4, <2>3 DEF ListDrain, Holders
  <2>4. CASE ~(ListDrain(l) /\ ch # <<>>)
    BY <1>3, <1>14, <2>1, <2>2, <2>4 DEF ListStart, ListDrain, ListReturn
  <2> QED  BY <2>3, <2>4
<1>15. ASSUME NEW q \in Seekers, SeekDrain(q)  PROVE Goal
  <2> PICK m \in PM : m = Head(ch)
    BY <1>2, <1>15 DEF SeekDrain
  <2>1. /\ ch # <<>> /\ ch' = Tail(ch) /\ replaced' = replaced \cup {m}
        /\ UNCHANGED <<inFlight, pc, todo, cur, dropped, acked>>
    BY <1>15 DEF SeekDrain
  <2>2. /\ Range(ch) = Range(ch') \cup {m} /\ m \notin Range(ch')
        /\ m \notin inFlight /\ ~InWork(m) /\ \A t \in Holders : m \notin Range(todo[t])
    BY <1>2, <2>1 DEF Threads
  <2>3. \A n : (InWork(n)' <=> InWork(n)) /\ (Releases(n)' <=> Releases(n))
    BY <2>1 DEF InWork, Releases, Works
  <2>4. waiting' = waiting \ {m} /\ leased' = leased /\ m \in waiting /\ m \notin leased
    BY <2>1, <2>2, <2>3, Mapping, MappingNext DEF MapsTo
  <2>5. dropped' \cup replaced' = dropped \cup replaced \cup {m} /\ acked' = acked
    BY <2>1
  <2>6. {m} \in SUBSET PM /\ {m} \cap leased = {} /\ {m} \subseteq waiting
    BY <2>4
  <2>7. Promise!Next
    BY <2>4, <2>5, <2>6, Loses
  <2> QED  BY <2>7
<1>16. ASSUME NEW q \in Seekers, SeekClear(q)  PROVE Goal
  <2>1. /\ inFlight' = {} /\ replaced' = replaced \cup inFlight
        /\ UNCHANGED <<ch, todo, cur, dropped, acked>>
    BY <1>16 DEF SeekClear
  <2>2. \A p \in Pullers : pc'[p] = pc[p]
    BY <1>0, <1>16, QueueAssumption DEF SeekClear, Goto, Threads, Holders,
       QueueAssumption
  <2>3. \A n : (InWork(n)' <=> InWork(n)) /\ (Releases(n)' <=> Releases(n))
    BY <2>1, <2>2 DEF InWork, Releases, Works
  <2>4. waiting' = waiting /\ leased' = {}
    BY <2>1, <2>3, Mapping, MappingNext DEF MapsTo
  <2>5. inFlight \subseteq waiting \cup leased /\ leased \subseteq inFlight
    BY Mapping DEF MapsTo, InWork, Releases, Works
  <2>6. waiting \cap leased = {}
    BY Disjoint DEF RInv
  <2>7. lost' = lost \cup leased
    BY <2>1, <2>4, <2>5, <2>6 DEF lost
  <2>8. acknowledged' = acknowledged
    BY <2>1, <2>4, <2>7 DEF acknowledged
  <2>9. Promise!Discard({})
    BY <2>4, <2>7, <2>8 DEF Promise!Discard
  <2>10. {} \in SUBSET Promise!Losable
    OBVIOUS
  <2> QED  BY <2>9, <2>10 DEF Promise!Next
<1>17. ASSUME NEW m \in PM, Acknowledge(m)  PROVE Goal
  <2>1. /\ m \in inFlight /\ inFlight' = inFlight \ {m} /\ acked' = acked \cup {m}
        /\ UNCHANGED <<ch, todo, pc, cur, dropped, replaced>>
    BY <1>17 DEF Acknowledge
  <2>2. \A n : (InWork(n)' <=> InWork(n)) /\ (Releases(n)' <=> Releases(n))
    BY <2>1 DEF InWork, Releases, Works
  <2>3. CASE Releases(m)
    <3>1. m \in waiting
      BY <2>3, Mapping DEF MapsTo, InWork, Releases, Works
    <3>2. waiting' = waiting /\ leased' = leased
      BY <2>1, <2>2, <2>3, Moves
    <3>3. UNCHANGED Promise!vars
      BY <2>1, <3>1, <3>2, Stutters
    <3> QED  BY <3>3
  <2>4. CASE ~Releases(m)
    <3>1. m \in leased /\ waiting' = waiting /\ leased' = leased \ {m}
      BY <2>1, <2>2, <2>4, Mapping, MappingNext DEF MapsTo
    <3>2. m \notin waiting
      BY <3>1, Disjoint DEF RInv
    <3>3. m \notin dropped /\ m \notin replaced
      BY <2>1 DEF RInv, Kept
    <3>4. lost' = lost
      BY <2>1, <3>1, <3>3 DEF lost
    <3>5. acknowledged' = acknowledged \cup {m}
      BY <2>1, <3>1, <3>2, <3>3, <3>4 DEF acknowledged, lost
    <3>6. Promise!Acknowledge(m)
      BY <3>1, <3>4, <3>5 DEF Promise!Acknowledge
    <3> QED  BY <3>6 DEF Promise!Next
  <2> QED  BY <2>3, <2>4
<1>18. ASSUME NEW m \in PM, LoadForUpdate(m) \/ WriteDeadline(m) \/ LeaseRunsOut(m)
       PROVE  Goal
  BY <1>3, <1>18 DEF LoadForUpdate, WriteDeadline, LeaseRunsOut
<1>19. CASE UNCHANGED vars
  BY <1>3, <1>19 DEF vars
<1>20. ASSUME NEW p \in Pullers, PullStep(p)  PROVE Goal
  <2>1. ASSUME NEW m \in PM, FindExpired(p, m)  PROVE Goal
    <3>1. cur'[p] = m
      BY <1>0, <2>1 DEF FindExpired
    <3> QED  BY <1>8, <2>1, <3>1
  <2>2. CASE SkipMessage(p)
    BY <1>4, <2>2 DEF SkipMessage, CanDequeue, Holders
  <2> QED
    BY <1>7, <1>9, <1>10, <1>11, <1>12, <1>13, <1>20, <2>1, <2>2 DEF PullStep, Holders
<1> HIDE DEF Goal
<1>21. ASSUME NEW l \in Listers, ListStart(l) \/ ListStep(l)  PROVE Goal
  BY <1>7, <1>14, <1>21 DEF ListStep, Holders
<1>22. ASSUME NEW q \in Seekers, SeekStep(q)  PROVE Goal
  BY <1>15, <1>16, <1>22 DEF SeekStep
<1>23. ASSUME NEW m \in PM, ClientStep(m) \/ LeaseRunsOut(m)  PROVE Goal
  BY <1>17, <1>18, <1>23 DEF ClientStep
<1>24. ASSUME NEW t \in Senders, SendStep(t)  PROVE Goal
  BY <1>5, <1>6, <1>24 DEF SendStep
<1>25. ASSUME NEW p \in Pullers, PullStart(p) \/ PullStep(p)  PROVE Goal
  BY <1>11, <1>20, <1>25
<1>26. ASSUME Next PROVE Goal
  BY <1>21, <1>22, <1>23, <1>24, <1>25, <1>26 DEF Next
<1> QED  BY <1>19, <1>26 DEF Goal

\* The queue keeps the promise of Backlog while Pulls do not overlap, for any
\* messages, batches, capacity and keys, and any publishes, listings, seeks,
\* acks and deadline changes beside the Pull.
THEOREM Implements == ASSUME SinglePull PROVE Spec => KeepsPromise
<1>1. Init => RInv /\ Promise!Init
  <2> SUFFICES ASSUME Init PROVE RInv /\ Promise!Init
    OBVIOUS
  <2>1. RInv
    BY InitTypeOK, InitPlaced, InitKept DEF RInv, IInv
  <2>2. /\ Range(ch) = {} /\ inFlight = {}
        /\ \A t \in Holders : Range(todo[t]) = {}
        /\ \A p \in Pullers : ~Works(p)
    BY QueueAssumption, QueueSeq
       DEF Init, QueueAssumption, Works, Senders, Holders, Threads
  <2>3. waiting = {} /\ leased = {}
    BY <2>2, Mapping DEF MapsTo, InWork
  <2>4. lost = {} /\ acknowledged = {}
    BY DEF Init, lost, acknowledged
  <2> QED  BY <2>1, <2>3, <2>4 DEF Promise!Init
<1>2. RInv /\ [Next]_vars => RInv'
  BY NextTypeOK, NextPlaced, NextKept DEF RInv, IInv
<1>3. RInv /\ [Next]_vars => [Promise!Next]_(Promise!vars)
  BY NextRefines
<1> QED  BY <1>1, <1>2, <1>3, PTL DEF Spec, KeepsPromise, Promise!Spec
=============================================================================
