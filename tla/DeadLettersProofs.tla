------------------------- MODULE DeadLettersProofs -------------------------
(***************************************************************************)
(* Theorems about DeadLetters for any messages, handlers, subscriptions of *)
(* the dead-letter topic, attempts, batches and capacities.                *)
(***************************************************************************)
EXTENDS DeadLetters, FiniteSetTheorems, TLAPS

-----------------------------------------------------------------------------
(* The inductive invariant, in parts.                                      *)

Types ==
  /\ present \in BOOLEAN
  /\ waiting \subseteq Msg /\ leased \subseteq Msg /\ past \subseteq leased
  /\ waiting \cap leased = {}
  /\ attempts \in [Msg -> 0 .. MaxAttempts]
  /\ delivered \in [Msg -> Nat]
  /\ stored \subseteq Msg
  /\ arrived \in [DeadSub -> SUBSET Msg]
  /\ pc \in [Handler -> {"pull", "handle", "list", "enqueue"}]
  /\ held \in [Handler -> SUBSET (Msg \X (1 .. MaxAttempts))]
  /\ targets \in [Handler -> SUBSET DeadSub]
  /\ listed \in [Handler -> SUBSET DeadSub]
  /\ \A h \in Handler : targets[h] # {} => pc[h] = "enqueue"
  /\ attached \subseteq DeadSub
  /\ deadQueue \in [DeadSub -> 0 .. DeadCapacity]

\* Of all messages the source has finitely many, and so has a batch: what a
\* queue has no room for can be counted.
Counted ==
  /\ IsFiniteSet(waiting) /\ IsFiniteSet(leased)
  /\ \A h \in Handler : IsFiniteSet(Exhausted(h))

\* A batch has each message once, with the attempt it was pulled for.
Batches ==
  \A h \in Handler :
    /\ pc[h] = "pull" => held[h] = {}
    /\ \A e \in held[h] : e[2] <= attempts[e[1]]
    /\ \A e, f \in held[h] : e[1] = f[1] => e = f

\* The handlers that still may give m to the client.
Due(m) == {h \in Handler : \E e \in held[h] : e[1] = m /\ e[2] < MaxAttempts}

\* What the client was given and what it may yet be given of a message are so
\* many different attempts short of the last.
Spare ==
  present =>
    \A m \in Msg : /\ delivered[m] + Cardinality(Due(m)) <= attempts[m]
                   /\ delivered[m] + Cardinality(Due(m)) < MaxAttempts

\* What a handler is done with is stored, and has arrived where it was listed.
Forwarded ==
  \A h \in Handler :
    /\ pc[h] \in {"list", "enqueue"} => Exhausted(h) \subseteq stored
    /\ pc[h] = "enqueue" =>
         \A d \in listed[h] : d \in targets[h] \/ Exhausted(h) \subseteq arrived[d]

IInv == Types /\ Counted /\ Batches /\ Spare /\ OnlyExhausted /\ Forwarded

-----------------------------------------------------------------------------
LEMMA DueIsFinite ==
  ASSUME NEW m
  PROVE  /\ IsFiniteSet(Due(m)) /\ Cardinality(Due(m)) \in Nat
         /\ IsFiniteSet(Due(m)') /\ Cardinality(Due(m)') \in Nat
<1>1. Due(m) \subseteq Handler /\ Due(m)' \subseteq Handler
  BY DEF Due
<1> QED  BY <1>1, FS_Subset, FS_CardinalityType, DeadLetterAssumption

\* A handler that drops its batch leaves one delivery less to come of each
\* message it might have delivered.
LEMMA DropsBatch ==
  ASSUME Types, NEW h \in Handler, held' = [held EXCEPT ![h] = {}], NEW m \in Msg
  PROVE  /\ Cardinality(Due(m)') \in Nat
         /\ Cardinality(Due(m)') <= Cardinality(Due(m))
         /\ h \in Due(m) => Cardinality(Due(m)') = Cardinality(Due(m)) - 1
<1>1. Due(m)' = Due(m) \ {h}
  BY DEF Types, Due
<1>2. Cardinality(Due(m) \ {h}) = IF h \in Due(m) THEN Cardinality(Due(m)) - 1
                                                  ELSE Cardinality(Due(m))
  BY DueIsFinite, FS_RemoveElement
<1>3. Cardinality(Due(m)) \in Nat /\ Cardinality(Due(m)') \in Nat
  BY DueIsFinite
<1> HIDE DEF Due
<1> QED  BY <1>1, <1>2, <1>3

LEMMA ExhaustedAreMessages ==
  ASSUME IInv, NEW h \in Handler
  PROVE  /\ Exhausted(h) \subseteq Msg
         /\ \A m \in Exhausted(h) : attempts[m] = MaxAttempts
<1> SUFFICES ASSUME NEW e \in held[h], e[2] >= MaxAttempts
             PROVE  e[1] \in Msg /\ attempts[e[1]] = MaxAttempts
  BY DEF Exhausted
<1>1. e \in Msg \X (1 .. MaxAttempts) /\ e[2] <= attempts[e[1]]
  BY DEF IInv, Types, Batches
<1>2. e[1] \in Msg /\ e[2] \in 1 .. MaxAttempts
  BY <1>1
<1>3. attempts[e[1]] \in 0 .. MaxAttempts
  BY <1>2 DEF IInv, Types
<1> QED  BY <1>1, <1>2, <1>3, DeadLetterAssumption

LEMMA InitIsSound == ASSUME Init PROVE IInv
<1> USE DEF Init
<1>1. Types /\ Batches /\ Forwarded
  BY DeadLetterAssumption DEF Types, Batches, Forwarded
<1>2. Counted
  BY FS_EmptySet DEF Counted, Exhausted
<1>3. \A m : Due(m) = {}
  BY DEF Due
<1>4. Spare
  BY <1>3, FS_EmptySet, DeadLetterAssumption DEF Spare
<1> QED  BY <1>1, <1>4, <1>2 DEF IInv, OnlyExhausted

-----------------------------------------------------------------------------
(* Steps beside the handlers.                                              *)

\* Steps that leave attempts, batches and what was delivered as they are.
LEMMA AsideIsSound ==
  ASSUME IInv, Types', present' => present,
         IsFiniteSet(waiting'), IsFiniteSet(leased'),
         UNCHANGED <<attempts, handlers, stored, delivered, listed, arrived>>
  PROVE  IInv'
<1> USE DEF handlers
<1>1. Batches' /\ Forwarded' /\ OnlyExhausted'
  BY DEF IInv, Batches, Forwarded, OnlyExhausted, Exhausted
<1>2. Spare'
  BY DEF IInv, Spare, Due
<1>3. Counted'
  BY DEF IInv, Counted, Exhausted
<1> QED  BY <1>1, <1>2, <1>3 DEF IInv

LEMMA MessageIsSound ==
  ASSUME IInv, NEW m \in Msg, Publish(m) \/ LeaseRunsOut(m) \/ Acknowledge(m)
  PROVE  IInv'
<1>1. Types'
  BY DEF IInv, Types, Known, Publish, LeaseRunsOut, Acknowledge, handlers, dead, history
<1>2. IsFiniteSet(waiting')
  BY FS_AddElement DEF IInv, Counted, Publish, LeaseRunsOut, Acknowledge
<1>3. IsFiniteSet(leased')
  BY FS_RemoveElement DEF IInv, Counted, Publish, LeaseRunsOut, Acknowledge
<1> QED
  BY <1>1, <1>2, <1>3, AsideIsSound DEF Publish, LeaseRunsOut, Acknowledge, dead, history

LEMMA DeleteSubscriptionIsSound == ASSUME IInv, DeleteSubscription PROVE IInv'
<1>1. Types'
  BY DEF IInv, Types, DeleteSubscription, handlers, dead, history
<1> QED  BY <1>1, AsideIsSound, FS_EmptySet DEF DeleteSubscription, dead, history

LEMMA AttachOrConsumeIsSound ==
  ASSUME IInv, NEW d \in DeadSub, Attach(d) \/ Consume(d)
  PROVE  IInv'
<1>1. Types'
  <2>1. deadQueue' \in [DeadSub -> 0 .. DeadCapacity]
    BY DeadLetterAssumption DEF IInv, Types, Attach, Consume
  <2> QED  BY <2>1 DEF IInv, Types, Attach, Consume, source, handlers, history
<1> QED  BY <1>1, AsideIsSound DEF IInv, Counted, Attach, Consume, source, history

LEMMA RemoveIsSound == ASSUME IInv, NEW d \in DeadSub, Remove(d) PROVE IInv'
<1> USE DEF Remove, source, handlers
<1>1. Types'
  <2>1. deadQueue' \in [DeadSub -> 0 .. DeadCapacity]
    BY DeadLetterAssumption DEF IInv, Types
  <2> QED  BY <2>1 DEF IInv, Types
<1>2. Counted'
  BY DEF IInv, Counted, Exhausted
<1>3. Batches' /\ OnlyExhausted'
  BY DEF IInv, Types, Batches, OnlyExhausted
<1>4. Forwarded'
  BY DEF IInv, Types, Forwarded, Exhausted
<1>5. Spare'
  BY DEF IInv, Spare, Due
<1> QED  BY <1>1, <1>3, <1>4, <1>5, <1>2 DEF IInv

-----------------------------------------------------------------------------
(* Steps of a handler.                                                     *)

LEMMA PullIsSound == ASSUME IInv, NEW h \in Handler, Pull(h) PROVE IInv'
<1> USE DEF dead, history
<1>1. PICK batch \in SUBSET (waiting \cup past) :
        /\ waiting' = (waiting \cup past) \ batch
        /\ leased' = (leased \ past) \cup batch
        /\ past' = {}
        /\ attempts' = [m \in Msg |-> IF m \in batch
                                      THEN Least(attempts[m] + 1, MaxAttempts)
                                      ELSE attempts[m]]
        /\ held' = [held EXCEPT ![h] = {<<m, attempts'[m]>> : m \in batch}]
  BY DEF Pull
<1>2. /\ pc[h] = "pull" /\ held[h] = {} /\ pc' = [pc EXCEPT ![h] = "handle"]
      /\ UNCHANGED <<present, targets, attached, deadQueue, stored, delivered, listed,
                     arrived>>
  BY DEF Pull, Goto, IInv, Batches
<1>3. \A m \in Msg :
        /\ attempts[m] \in 0 .. MaxAttempts
        /\ attempts'[m] = IF m \in batch THEN Least(attempts[m] + 1, MaxAttempts)
                                         ELSE attempts[m]
        /\ attempts'[m] \in 0 .. MaxAttempts
        /\ attempts[m] <= attempts'[m]
        /\ m \in batch => attempts'[m] \in 1 .. MaxAttempts
  BY <1>1, DeadLetterAssumption DEF IInv, Types, Least
<1>4. batch \subseteq Msg /\ MaxAttempts \in Nat \ {0}
  BY DeadLetterAssumption DEF IInv, Types
<1> DEFINE pulled == {<<m, attempts'[m]>> : m \in batch}
<1>5. held' = [held EXCEPT ![h] = pulled] /\ pulled \in SUBSET (Msg \X (1 .. MaxAttempts))
  BY <1>1, <1>3, <1>4
<1>6. held'[h] = pulled /\ \A g \in Handler \ {h} : held'[g] = held[g]
  BY <1>5 DEF IInv, Types
<1> HIDE DEF pulled
<1>7. Types'
  <2>1. /\ waiting' \subseteq Msg /\ leased' \subseteq Msg /\ past' \subseteq leased'
        /\ waiting' \cap leased' = {}
    BY <1>1, <1>4 DEF IInv, Types
  <2>2. attempts' \in [Msg -> 0 .. MaxAttempts]
    BY <1>1, <1>3
  <2>3. \A g \in Handler : targets'[g] # {} => pc'[g] = "enqueue"
    BY <1>2 DEF IInv, Types
  <2> QED  BY <1>2, <1>5, <2>1, <2>2, <2>3 DEF IInv, Types
<1>8. Counted'
  <2>1. IsFiniteSet(waiting \cup leased)
    BY FS_Union DEF IInv, Counted
  <2>2. batch \in SUBSET (waiting \cup leased)
    BY DEF IInv, Types
  <2>3. IsFiniteSet(waiting') /\ IsFiniteSet(leased')
    <3>1. /\ waiting' \in SUBSET (waiting \cup leased)
          /\ leased' \in SUBSET (waiting \cup leased)
      BY <1>1, <2>2 DEF IInv, Types
    <3> QED  BY <2>1, <3>1, FS_Subset
  <2>4. Exhausted(h)' \in SUBSET batch
    <3>1. \A e \in held'[h] : e[1] \in batch
      BY <1>6 DEF pulled
    <3> QED  BY <3>1 DEF Exhausted
  <2>5. IsFiniteSet(Exhausted(h)')
    BY <2>1, <2>2, <2>4, FS_Subset
  <2>6. \A g \in Handler \ {h} : Exhausted(g)' = Exhausted(g)
    BY <1>6 DEF Exhausted
  <2> QED  BY <2>3, <2>5, <2>6 DEF IInv, Counted
<1>9. Batches'
  <2>1. /\ \A e \in pulled : e[1] \in batch /\ e[2] = attempts'[e[1]]
        /\ \A e, f \in pulled : e[1] = f[1] => e = f
    BY DEF pulled
  <2>2. \A g \in Handler \ {h} : \A e \in held[g] : e[2] <= attempts'[e[1]]
    <3> SUFFICES ASSUME NEW g \in Handler \ {h}, NEW e \in held[g]
                 PROVE  e[2] <= attempts'[e[1]]
      OBVIOUS
    <3>1. e[1] \in Msg /\ e[2] \in 1 .. MaxAttempts /\ e[2] <= attempts[e[1]]
      BY DEF IInv, Types, Batches
    <3> QED  BY <1>3, <1>4, <3>1
  <2>3. \A e \in pulled : e[2] <= attempts'[e[1]]
    BY <1>3, <1>4, <2>1
  <2>4. \A g \in Handler \ {h} : pc'[g] = pc[g]
    BY <1>2 DEF IInv, Types
  <2>5. pc'[h] # "pull"
    BY <1>2 DEF IInv, Types
  <2> QED  BY <1>6, <2>1, <2>2, <2>3, <2>4, <2>5 DEF IInv, Batches
<1>10. Spare'
  <2> SUFFICES ASSUME present', NEW m \in Msg
               PROVE  /\ delivered[m] + Cardinality(Due(m)') <= attempts'[m]
                      /\ delivered[m] + Cardinality(Due(m)') < MaxAttempts
    BY <1>2 DEF Spare
  <2>1. /\ delivered[m] \in Nat
        /\ delivered[m] + Cardinality(Due(m)) <= attempts[m]
        /\ delivered[m] + Cardinality(Due(m)) < MaxAttempts
    BY <1>2 DEF IInv, Types, Spare
  <2>2. h \notin Due(m)
    BY <1>2 DEF Due
  <2>3. h \in Due(m)' <=> m \in batch /\ attempts'[m] < MaxAttempts
    <3>1. h \in Due(m)' <=> \E e \in pulled : e[1] = m /\ e[2] < MaxAttempts
      BY <1>6 DEF Due
    <3>2. \A e \in pulled : e[1] \in batch /\ e[2] = attempts'[e[1]]
      BY DEF pulled
    <3>3. m \in batch => \E e \in pulled : e = <<m, attempts'[m]>>
      BY DEF pulled
    <3> QED  BY <3>1, <3>2, <3>3
  <2>4. \A g \in Handler \ {h} : g \in Due(m)' <=> g \in Due(m)
    BY <1>6 DEF Due
  <2>5. Due(m) \subseteq Handler /\ Due(m)' \subseteq Handler
    BY DEF Due
  <2>6. CASE m \in batch /\ attempts'[m] < MaxAttempts
    <3>1. Due(m)' = Due(m) \cup {h}
      BY <2>3, <2>4, <2>5, <2>6
    <3>2. Cardinality(Due(m)') = Cardinality(Due(m)) + 1
      BY <2>2, <3>1, DueIsFinite, FS_AddElement
    <3>3. attempts'[m] = attempts[m] + 1
      BY <1>3, <2>6 DEF Least
    <3> QED  BY <1>3, <1>4, <2>1, <2>6, <3>2, <3>3, DueIsFinite
  <2>7. CASE ~(m \in batch /\ attempts'[m] < MaxAttempts)
    <3>1. Due(m)' = Due(m)
      BY <2>2, <2>3, <2>4, <2>5, <2>7
    <3> QED  BY <1>3, <1>4, <2>1, <3>1, DueIsFinite
  <2> QED  BY <2>6, <2>7
<1>11. OnlyExhausted'
  <2>1. \A m \in Msg : attempts[m] = MaxAttempts => attempts'[m] = MaxAttempts
    BY <1>3, <1>4
  <2> QED  BY <1>2, <2>1 DEF IInv, OnlyExhausted
<1>12. Forwarded'
  <2>1. pc'[h] = "handle" /\ \A g \in Handler \ {h} : pc'[g] = pc[g]
    BY <1>2 DEF IInv, Types
  <2>2. \A g \in Handler \ {h} : Exhausted(g)' = Exhausted(g)
    BY <1>6 DEF Exhausted
  <2> QED  BY <1>2, <2>1, <2>2 DEF IInv, Forwarded
<1> QED  BY <1>7, <1>9, <1>10, <1>11, <1>12, <1>8 DEF IInv

\* A handler that ends gives the client messages it had been about to give it,
\* once each, or none.
LEMMA EndIsSound ==
  ASSUME IInv, NEW h \in Handler, Finish(h), Types', present' = present,
         waiting' = waiting, leased' \subseteq leased,
         UNCHANGED <<attempts, stored, listed>>,
         \A d \in DeadSub : \/ arrived'[d] = arrived[d]
                            \/ arrived'[d] = arrived[d] \cup Exhausted(h)
                            \/ \E S \in SUBSET Exhausted(h) : arrived'[d] = arrived[d] \cup S,
         present => \A m \in Msg : \/ delivered'[m] = delivered[m]
                                   \/ delivered'[m] = delivered[m] + 1 /\ h \in Due(m)
  PROVE  IInv'
<1>1. /\ pc' = [pc EXCEPT ![h] = "pull"]
      /\ held' = [held EXCEPT ![h] = {}]
      /\ targets' = [targets EXCEPT ![h] = {}]
  BY DEF Finish, Goto
<1>2. /\ pc'[h] = "pull" /\ held'[h] = {}
      /\ \A g \in Handler \ {h} :
           pc'[g] = pc[g] /\ held'[g] = held[g] /\ targets'[g] = targets[g]
  BY <1>1 DEF IInv, Types
<1>3. Counted'
  <2>1. Exhausted(h)' = {}
    BY <1>2 DEF Exhausted
  <2>2. \A g \in Handler \ {h} : Exhausted(g)' = Exhausted(g)
    BY <1>2 DEF Exhausted
  <2>3. IsFiniteSet(leased')
    BY FS_Subset DEF IInv, Counted
  <2> QED  BY <2>1, <2>2, <2>3, FS_EmptySet DEF IInv, Counted
<1>4. Batches'
  BY <1>2 DEF IInv, Batches
<1>5. Spare'
  <2> SUFFICES ASSUME present, NEW m \in Msg
               PROVE  /\ delivered'[m] + Cardinality(Due(m)') <= attempts[m]
                      /\ delivered'[m] + Cardinality(Due(m)') < MaxAttempts
    BY DEF Spare
  <2>1. /\ delivered[m] \in Nat /\ attempts[m] \in 0 .. MaxAttempts
        /\ delivered[m] + Cardinality(Due(m)) <= attempts[m]
        /\ delivered[m] + Cardinality(Due(m)) < MaxAttempts
    BY DEF IInv, Types, Spare
  <2>2. Cardinality(Due(m)) \in Nat
    BY DueIsFinite
  <2>3. /\ Cardinality(Due(m)') \in Nat
        /\ Cardinality(Due(m)') <= Cardinality(Due(m))
        /\ h \in Due(m) => Cardinality(Due(m)') = Cardinality(Due(m)) - 1
    BY <1>1, DropsBatch DEF IInv
  <2>4. /\ attempts' = attempts /\ MaxAttempts \in Nat
        /\ \/ delivered'[m] = delivered[m]
           \/ delivered'[m] = delivered[m] + 1 /\ h \in Due(m)
    BY DeadLetterAssumption
  <2> QED  BY <2>1, <2>2, <2>3, <2>4
<1>6. OnlyExhausted'
  <2>1. \A d \in DeadSub : \A m \in arrived'[d] : m \in arrived[d] \/ m \in Exhausted(h)
    OBVIOUS
  <2> QED  BY <2>1, ExhaustedAreMessages DEF IInv, OnlyExhausted
<1>7. Forwarded'
  <2>1. \A g \in Handler \ {h} : Exhausted(g)' = Exhausted(g)
    BY <1>2 DEF Exhausted
  <2>2. \A d \in DeadSub : arrived[d] \subseteq arrived'[d]
    OBVIOUS
  <2>3. \A g \in Handler : listed[g] \subseteq DeadSub
    BY DEF IInv, Types
  <2> QED  BY <1>2, <2>1, <2>2, <2>3 DEF IInv, Forwarded
<1> QED  BY <1>4, <1>5, <1>6, <1>7, <1>3 DEF IInv

\* What is delivered of a batch without its exhausted messages was due.
LEMMA RestIsDue ==
  ASSUME IInv, NEW h \in Handler, NEW m \in Rest(h)
  PROVE  m \in Msg /\ h \in Due(m)
<1>1. PICK e \in held[h] : e[1] = m /\ m \notin Exhausted(h)
  BY DEF Rest
<1>2. e[1] \in Msg /\ e[2] \in 1 .. MaxAttempts /\ ~(e[2] >= MaxAttempts)
  BY <1>1 DEF IInv, Types, Exhausted
<1> QED  BY <1>1, <1>2, DeadLetterAssumption DEF Due

LEMMA DeliverTypes ==
  ASSUME IInv, NEW S, Deliver(S)
  PROVE  /\ delivered' \in [Msg -> Nat]
         /\ \A m \in Msg : delivered'[m] = delivered[m] + (IF m \in S THEN 1 ELSE 0)
BY DEF IInv, Types, Deliver

\* A handler that ends keeps the types.
LEMMA FinishTypes ==
  ASSUME IInv, NEW h \in Handler, Finish(h)
  PROVE  /\ pc' \in [Handler -> {"pull", "handle", "list", "enqueue"}]
         /\ held' \in [Handler -> SUBSET (Msg \X (1 .. MaxAttempts))]
         /\ targets' \in [Handler -> SUBSET DeadSub]
         /\ \A g \in Handler : targets'[g] # {} => pc'[g] = "enqueue"
BY DEF IInv, Types, Finish, Goto

LEMMA HandDownIsSound == ASSUME IInv, NEW h \in Handler, HandDown(h) PROVE IInv'
<1> USE DEF HandDown, source, dead
<1>1. PICK S : Deliver(S) /\ (~present \/ S = Rest(h))
  <2>1. CASE ~present /\ Deliver({e[1] : e \in held[h]})
    BY <2>1
  <2>2. CASE Deliver(Rest(h))
    BY <2>2
  <2> QED  BY <2>1, <2>2
<1>2. Types'
  BY <1>1, DeliverTypes, FinishTypes DEF IInv, Types
<1>3. present => \A m \in Msg : \/ delivered'[m] = delivered[m]
                                \/ delivered'[m] = delivered[m] + 1 /\ h \in Due(m)
  <2> SUFFICES ASSUME present, NEW m \in Msg
               PROVE  \/ delivered'[m] = delivered[m]
                      \/ delivered'[m] = delivered[m] + 1 /\ h \in Due(m)
    OBVIOUS
  <2>1. /\ delivered[m] \in Nat
        /\ delivered'[m] = delivered[m] + (IF m \in Rest(h) THEN 1 ELSE 0)
    BY <1>1, DeliverTypes DEF IInv, Types
  <2> QED  BY <2>1, RestIsDue
<1> QED  BY <1>2, <1>3, EndIsSound

LEMMA StoreDeadIsSound == ASSUME IInv, NEW h \in Handler, StoreDead(h) PROVE IInv'
<1> USE DEF StoreDead, Goto, source, history
<1>1. \A g \in Handler : Exhausted(g)' = Exhausted(g)
  BY DEF Exhausted
<1>2. Types'
  BY ExhaustedAreMessages DEF IInv, Types
<1>3. Counted' /\ Batches' /\ Spare'
  BY <1>1 DEF IInv, Types, Counted, Batches, Spare, Due
<1>4. OnlyExhausted'
  BY ExhaustedAreMessages DEF IInv, OnlyExhausted
<1>5. Forwarded'
  BY <1>1 DEF IInv, Types, Forwarded
<1> QED  BY <1>2, <1>3, <1>4, <1>5 DEF IInv

LEMMA ListDeadIsSound == ASSUME IInv, NEW h \in Handler, ListDead(h) PROVE IInv'
<1> USE DEF ListDead, Goto, source, dead
<1>1. \A g \in Handler : Exhausted(g)' = Exhausted(g)
  BY DEF Exhausted
<1>2. Types'
  BY DEF IInv, Types
<1>3. Counted' /\ Batches' /\ Spare' /\ OnlyExhausted'
  BY <1>1 DEF IInv, Types, Counted, Batches, Spare, Due, OnlyExhausted
<1>4. Forwarded'
  BY <1>1 DEF IInv, Types, Forwarded
<1> QED  BY <1>2, <1>3, <1>4 DEF IInv

\* Messages that fit keep a queue within its capacity.
LEMMA RoomIsKept ==
  ASSUME IInv, NEW h \in Handler, NEW d \in DeadSub, Fits(h, d), Add(d, Exhausted(h))
  PROVE  deadQueue' \in [DeadSub -> 0 .. DeadCapacity]
<1>1. Cardinality(Exhausted(h)) \in Nat
  BY FS_CardinalityType DEF IInv, Counted
<1>2. /\ deadQueue \in [DeadSub -> 0 .. DeadCapacity]
      /\ deadQueue' = [deadQueue EXCEPT ![d] = @ + Cardinality(Exhausted(h))]
      /\ Cardinality(Exhausted(h)) <= DeadCapacity - deadQueue[d]
  BY <1>1, DeadLetterAssumption DEF IInv, Types, Add, Fits, Room
<1>3. deadQueue[d] + Cardinality(Exhausted(h)) \in 0 .. DeadCapacity
  BY <1>1, <1>2, DeadLetterAssumption
<1> QED  BY <1>2, <1>3

LEMMA EnqueueDeadIsSound ==
  ASSUME IInv, NEW h \in Handler, NEW d \in targets[h], EnqueueDead(h, d)
  PROVE  IInv'
<1> USE DEF source
<1>1. /\ d \in DeadSub
      /\ UNCHANGED <<source, attached, stored, delivered, listed>>
      /\ pc[h] = "enqueue"
  BY DEF IInv, Types, EnqueueDead
<1>2. CASE Finish(h)
  <2>1. PICK S \in SUBSET Exhausted(h) : arrived' = [arrived EXCEPT ![d] = @ \cup S]
    <3>1. CASE UNCHANGED arrived
      <4>1. arrived' = [arrived EXCEPT ![d] = @ \cup {}]
        BY <3>1 DEF IInv, Types
      <4> QED  BY <4>1
    <3>2. CASE \E S \in SUBSET Exhausted(h) : Add(d, S)
      BY <3>2 DEF Add
    <3> QED  BY <3>1, <3>2 DEF EnqueueDead
  <2>2. arrived' \in [DeadSub -> SUBSET Msg]
    BY <1>1, <2>1, ExhaustedAreMessages DEF IInv, Types
  <2>3. deadQueue' \in [DeadSub -> 0 .. DeadCapacity]
    <3>1. CASE UNCHANGED deadQueue
      BY <3>1 DEF IInv, Types
    <3>2. CASE \E T \in SUBSET Exhausted(h) : Cardinality(T) = Room(d) /\ Add(d, T)
      <4>1. deadQueue' = [deadQueue EXCEPT ![d] = @ + Room(d)]
        BY <3>2 DEF Add
      <4> QED  BY <1>1, <4>1, DeadLetterAssumption DEF IInv, Types, Room
    <3>3. CASE Fits(h, d) /\ Add(d, Exhausted(h))
      BY <1>1, <3>3, RoomIsKept
    <3> QED  BY <3>1, <3>2, <3>3 DEF EnqueueDead
  <2>4. Types'
    BY <1>1, <1>2, <2>2, <2>3, FinishTypes DEF IInv, Types
  <2>5. \A x \in DeadSub : \/ arrived'[x] = arrived[x]
                           \/ \E T \in SUBSET Exhausted(h) : arrived'[x] = arrived[x] \cup T
    BY <2>1 DEF IInv, Types
  <2> QED  BY <1>1, <1>2, <2>4, <2>5, EndIsSound
<1>3. CASE /\ arrived' = [arrived EXCEPT ![d] = @ \cup Exhausted(h)]
           /\ targets' = [targets EXCEPT ![h] = @ \ {d}]
           /\ Fits(h, d) /\ Add(d, Exhausted(h))
           /\ UNCHANGED <<pc, held>>
  <2>1. \A g \in Handler : Exhausted(g)' = Exhausted(g)
    BY <1>3 DEF Exhausted
  <2>2. deadQueue' \in [DeadSub -> 0 .. DeadCapacity]
    BY <1>1, <1>3, RoomIsKept
  <2>3. Types'
    BY <1>1, <1>3, <2>2, ExhaustedAreMessages DEF IInv, Types
  <2>4. Counted' /\ Batches' /\ Spare'
    BY <1>1, <1>3, <2>1 DEF IInv, Counted, Batches, Spare, Due
  <2>5. OnlyExhausted'
    BY <1>1, <1>3, ExhaustedAreMessages DEF IInv, Types, OnlyExhausted
  <2>6. Forwarded'
    BY <1>1, <1>3, <2>1 DEF IInv, Types, Forwarded
  <2> QED  BY <2>3, <2>4, <2>5, <2>6 DEF IInv
<1> QED  BY <1>2, <1>3 DEF EnqueueDead, Add

LEMMA AcknowledgeDeadIsSound ==
  ASSUME IInv, NEW h \in Handler, AcknowledgeDead(h)
  PROVE  IInv'
<1> USE DEF AcknowledgeDead, dead
<1>1. delivered' \in [Msg -> Nat]
  BY DeliverTypes DEF IInv, Types
<1>2. Types'
  BY <1>1, FinishTypes DEF IInv, Types
<1>3. present => \A m \in Msg : \/ delivered'[m] = delivered[m]
                                \/ delivered'[m] = delivered[m] + 1 /\ h \in Due(m)
  <2> SUFFICES ASSUME present, NEW m \in Msg
               PROVE  \/ delivered'[m] = delivered[m]
                      \/ delivered'[m] = delivered[m] + 1 /\ h \in Due(m)
    OBVIOUS
  <2>1. /\ delivered[m] \in Nat
        /\ delivered'[m] = delivered[m] + (IF m \in Rest(h) THEN 1 ELSE 0)
    BY DeliverTypes DEF IInv, Types
  <2> QED  BY <2>1, RestIsDue
<1> QED  BY <1>2, <1>3, EndIsSound

-----------------------------------------------------------------------------
LEMMA NextIsSound == ASSUME IInv, [Next]_vars PROVE IInv'
<1>1. ASSUME NEW h \in Handler, Handle(h) PROVE IInv'
  BY <1>1, PullIsSound, HandDownIsSound, StoreDeadIsSound, ListDeadIsSound,
     AcknowledgeDeadIsSound, EnqueueDeadIsSound DEF Handle
<1>2. CASE UNCHANGED vars
  <2>1. Types'
    BY <1>2 DEF IInv, Types, vars, source, handlers, dead, history
  <2> QED  BY <1>2, <2>1, AsideIsSound DEF IInv, Counted, vars, source, dead, history
<1> QED
  BY <1>1, <1>2, MessageIsSound, DeleteSubscriptionIsSound, AttachOrConsumeIsSound,
     RemoveIsSound DEF Next

LEMMA AlwaysSound == Spec => []IInv
<1> QED  BY InitIsSound, NextIsSound, PTL DEF Spec

-----------------------------------------------------------------------------
(* The theorems.                                                           *)

\* A message is in one place of the source, and no queue of a dead-letter
\* subscription ever holds more than its capacity, however many handlers fill
\* it.
THEOREM TypeCorrect == Spec => []TypeOK
<1>1. IInv => TypeOK
  BY DEF IInv, Types, TypeOK
<1> QED  BY <1>1, AlwaysSound, PTL

\* While its subscription exists, HandleDeadLetters lets the client have a
\* message fewer times than the policy's attempts, with any number of
\* handlers pulling it again as its leases run out.
THEOREM FewerThanAttempts == Spec => []DeliveriesBounded
<1>1. ASSUME IInv PROVE DeliveriesBounded
  <2> SUFFICES ASSUME present, NEW m \in Msg PROVE delivered[m] < MaxAttempts
    BY DEF DeliveriesBounded
  <2>1. delivered[m] \in Nat /\ delivered[m] + Cardinality(Due(m)) < MaxAttempts
    BY <1>1 DEF IInv, Types, Spare
  <2> QED  BY <2>1, DueIsFinite, DeadLetterAssumption
<1> QED  BY <1>1, AlwaysSound, PTL

\* No batch, however old the attempts it was pulled for, brings a message with
\* attempts to spare to the dead-letter topic.
THEOREM ForwardsExhausted == Spec => []OnlyExhausted
<1>1. IInv => OnlyExhausted
  BY DEF IInv
<1> QED  BY <1>1, AlwaysSound, PTL

\* HandleDeadLetters acknowledges a message only after every subscription it
\* listed, and that has stayed, was given it, for any capacities and any
\* errors on the way; otherwise the source keeps it.
THEOREM FallsNowhere == Spec => NothingFallsBetween
<1> DEFINE Kept ==
      \A m \in Msg :
        present' /\ m \in leased /\ m \notin leased' \cup waiting' \cup acked' =>
          /\ m \in stored
          /\ \E h \in Handler :
               /\ pc[h] = "enqueue" /\ m \in Exhausted(h)
               /\ \A d \in listed[h] : m \in arrived[d]
<1>1. ASSUME IInv, [Next]_vars PROVE Kept
  <2> SUFFICES ASSUME NEW m \in Msg, present', m \in leased,
                      m \notin leased' \cup waiting' \cup acked'
               PROVE  /\ m \in stored
                      /\ \E h \in Handler :
                           /\ pc[h] = "enqueue" /\ m \in Exhausted(h)
                           /\ \A d \in listed[h] : m \in arrived[d]
    OBVIOUS
  <2>1. PICK h \in Handler : AcknowledgeDead(h) /\ m \in Exhausted(h)
    <3>1. ASSUME NEW h \in Handler, Handle(h)
          PROVE  AcknowledgeDead(h) /\ m \in Exhausted(h)
      <4>1. CASE Pull(h)
        BY <4>1 DEF Pull
      <4>2. CASE AcknowledgeDead(h)
        BY <4>2 DEF AcknowledgeDead
      <4> QED
        BY <3>1, <4>1, <4>2 DEF Handle, HandDown, StoreDead, ListDead, EnqueueDead, source
    <3>2. CASE \E x \in Msg : Publish(x) \/ LeaseRunsOut(x) \/ Acknowledge(x)
      BY <3>2 DEF Publish, LeaseRunsOut, Acknowledge
    <3>3. CASE \E d \in DeadSub : Attach(d) \/ Remove(d) \/ Consume(d)
      BY <3>3 DEF Attach, Remove, Consume, source
    <3> QED
      BY <1>1, <3>1, <3>2, <3>3 DEF Next, DeleteSubscription, vars, source
  <2>2. pc[h] = "enqueue" /\ targets[h] = {}
    BY <2>1 DEF AcknowledgeDead
  <2>3. m \in stored /\ \A d \in listed[h] : Exhausted(h) \subseteq arrived[d]
    BY <1>1, <2>1, <2>2 DEF IInv, Forwarded
  <2> QED  BY <2>1, <2>2, <2>3
<1> QED  BY <1>1, AlwaysSound, PTL DEF Spec, NothingFallsBetween
=============================================================================
