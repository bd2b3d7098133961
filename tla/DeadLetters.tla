----------------------------- MODULE DeadLetters -----------------------------
(***************************************************************************)
(* A subscription with a dead-letter policy.  Each batch that is pulled,   *)
(* by a unary Pull or by the dispatcher for a stream, passes through       *)
(* HandleDeadLetters before the client sees it: messages on their last     *)
(* attempt are stored under the dead-letter topic, enqueued for each of    *)
(* its subscriptions, and acknowledged; the rest is delivered.  The leases *)
(* of the batch may run out at any time in between, and other batches of   *)
(* the same messages be handled.                                           *)
(*                                                                         *)
(* The queue of the subscription is taken at the level of Backlog.         *)
(***************************************************************************)
EXTENDS Integers, FiniteSets

CONSTANTS
  Msg,
  Handler,        \* the goroutines that pull batches and handle them
  DeadSub,        \* names of subscriptions of the dead-letter topic
  MaxAttempts,    \* max_delivery_attempts of the policy
  PullMax,        \* most messages in a batch
  DeadCapacity,   \* room in the queue of a dead-letter subscription
  MaxBirths       \* bound: how often a dead-letter subscription is created

ASSUME DeadLetterAssumption ==
  /\ MaxAttempts \in Nat \ {0} /\ PullMax \in Nat \ {0}
  /\ DeadCapacity \in Nat \ {0} /\ MaxBirths \in Nat \ {0}
  /\ IsFiniteSet(Handler)

VARIABLES
  present,    \* the subscription exists
  waiting,    \* its channel
  leased,     \* its in-flight map
  past,       \* the leases whose deadline has passed
  attempts,   \* deliveryAttempt; it only matters up to MaxAttempts
  pc,         \* where each handler is
  held,       \* the batch of a handler: <<message, attempt at the pull>>
  targets,    \* the listed subscriptions a handler has yet to enqueue for
  attached,   \* the subscriptions of the dead-letter topic
  births,     \* how often each was created
  deadQueue,  \* how many copies each of them holds
  stored,     \* messages stored under the dead-letter topic
  acked,      \* history: messages clients have acknowledged under a lease
  delivered,  \* history: how often the client was given a message
  listed,     \* history: of those a handler listed, the ones still attached
  arrived     \* history: what was enqueued, per subscription still attached

source == <<present, waiting, leased, past, attempts>>
handlers == <<pc, held, targets>>
dead == <<attached, births, deadQueue, stored>>
history == <<acked, delivered, listed, arrived>>
vars == <<source, handlers, dead, history>>

Init ==
  /\ present = TRUE
  /\ waiting = {} /\ leased = {} /\ past = {}
  /\ attempts = [m \in Msg |-> 0]
  /\ pc = [h \in Handler |-> "pull"]
  /\ held = [h \in Handler |-> {}]
  /\ targets = [h \in Handler |-> {}]
  /\ attached = {}
  /\ births = [d \in DeadSub |-> 0]
  /\ deadQueue = [d \in DeadSub |-> 0]
  /\ stored = {}
  /\ acked = {}
  /\ delivered = [m \in Msg |-> 0]
  /\ listed = [h \in Handler |-> {}]
  /\ arrived = [d \in DeadSub |-> {}]

Goto(h, label) == pc' = [pc EXCEPT ![h] = label]

Known == waiting \cup leased \cup acked \cup stored

-----------------------------------------------------------------------------
(* The subscription.                                                       *)

Publish(m) ==
  /\ present
  /\ m \notin Known
  /\ waiting' = waiting \cup {m}
  /\ UNCHANGED <<present, leased, past, attempts, handlers, dead, history>>

LeaseRunsOut(m) ==
  /\ m \in leased \ past
  /\ past' = past \cup {m}
  /\ UNCHANGED <<present, waiting, leased, attempts, handlers, dead, history>>

\* The client acknowledges a message it was given; without an entry in the
\* in-flight map nothing happens.
Acknowledge(m) ==
  /\ delivered[m] > 0
  /\ m \in leased
  /\ leased' = leased \ {m} /\ past' = past \ {m}
  /\ acked' = acked \cup {m}
  /\ UNCHANGED <<present, waiting, attempts, handlers, dead, delivered, listed,
                 arrived>>

DeleteSubscription ==
  /\ present
  /\ present' = FALSE
  /\ waiting' = {} /\ leased' = {} /\ past' = {}
  /\ UNCHANGED <<attempts, handlers, dead, history>>

-----------------------------------------------------------------------------
(* The subscriptions of the dead-letter topic.                             *)

Attach(d) ==
  /\ d \notin attached
  /\ births[d] < MaxBirths
  /\ attached' = attached \cup {d}
  /\ births' = [births EXCEPT ![d] = @ + 1]
  /\ UNCHANGED <<source, handlers, deadQueue, stored, history>>

Remove(d) ==
  /\ d \in attached
  /\ attached' = attached \ {d}
  /\ deadQueue' = [deadQueue EXCEPT ![d] = 0]
  /\ listed' = [h \in Handler |-> listed[h] \ {d}]
  /\ arrived' = [arrived EXCEPT ![d] = {}]
  /\ UNCHANGED <<source, handlers, births, stored, acked, delivered>>

Consume(d) ==
  /\ deadQueue[d] > 0
  /\ deadQueue' = [deadQueue EXCEPT ![d] = @ - 1]
  /\ UNCHANGED <<source, handlers, attached, births, stored, history>>

-----------------------------------------------------------------------------
(* A handler.                                                              *)

Least(a, b) == IF a < b THEN a ELSE b

\* RequeueExpired, then as many as there are up to PullMax.
Pull(h) ==
  /\ pc[h] = "pull" /\ present
  /\ \E batch \in SUBSET (waiting \cup past) :
       /\ batch # {}
       /\ Cardinality(batch) = Least(PullMax, Cardinality(waiting \cup past))
       /\ waiting' = (waiting \cup past) \ batch
       /\ leased' = (leased \ past) \cup batch
       /\ past' = {}
       /\ attempts' = [m \in Msg |-> IF m \in batch THEN Least(attempts[m] + 1, MaxAttempts)
                                                    ELSE attempts[m]]
       /\ held' = [held EXCEPT ![h] = {<<m, attempts'[m]>> : m \in batch}]
  /\ Goto(h, "handle")
  /\ UNCHANGED <<present, targets, dead, history>>

\* Mutant: one attempt more.
ExhaustedLater(h) == {e[1] : e \in {e \in held[h] : e[2] > MaxAttempts}}

\* Mutant: one attempt less.
ExhaustedEarly(h) == {e[1] : e \in {e \in held[h] : e[2] + 1 >= MaxAttempts}}

\* The messages of the batch whose attempts are used up.
Exhausted(h) == {e[1] : e \in {e \in held[h] : e[2] >= MaxAttempts}}

Deliver(S) == delivered' = [m \in Msg |-> delivered[m] + (IF m \in S THEN 1 ELSE 0)]

Rest(h) == {e[1] : e \in held[h]} \ Exhausted(h)

Finish(h) ==
  /\ Goto(h, "pull")
  /\ held' = [held EXCEPT ![h] = {}]
  /\ targets' = [targets EXCEPT ![h] = {}]

\* A subscription that is gone has no policy: the batch is delivered whole.
HandDown(h) ==
  /\ pc[h] = "handle"
  /\ \/ ~present /\ Deliver({e[1] : e \in held[h]})
     \/ Exhausted(h) = {} /\ Deliver(Rest(h))
  /\ Finish(h)
  /\ UNCHANGED <<source, dead, acked, listed, arrived>>

StoreDead(h) ==
  /\ pc[h] = "handle" /\ present
  /\ Exhausted(h) # {}
  /\ stored' = stored \cup Exhausted(h)
  /\ Goto(h, "list")
  /\ UNCHANGED <<source, held, targets, attached, births, deadQueue, history>>

\* Nothing asks whether the dead-letter topic exists.
ListDead(h) ==
  /\ pc[h] = "list"
  /\ targets' = [targets EXCEPT ![h] = attached]
  /\ listed' = [listed EXCEPT ![h] = attached]
  /\ Goto(h, "enqueue")
  /\ UNCHANGED <<source, held, dead, acked, delivered, arrived>>

Room(d) == DeadCapacity - deadQueue[d]

\* Mutant: room for one message too many.
FitsAndOne(h, d) == Room(d) + 1 >= Cardinality(Exhausted(h))

Fits(h, d) == Room(d) >= Cardinality(Exhausted(h))

Add(d, S) ==
  /\ deadQueue' = [deadQueue EXCEPT ![d] = @ + Cardinality(S)]
  /\ arrived' = [arrived EXCEPT ![d] = @ \cup S]

\* Mutant: the result of Enqueue is not looked at.
EnqueueRegardless(h, d) ==
  /\ pc[h] = "enqueue"
  /\ d \in targets[h]
  /\ targets' = [targets EXCEPT ![h] = @ \ {d}]
  /\ \/ d \notin attached /\ UNCHANGED <<deadQueue, arrived>>
     \/ /\ d \in attached
        /\ \E S \in SUBSET Exhausted(h) :
             /\ Cardinality(S) = Least(Room(d), Cardinality(Exhausted(h)))
             /\ Add(d, S)
  /\ UNCHANGED <<source, pc, held, attached, births, stored, acked, delivered, listed>>

\* One by one, as many as there is room for.  A queue that is full, or gone,
\* ends the request with an error: the client gets nothing of the batch, and
\* nothing is acknowledged.
EnqueueDead(h, d) ==
  /\ pc[h] = "enqueue"
  /\ d \in targets[h]
  /\ \/ /\ d \notin attached
        /\ Finish(h)
        /\ UNCHANGED <<deadQueue, arrived>>
     \/ /\ d \in attached
        /\ ~Fits(h, d)
        /\ \E S \in SUBSET Exhausted(h) : Cardinality(S) = Room(d) /\ Add(d, S)
        /\ Finish(h)
     \/ /\ d \in attached
        /\ Fits(h, d)
        /\ Add(d, Exhausted(h))
        /\ targets' = [targets EXCEPT ![h] = @ \ {d}]
        /\ UNCHANGED <<pc, held>>
  /\ UNCHANGED <<source, attached, births, stored, acked, delivered, listed>>

\* Acknowledges what is still, or again, in flight; fails when the queue is
\* gone, and then nothing is delivered.
AcknowledgeDead(h) ==
  /\ pc[h] = "enqueue"
  /\ targets[h] = {}
  /\ leased' = leased \ Exhausted(h)
  /\ past' = past \ Exhausted(h)
  /\ IF present THEN Deliver(Rest(h)) ELSE UNCHANGED delivered
  /\ Finish(h)
  /\ UNCHANGED <<present, waiting, attempts, dead, acked, listed, arrived>>

-----------------------------------------------------------------------------
Handle(h) ==
  \/ Pull(h) \/ HandDown(h) \/ StoreDead(h) \/ ListDead(h) \/ AcknowledgeDead(h)
  \/ \E d \in targets[h] : EnqueueDead(h, d)

Next ==
  \/ \E m \in Msg : Publish(m) \/ LeaseRunsOut(m) \/ Acknowledge(m)
  \/ DeleteSubscription
  \/ \E d \in DeadSub : Attach(d) \/ Remove(d) \/ Consume(d)
  \/ \E h \in Handler : Handle(h)

Spec == Init /\ [][Next]_vars

-----------------------------------------------------------------------------
\* The types of the variables; a message is in one place of the queue, and no
\* queue holds more than it has room for, however many handlers fill it.
TypeOK ==
  /\ present \in BOOLEAN
  /\ waiting \subseteq Msg /\ leased \subseteq Msg /\ past \subseteq leased
  /\ waiting \cap leased = {}
  /\ attempts \in [Msg -> 0..MaxAttempts]
  /\ pc \in [Handler -> {"pull", "handle", "list", "enqueue"}]
  /\ \A h \in Handler :
       /\ held[h] \subseteq Msg \X (1..MaxAttempts)
       /\ targets[h] \subseteq DeadSub
       /\ targets[h] # {} => pc[h] = "enqueue"
  /\ attached \subseteq DeadSub
  /\ deadQueue \in [DeadSub -> 0..DeadCapacity]

\* A message that has left the queue without the client's acknowledgement is
\* with every subscription of the dead-letter topic that its handler listed
\* and that has stayed: a full or missing queue keeps it in the source.
NothingFallsBetween ==
  [][\A m \in Msg :
       present' /\ m \in leased /\ m \notin leased' \cup waiting' \cup acked' =>
         /\ m \in stored
         /\ \E h \in Handler :
              /\ pc[h] = "enqueue" /\ m \in Exhausted(h)
              /\ \A d \in listed[h] : m \in arrived[d]]_vars

\* While the subscription exists the client is given a message fewer times
\* than the policy's number of attempts, over however many handlers.
DeliveriesBounded ==
  present => \A m \in Msg : delivered[m] < MaxAttempts

\* A message reaches the dead-letter topic only when its attempts are used up.
OnlyExhausted ==
  \A m \in Msg : m \in stored \/ (\E d \in DeadSub : m \in arrived[d])
                   => attempts[m] = MaxAttempts
=============================================================================
