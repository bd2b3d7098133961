------------------------------- MODULE Entities -------------------------------
(***************************************************************************)
(* What a topic, a subscription and a snapshot may hold, and how their     *)
(* fields get there: the setters of the entities, the conversion of a      *)
(* request into an entity, the fields an update may name, and the reading  *)
(* of a stored model, which passes every field through its setter again.   *)
(*                                                                         *)
(* Durations are in seconds.  Of labels only what IsValid counts is kept.  *)
(* The key name of a topic and the two flags of a subscription that are    *)
(* set at its creation only are left out: they are copied like the filter. *)
(***************************************************************************)
EXTENDS Integers

CONSTANTS
  Shape,         \* of a name: what FQDN.IsValid looks at
  FilterLength,  \* of a filter: its number of bytes
  DeletedTopic,  \* "_deleted-topic_"
  Unset          \* nil, or a field that a message leaves out

ASSUME EntitiesAssumption ==
  /\ Shape \in [DOMAIN Shape ->
       [goog : BOOLEAN, slash : BOOLEAN, first : {"letter", "underscore", "other"},
        rest : BOOLEAN, length : Nat]]
  /\ FilterLength \in [DOMAIN FilterLength -> Nat]
  /\ DeletedTopic \in DOMAIN Shape
  /\ Shape[DeletedTopic] = [goog |-> FALSE, slash |-> FALSE, first |-> "underscore",
                            rest |-> TRUE, length |-> 15]

Kind == {"topic", "subscription", "snapshot"}
Minute == 60
Day == 24 * 60 * Minute

-----------------------------------------------------------------------------
\* Mutant: a name starts with a letter, as the service itself wants it.
LetterFirst(n) ==
  /\ Shape[n].goog => Shape[n].slash
  /\ Shape[n].first = "letter"
  /\ Shape[n].rest
  /\ Shape[n].length \in 3 .. 255

\* FQDN.IsValid.  The prefix "goog" is reserved in names that are no paths.
ValidName(n) ==
  /\ Shape[n].goog => Shape[n].slash
  /\ Shape[n].first \in {"letter", "underscore"}
  /\ Shape[n].rest
  /\ Shape[n].length \in 3 .. 255

ValidLabels(l) == l.count <= 64 /\ l.keysMatch /\ l.longest <= 63
NoLabels == [count |-> 0, keysMatch |-> TRUE, longest |-> 0]

ValidAckDeadline(d) == d \in 10 .. 10 * Minute
ValidTopicRetention(d) == d \in Minute .. 31 * Day
ValidSubscriptionRetention(d) == d \in 10 * Minute .. 7 * Day
ValidFilter(f) == FilterLength[f] <= 256
ValidDeadLetterPolicy(p) == p.attempts \in 5 .. 100
ValidRetryPolicy(p) == p.min \in 0 .. 600 /\ p.max \in 0 .. 600 /\ p.min <= p.max

\* The setter of a field takes the value; those not named take any.
Accepts(kind, f, v) ==
  /\ f \in {"topic", "sub"} => ValidName(v)
  /\ f = "labels" => ValidLabels(v)
  /\ f = "ack" => ValidAckDeadline(v)
  /\ f = "retention" /\ kind = "topic" => ValidTopicRetention(v)
  /\ f = "retention" /\ kind = "subscription" => ValidSubscriptionRetention(v)
  /\ f = "filter" => ValidFilter(v)
  /\ f = "deadLetter" => ValidDeadLetterPolicy(v)
  /\ f = "retry" => ValidRetryPolicy(v)

-----------------------------------------------------------------------------
(* From requests to entities.  `value` is the message of a request.        *)

\* What an entity holds in the fields that a creation leaves out.
Default ==
  [topic        |-> [retention |-> 0],
   subscription |-> [retention |-> 7 * Day, deadLetter |-> Unset,
                     retry |-> Unset, push |-> Unset],
   snapshot     |-> [f \in {} |-> Unset]]

\* A back-off that is left out is zero.
Backoffs(p) == [min |-> IF p.min = Unset THEN 0 ELSE p.min,
                max |-> IF p.max = Unset THEN 0 ELSE p.max]

Given(f, v) == IF f = "retry" THEN Backoffs(v) ELSE v

\* ProtoToTopic, ProtoToSubscription and Apply: a field of the new entity.
\* An ack deadline that is not positive counts as left out.
Created(kind, f, v) ==
  CASE f = "ack" /\ v <= 0   -> 10
    [] f # "ack" /\ v = Unset -> Default[kind][f]
    [] OTHER                 -> Given(f, v)

\* The setters run for what the request gives, and for defaults that are no
\* nil and no zero.
Skipped(kind, f) ==
  CASE f \in {"deadLetter", "retry", "push"} -> {Unset}
    [] f = "retention" /\ kind = "topic"     -> {0}
    [] OTHER                                 -> {}

Creatable(kind, value) ==
  \A f \in DOMAIN value :
    \/ f \in DOMAIN Default[kind] /\ value[f] = Unset
    \/ Accepts(kind, f, Created(kind, f, value[f]))

Entity(kind, value) == [f \in DOMAIN value |-> Created(kind, f, value[f])]

\* The paths an update mask may name; it passes over all others.
Updatable ==
  [topic        |-> {"labels", "retention"},
   subscription |-> {"ack", "labels", "retention", "retainAcked", "push",
                     "deadLetter", "retry"},
   snapshot     |-> {"labels", "expire"}]

\* The fields an update sets: those of its mask, without what is nil.
Named(kind, mask, value) ==
  {f \in mask \cap Updatable[kind] : f # "ack" => value[f] # Unset}

Rejects(kind, mask, value) ==
  \E f \in Named(kind, mask, value) : ~Accepts(kind, f, Given(f, value[f]))

Updated(kind, mask, value, entity) ==
  [f \in DOMAIN entity |->
     IF f \in Named(kind, mask, value) THEN Given(f, value[f]) ELSE entity[f]]

\* ModelToEntity of each kind.
Readable(kind, name, model) ==
  /\ ValidName(name)
  /\ \A f \in DOMAIN model :
       model[f] \in Skipped(kind, f) \/ Accepts(kind, f, model[f])
=============================================================================
