------------------------------ MODULE Resources ------------------------------
(***************************************************************************)
(* The resources of the server and all that writes them: Apply, which      *)
(* creates what the init configuration lists before the server listens,    *)
(* and then the handlers that create, update, detach and delete topics,    *)
(* subscriptions and snapshots.  Requests run at the same time; a step is  *)
(* one access of a sync.Map with the work on local copies around it.       *)
(*                                                                         *)
(* A subscription's queue and dispatcher, which creation and deletion also *)
(* touch, are SubscriptionLifecycle's; a snapshot's list of messages is    *)
(* Snapshots'.                                                             *)
(***************************************************************************)
EXTENDS Entities, FilterLanguage

CONSTANTS
  Request,  \* the requests that clients send, each once
  Plan      \* init configurations, and what each of the requests asks

Fields ==
  [topic        |-> {"labels", "retention"},
   subscription |-> {"topic", "labels", "ack", "retention", "retainAcked",
                     "filter", "deadLetter", "retry", "push"},
   snapshot     |-> {"sub", "topic", "labels", "expire"}]

\* A request and an entry of a configuration are messages of their kinds: a
\* snapshot gets its other fields from its subscription.  A configuration
\* lists a topic before its subscriptions.
ASSUME ResourcesAssumption ==
  \A p \in Plan :
    /\ Len(p.config) \in Nat /\ DOMAIN p.config = 1 .. Len(p.config)
    /\ \A i \in DOMAIN p.config :
         /\ p.config[i].kind \in {"topic", "subscription"}
         /\ p.config[i].name \in DOMAIN Shape
         /\ DOMAIN p.config[i].value = Fields[p.config[i].kind]
         /\ p.config[i].kind = "subscription" =>
              \E j \in 1 .. i - 1 : /\ p.config[j].kind = "topic"
                                    /\ p.config[j].name = p.config[i].value.topic
    /\ \A r \in Request :
         LET q == p.asked[r]
         IN /\ q.op \in {"create", "update", "detach", "push", "delete"}
            /\ q.kind \in Kind
            /\ q.name \in DOMAIN Shape
            /\ q.op = "create" =>
                 DOMAIN q.value = Fields[q.kind]
                                    \ (IF q.kind = "snapshot" THEN {"topic", "expire"} ELSE {})
            /\ q.op \in {"detach", "push"} => q.kind = "subscription"

VARIABLES
  config,  \* the configuration of this server
  asked,   \* what each request asks
  phase,   \* "starting", "serving" or "exited"
  next,    \* the entry of the configuration that Apply is at
  stored,  \* the maps Topics, Subscriptions and Snapshots of memory.State
  pc,      \* where each request is
  copy,    \* the entity that each request has in hand
  answer,  \* the code each request was answered with
  crowded  \* history: the requests that met another of the same name

vars == <<config, asked, phase, next, stored, pc, copy, answer, crowded>>

Names == DOMAIN Shape
None == [no |-> "entity"]
Codes == {"OK", "InvalidArgument", "NotFound", "AlreadyExists", "Internal"}

Init ==
  /\ \E p \in Plan : config = p.config /\ asked = p.asked
  /\ phase = "starting"
  /\ next = 1
  /\ stored = [k \in Kind |-> <<>>]
  /\ pc = [r \in Request |-> "asked"]
  /\ copy = [r \in Request |-> None]
  /\ answer = [r \in Request |-> "none"]
  /\ crowded = {}

Extended(f, more) ==
  [x \in DOMAIN f \cup DOMAIN more |-> IF x \in DOMAIN more THEN more[x] ELSE f[x]]
Without(f, x) == [y \in DOMAIN f \ {x} |-> f[y]]

With(f, x, y) == Extended(f, [z \in {x} |-> y])

Put(kind, name, model) == stored' = [stored EXCEPT ![kind] = With(@, name, model)]
Has(kind, name) == name \in DOMAIN stored[kind]

-----------------------------------------------------------------------------
(* Apply, one entry at a time.                                             *)

Settable(e) == ValidName(e.name) /\ Creatable(e.kind, e.value)

\* Mutant: an entry that is not valid is left out.
ApplySkipping ==
  /\ phase = "starting"
  /\ next \in DOMAIN config
  /\ next' = next + 1
  /\ LET e == config[next]
     IN IF Settable(e) /\ ~Has(e.kind, e.name)
        THEN Put(e.kind, e.name, Entity(e.kind, e.value))
        ELSE UNCHANGED stored
  /\ UNCHANGED <<config, asked, phase, pc, copy, answer, crowded>>

\* The process exits at the first entry that is not valid; one that exists
\* already is passed over.
Apply ==
  /\ phase = "starting"
  /\ next \in DOMAIN config
  /\ LET e == config[next]
     IN IF Settable(e)
        THEN /\ next' = next + 1
             /\ IF Has(e.kind, e.name) THEN UNCHANGED stored
                ELSE Put(e.kind, e.name, Entity(e.kind, e.value))
             /\ UNCHANGED phase
        ELSE phase' = "exited" /\ UNCHANGED <<next, stored>>
  /\ UNCHANGED <<config, asked, pc, copy, answer, crowded>>

Listen ==
  /\ phase = "starting"
  /\ next \notin DOMAIN config
  /\ phase' = "serving"
  /\ UNCHANGED <<config, asked, next, stored, pc, copy, answer, crowded>>

-----------------------------------------------------------------------------
(* Requests.                                                               *)

\* The requests under way that r meets.
Others(r) ==
  {s \in Request \ {r} : /\ pc[s] \notin {"asked", "done"}
                         /\ asked[s].kind = asked[r].kind
                         /\ asked[s].name = asked[r].name}

Go(r, to, entity) ==
  /\ crowded' = crowded \cup Others(r) \cup (IF Others(r) = {} THEN {} ELSE {r})
  /\ pc' = [pc EXCEPT ![r] = to]
  /\ copy' = [copy EXCEPT ![r] = entity]
  /\ UNCHANGED <<config, asked, phase, next, answer>>

Reply(r, code) ==
  /\ pc' = [pc EXCEPT ![r] = "done"]
  /\ copy' = [copy EXCEPT ![r] = None]
  /\ answer' = [answer EXCEPT ![r] = code]
  /\ UNCHANGED <<config, asked, phase, next, crowded>>

At(r, place) == phase = "serving" /\ pc[r] = place

\* The outcome of GetTopic and GetSubscription.
Get(kind, name) ==
  CASE ~Has(kind, name) -> "NotFound"
    [] Has(kind, name) /\ ~Readable(kind, name, stored[kind][name]) -> "Internal"
    [] OTHER -> "OK"

\* Mutant: SetTopicName is left out.
ForAWeek(entity, sub) == Extended(entity, [expire |-> 7 * Day])

\* A snapshot takes its topic from the subscription and expires in a week.
SnapshotOf(entity, sub) ==
  Extended(entity, [topic |-> sub.topic, expire |-> 7 * Day])

\* What a new entity is for.
Parent(q) ==
  CASE q.kind = "subscription" -> [kind |-> "topic", name |-> q.value.topic]
    [] q.kind = "snapshot"     -> [kind |-> "subscription", name |-> q.value.sub]

\* A creation converts its request and looks up what the new entity is for.
Prepare(r) ==
  LET q == asked[r]
      e == Entity(q.kind, q.value)
      from == Parent(q)
      code == IF q.kind = "topic" THEN "OK" ELSE Get(from.kind, from.name)
  IN /\ At(r, "asked")
     /\ q.op = "create"
     /\ CASE ~Settable(q) -> Reply(r, "InvalidArgument")
          [] Settable(q) /\ code # "OK" -> Reply(r, code)
          [] OTHER -> Go(r, "prepared",
                         IF q.kind = "snapshot"
                         THEN SnapshotOf(e, stored[from.kind][from.name]) ELSE e)
     /\ UNCHANGED stored

\* LoadOrStore.
Insert(r) ==
  LET q == asked[r]
  IN /\ At(r, "prepared")
     /\ IF Has(q.kind, q.name)
        THEN Reply(r, "AlreadyExists") /\ UNCHANGED stored
        ELSE Reply(r, "OK") /\ Put(q.kind, q.name, copy[r])

\* What detach and modify-push-config change, and an update with its mask.
Change(q, entity) ==
  CASE q.op = "detach" -> [entity EXCEPT !.topic = DeletedTopic]
    [] q.op = "push"   -> [entity EXCEPT !.push = q.value.push]
    [] q.op = "update" -> Updated(q.kind, q.mask, q.value, entity)

\* Mutant: an update that is rejected leaves behind what it has set so far.
LoadAndSet(r) ==
  LET q == asked[r]
      model == stored[q.kind][q.name]
  IN /\ At(r, "asked")
     /\ q.op \in {"update", "detach", "push"}
     /\ Get(q.kind, q.name) = "OK"
     /\ IF q.op = "update" /\ Rejects(q.kind, q.mask, q.value)
        THEN /\ Reply(r, "InvalidArgument")
             /\ Put(q.kind, q.name,
                  [f \in DOMAIN model |->
                     IF Rejects(q.kind, {f}, q.value) THEN model[f]
                     ELSE Change(q, model)[f]])
        ELSE Go(r, "changed", Change(q, model)) /\ UNCHANGED stored

\* An update reads the model and works on a copy; a path that is rejected
\* ends it.
Load(r) ==
  LET q == asked[r]
      code == Get(q.kind, q.name)
  IN /\ At(r, "asked")
     /\ q.op \in {"update", "detach", "push"}
     /\ CASE code # "OK" -> Reply(r, code)
          [] code = "OK" /\ q.op = "update" /\ Rejects(q.kind, q.mask, q.value) ->
               Reply(r, "InvalidArgument")
          [] OTHER -> Go(r, "changed", Change(q, stored[q.kind][q.name]))
     /\ UNCHANGED stored

\* The repository looks whether the name is there before it stores or
\* deletes, in two accesses.
Check(r) ==
  LET q == asked[r]
  IN /\ \/ At(r, "changed")
        \/ At(r, "asked") /\ q.op = "delete"
     /\ IF Has(q.kind, q.name) THEN Go(r, "checked", copy[r])
        ELSE Reply(r, "NotFound")
     /\ UNCHANGED stored

Store(r) ==
  LET q == asked[r]
  IN /\ At(r, "checked")
     /\ q.op # "delete"
     /\ Put(q.kind, q.name, copy[r])
     /\ Reply(r, "OK")

Delete(r) ==
  LET q == asked[r]
  IN /\ At(r, "checked")
     /\ q.op = "delete"
     /\ stored' = [stored EXCEPT ![q.kind] = Without(@, q.name)]
     /\ Reply(r, "OK")

Next ==
  \/ Apply \/ Listen
  \/ \E r \in Request :
       \/ Prepare(r) \/ Insert(r)
       \/ Load(r) \/ Check(r) \/ Store(r)
       \/ Delete(r)

Spec == Init /\ [][Next]_vars

-----------------------------------------------------------------------------
\* The maps hold entities of their kinds under valid names; a request has
\* one in hand from the read on and an answer at the end.
TypeOK ==
  /\ phase \in {"starting", "serving", "exited"}
  /\ next \in 1 .. Len(config) + 1
  /\ DOMAIN stored = Kind
  /\ \A k \in Kind : \A n \in DOMAIN stored[k] :
       n \in Names /\ DOMAIN stored[k][n] = Fields[k]
  /\ pc \in [Request -> {"asked", "prepared", "changed", "checked", "done"}]
  /\ \A r \in Request :
       /\ answer[r] \in (IF pc[r] = "done" THEN Codes ELSE {"none"})
       /\ pc[r] \in {"prepared", "changed"} => DOMAIN copy[r] = Fields[asked[r].kind]

\* Whatever creations, updates, detachments and the init configuration have
\* stored can be read back: no field fails its setter in ModelToEntity.  One
\* model that cannot be read is more than one lost resource: it makes
\* ListSubscriptionsByTopic fail, and with it every Publish to the topic.
StoredIsReadable ==
  \A k \in Kind : \A n \in DOMAIN stored[k] : Readable(k, n, stored[k][n])

\* What one request does to the maps when nothing else runs.
Alone(maps, q) ==
  LET there == q.name \in DOMAIN maps[q.kind]
      Set(e) == [maps EXCEPT ![q.kind] = With(@, q.name, e)]
      sub == maps["subscription"]
  IN CASE q.op = "create" /\ there -> maps
       [] q.op = "create" /\ ~there /\ q.kind # "snapshot" -> Set(Entity(q.kind, q.value))
       [] q.op = "create" /\ ~there /\ q.kind = "snapshot" ->
            IF q.value.sub \in DOMAIN sub
            THEN Set(SnapshotOf(Entity(q.kind, q.value), sub[q.value.sub]))
            ELSE maps
       [] q.op = "delete" -> [maps EXCEPT ![q.kind] = Without(@, q.name)]
       [] OTHER -> IF there THEN Set(Change(q, maps[q.kind][q.name])) ELSE maps

\* The maps when the server began to listen.
Configured ==
  FoldLeft(Alone, [k \in Kind |-> <<>>],
           [i \in DOMAIN config |-> [op |-> "create", kind |-> config[i].kind,
                                     name |-> config[i].name, value |-> config[i].value]])

\* The maps after requests that ran one after the other.
After(maps, order) == FoldLeft(Alone, maps, [i \in DOMAIN order |-> asked[order[i]]])

\* Each map is as if some of the requests that were answered with OK had run
\* one after the other, among them every one that met no other request of its
\* name.  So a request that is answered with an error leaves no trace, at
\* whatever path of its mask it failed; no entity is a blend of two updates
\* that neither of them wrote; and an update is lost, or a deletion undone, to
\* requests that overlap it and to no others.  (Of each map, not of all: a
\* snapshot may have been taken from a subscription as a lost update had it.)
SomeInSomeOrder ==
  phase = "serving" =>
    LET ok == {r \in Request : answer[r] = "OK"}
    IN \A k \in Kind : \E some \in SUBSET ok : \E order \in SetToSeqs(some) :
         ok \ crowded \subseteq some /\ stored[k] = After(Configured, order)[k]

\* A filter that a subscription has lets pass what its text means: the parser
\* evaluates while it parses, and what it passes over it must still consume.
FilterMeans ==
  \A n \in DOMAIN stored["subscription"] :
    LET s == stored["subscription"][n].filter
    IN s \in Seq(STRING) =>
         \A a \in Attributes : \A v \in Meanings(s, a) : Matches(s, a) = v

\* The server listens once every topic and subscription of its configuration
\* is there as its first entry describes it, and exits before only if an
\* entry is not valid: no client meets a server that is half set up.
ServesWhatIsConfigured ==
  [][phase' # phase =>
       IF phase' = "serving"
       THEN \A i \in DOMAIN config :
              LET e == config[i]
                  Same(j) == config[j].kind = e.kind /\ config[j].name = e.name
              IN /\ Has(e.kind, e.name)
                 /\ (\A j \in 1 .. i - 1 : ~Same(j)) =>
                      stored[e.kind][e.name] = Entity(e.kind, e.value)
       ELSE \E i \in DOMAIN config : ~Settable(config[i])]_vars

=============================================================================
