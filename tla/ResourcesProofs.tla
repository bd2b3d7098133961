--------------------------- MODULE ResourcesProofs ---------------------------
(***************************************************************************)
(* Theorems about Resources for every value of its constants.              *)
(***************************************************************************)
EXTENDS Resources, FilterLanguageProofs, FiniteSetTheorems

\* An entity of a kind that can be stored under a name and read again.
Sound(kind, name, e) == DOMAIN e = Fields[kind] /\ Readable(kind, name, e)

-----------------------------------------------------------------------------
(* Entities: what each way to make one leaves in its fields.               *)

\* A field that a creation leaves out gets a default that its setter takes
\* or that the reading of the model passes over.
LEMMA DefaultsAreReadable ==
  ASSUME NEW kind \in Kind, NEW f \in DOMAIN Default[kind]
  PROVE  /\ f # "ack"
         /\ \/ Default[kind][f] \in Skipped(kind, f)
            \/ Accepts(kind, f, Default[kind][f])
<1>1. CASE kind = "topic"
  BY <1>1 DEF Default, Skipped
<1>2. CASE kind = "subscription"
  <2>1. f \in {"retention", "deadLetter", "retry", "push"}
    BY <1>2 DEF Default
  <2>2. CASE f = "retention"
    <3>1. Default[kind][f] = 7 * Day
      BY <1>2, <2>2 DEF Default
    <3>2. ValidSubscriptionRetention(7 * Day)
      <4>1. Minute \in Nat /\ Day \in Nat
        BY DEF Minute, Day
      <4>2. 10 * Minute <= 7 * Day
        BY DEF Minute, Day
      <4> QED  BY <4>1, <4>2 DEF ValidSubscriptionRetention
    <3> QED  BY <1>2, <2>2, <3>1, <3>2 DEF Accepts
  <2>3. CASE f \in {"deadLetter", "retry", "push"}
    BY <1>2, <2>3 DEF Default, Skipped
  <2> QED  BY <2>1, <2>2, <2>3
<1>3. CASE kind = "snapshot"
  BY <1>3 DEF Default
<1> QED  BY <1>1, <1>2, <1>3 DEF Kind

\* What a creation or the configuration makes of a message that passes the
\* setters can be read back.
LEMMA CreatedIsReadable ==
  ASSUME NEW kind \in Kind, NEW name, NEW value,
         ValidName(name), Creatable(kind, value)
  PROVE  /\ DOMAIN Entity(kind, value) = DOMAIN value
         /\ Readable(kind, name, Entity(kind, value))
<1> DEFINE e == Entity(kind, value)
<1>1. DOMAIN e = DOMAIN value
  BY DEF Entity
<1>2. ASSUME NEW f \in DOMAIN value
      PROVE  e[f] \in Skipped(kind, f) \/ Accepts(kind, f, e[f])
  <2>1. e[f] = Created(kind, f, value[f])
    BY DEF Entity
  <2>2. CASE f \in DOMAIN Default[kind] /\ value[f] = Unset
    <3>1. e[f] = Default[kind][f]
      BY <2>1, <2>2, DefaultsAreReadable DEF Created
    <3> QED  BY <2>2, <3>1, DefaultsAreReadable
  <2>3. CASE Accepts(kind, f, Created(kind, f, value[f]))
    BY <2>1, <2>3
  <2> QED  BY <2>2, <2>3 DEF Creatable
<1> QED  BY <1>1, <1>2 DEF Readable

\* A snapshot takes its topic from a subscription that could be read.
LEMMA SnapshotIsReadable ==
  ASSUME NEW name, NEW n, NEW e, NEW sub,
         DOMAIN e = {"sub", "labels"}, Readable("snapshot", name, e),
         Sound("subscription", n, sub)
  PROVE  Sound("snapshot", name, SnapshotOf(e, sub))
<1> DEFINE s == SnapshotOf(e, sub)
<1>1. /\ DOMAIN s = {"sub", "labels", "topic", "expire"}
      /\ s["topic"] = sub.topic
      /\ \A f \in {"sub", "labels"} : s[f] = e[f]
  BY DEF SnapshotOf, Extended
<1>2. ValidName(sub.topic)
  <2>1. "topic" \in DOMAIN sub
    BY DEF Sound, Fields
  <2>2. Skipped("subscription", "topic") = {}
    BY DEF Skipped
  <2> QED  BY <2>1, <2>2 DEF Sound, Readable, Accepts
<1>3. ASSUME NEW f \in DOMAIN s
      PROVE  s[f] \in Skipped("snapshot", f) \/ Accepts("snapshot", f, s[f])
  <2>1. CASE f = "topic"
    BY <1>1, <1>2, <2>1 DEF Accepts
  <2>2. CASE f = "expire"
    BY <2>2 DEF Accepts
  <2>3. CASE f \in {"sub", "labels"}
    BY <1>1, <2>3 DEF Readable
  <2> QED  BY <1>1, <2>1, <2>2, <2>3
<1> QED  BY <1>1, <1>3 DEF Sound, Readable, Fields

\* The marker of a detached subscription passes for the name of a topic.
LEMMA MarkerIsValid == ValidName(DeletedTopic)
BY EntitiesAssumption DEF ValidName

\* An update whose paths all pass, a detach and a change of the push
\* configuration keep an entity readable.
LEMMA ChangeIsReadable ==
  ASSUME NEW q, NEW e,
         q.op \in {"update", "detach", "push"},
         q.op \in {"detach", "push"} => q.kind = "subscription",
         ~(q.op = "update" /\ Rejects(q.kind, q.mask, q.value)),
         Sound(q.kind, q.name, e)
  PROVE  Sound(q.kind, q.name, Change(q, e))
<1> DEFINE c == Change(q, e)
           Fine(f, v) == v \in Skipped(q.kind, f) \/ Accepts(q.kind, f, v)
<1>1. \A f \in DOMAIN e : Fine(f, e[f])
  BY DEF Sound, Readable
<1>2. CASE q.op = "detach"
  <2>1. c = [e EXCEPT !.topic = DeletedTopic]
    BY <1>2 DEF Change
  <2>2. Fine("topic", DeletedTopic)
    BY MarkerIsValid DEF Accepts
  <2> QED  BY <1>1, <2>1, <2>2 DEF Sound, Readable
<1>3. CASE q.op = "push"
  <2>1. c = [e EXCEPT !.push = q.value.push]
    BY <1>3 DEF Change
  <2>2. Fine("push", q.value.push)
    BY DEF Accepts
  <2> QED  BY <1>1, <2>1, <2>2 DEF Sound, Readable
<1>4. CASE q.op = "update"
  <2>1. /\ DOMAIN c = DOMAIN e
        /\ \A f \in DOMAIN e :
             c[f] = IF f \in Named(q.kind, q.mask, q.value)
                    THEN Given(f, q.value[f]) ELSE e[f]
    BY <1>4 DEF Change, Updated
  <2>2. \A f \in Named(q.kind, q.mask, q.value) : Fine(f, Given(f, q.value[f]))
    BY <1>4 DEF Rejects
  <2> QED  BY <1>1, <2>1, <2>2 DEF Sound, Readable
<1> QED  BY <1>2, <1>3, <1>4

-----------------------------------------------------------------------------
(* The inductive invariant: each map holds sound entities, and so do the   *)
(* hands of the requests that are about to store one.                      *)

Planned == \E p \in Plan : config = p.config /\ asked = p.asked

StoredIsSound ==
  /\ DOMAIN stored = Kind
  /\ \A k \in Kind : \A n \in DOMAIN stored[k] : n \in Names /\ Sound(k, n, stored[k][n])

\* Of one request: it has an entity in hand when it is about to look up its
\* name for the last time, or has done so, unless it is a deletion.
InHand(r, place, entity) ==
  \/ place \in {"asked", "done"}
  \/ place = "checked" /\ asked[r].op = "delete"
  \/ /\ place \in {"prepared", "changed", "checked"}
     /\ asked[r].op # "delete"
     /\ Sound(asked[r].kind, asked[r].name, entity)

RequestsAreSound ==
  /\ pc \in [Request -> {"asked", "prepared", "changed", "checked", "done"}]
  /\ DOMAIN copy = Request /\ DOMAIN answer = Request
  /\ \A r \in Request :
       /\ InHand(r, pc[r], copy[r])
       /\ answer[r] \in (IF pc[r] = "done" THEN Codes ELSE {"none"})

StartIsSound ==
  /\ phase \in {"starting", "serving", "exited"}
  /\ next \in 1 .. Len(config) + 1

IInv == Planned /\ StoredIsSound /\ RequestsAreSound /\ StartIsSound

\* What a plan asks of the requests and lists in its configuration.
LEMMA PlanIsSound ==
  ASSUME Planned
  PROVE  /\ Len(config) \in Nat /\ DOMAIN config = 1 .. Len(config)
         /\ \A i \in DOMAIN config :
              /\ config[i].kind \in {"topic", "subscription"}
              /\ config[i].name \in Names
              /\ DOMAIN config[i].value = Fields[config[i].kind]
         /\ \A r \in Request :
              /\ asked[r].op \in {"create", "update", "detach", "push", "delete"}
              /\ asked[r].kind \in Kind
              /\ asked[r].name \in Names
              /\ asked[r].op = "create" =>
                   DOMAIN asked[r].value =
                     Fields[asked[r].kind]
                       \ (IF asked[r].kind = "snapshot" THEN {"topic", "expire"} ELSE {})
              /\ asked[r].op \in {"detach", "push"} => asked[r].kind = "subscription"
<1>1. PICK p \in Plan : config = p.config /\ asked = p.asked
  BY DEF Planned
<1> QED  BY <1>1, ResourcesAssumption DEF Names

\* A sound entity that is put into its map leaves all maps sound.
LEMMA PutIsSound ==
  ASSUME StoredIsSound,
         NEW kind \in Kind, NEW name \in Names, NEW e, Sound(kind, name, e),
         Put(kind, name, e)
  PROVE  StoredIsSound'
<1>1. /\ DOMAIN stored' = Kind
      /\ \A k \in Kind \ {kind} : stored'[k] = stored[k]
      /\ stored'[kind] = With(stored[kind], name, e)
  BY DEF Put, StoredIsSound
<1>2. /\ DOMAIN stored'[kind] = DOMAIN stored[kind] \cup {name}
      /\ stored'[kind][name] = e
      /\ \A n \in DOMAIN stored[kind] \ {name} : stored'[kind][n] = stored[kind][n]
  BY <1>1 DEF With, Extended
<1>3. ASSUME NEW k \in Kind, NEW n \in DOMAIN stored'[k]
      PROVE  n \in Names /\ Sound(k, n, stored'[k][n])
  <2>1. CASE k = kind /\ n = name
    BY <1>2, <2>1
  <2>2. CASE k = kind /\ n # name
    BY <1>2, <2>2 DEF StoredIsSound
  <2>3. CASE k # kind
    BY <1>1, <2>3 DEF StoredIsSound
  <2> QED  BY <2>1, <2>2, <2>3
<1> QED  BY <1>1, <1>3 DEF StoredIsSound, Sound, Readable

\* An answer ends a request.
LEMMA ReplyIsSound ==
  ASSUME IInv, NEW r \in Request, NEW code \in Codes, Reply(r, code)
  PROVE  Planned' /\ RequestsAreSound' /\ StartIsSound'
<1>1. ASSUME NEW s \in Request
      PROVE  /\ InHand(s, pc[s], copy[s])'
             /\ answer'[s] \in (IF pc'[s] = "done" THEN Codes ELSE {"none"})
  <2>1. CASE s = r
    BY <2>1 DEF IInv, RequestsAreSound, Reply, InHand
  <2>2. CASE s # r
    BY <2>2 DEF IInv, RequestsAreSound, Reply, InHand, Sound, Readable
  <2> QED  BY <2>1, <2>2
<1> QED  BY <1>1 DEF IInv, Planned, RequestsAreSound, StartIsSound, Reply

\* A request that goes on has in hand what its next place wants.
LEMMA GoIsSound ==
  ASSUME IInv, NEW r \in Request, pc[r] # "done",
         NEW to \in {"prepared", "changed", "checked"}, NEW entity,
         InHand(r, to, entity), Go(r, to, entity)
  PROVE  Planned' /\ RequestsAreSound' /\ StartIsSound'
<1>1. ASSUME NEW s \in Request
      PROVE  /\ InHand(s, pc[s], copy[s])'
             /\ answer'[s] \in (IF pc'[s] = "done" THEN Codes ELSE {"none"})
  <2>1. CASE s = r
    BY <2>1 DEF IInv, RequestsAreSound, Go, InHand
  <2>2. CASE s # r
    BY <2>2 DEF IInv, RequestsAreSound, Go, InHand
  <2> QED  BY <2>1, <2>2
<1> QED  BY <1>1 DEF IInv, Planned, RequestsAreSound, StartIsSound, Go

-----------------------------------------------------------------------------
(* The steps.                                                              *)

LEMMA InitIsSound == ASSUME Init PROVE IInv
<1>1. Planned
  BY DEF Init, Planned
<1>2. StoredIsSound
  BY DEF Init, StoredIsSound, Kind
<1>3. RequestsAreSound
  BY DEF Init, RequestsAreSound, InHand
<1>4. StartIsSound
  BY <1>1, PlanIsSound DEF Init, StartIsSound
<1> QED  BY <1>1, <1>2, <1>3, <1>4 DEF IInv

LEMMA ApplyIsSound == ASSUME IInv, Apply PROVE IInv'
<1> DEFINE e == config[next]
<1>1. /\ next \in DOMAIN config /\ next \in 1 .. Len(config)
      /\ Len(config) \in Nat
      /\ e.kind \in Kind /\ e.name \in Names
      /\ DOMAIN e.value = Fields[e.kind]
  BY PlanIsSound DEF Apply, IInv, Kind
<1>2. Planned' /\ RequestsAreSound'
  BY DEF Apply, IInv, Planned, RequestsAreSound, InHand, Sound, Readable
<1>3. StartIsSound'
  BY <1>1 DEF Apply, IInv, StartIsSound
<1>4. StoredIsSound'
  <2>1. CASE UNCHANGED stored
    BY <2>1 DEF IInv, StoredIsSound, Sound, Readable
  <2>2. CASE Settable(e) /\ Put(e.kind, e.name, Entity(e.kind, e.value))
    <3>1. Sound(e.kind, e.name, Entity(e.kind, e.value))
      BY <1>1, <2>2, CreatedIsReadable DEF Settable, Sound
    <3> QED  BY <1>1, <2>2, <3>1, PutIsSound DEF IInv
  <2> QED  BY <2>1, <2>2 DEF Apply
<1> QED  BY <1>2, <1>3, <1>4 DEF IInv

LEMMA ListenIsSound == ASSUME IInv, Listen PROVE IInv'
BY DEF Listen, IInv, Planned, StoredIsSound, RequestsAreSound, InHand, StartIsSound,
       Sound, Readable

LEMMA PrepareIsSound ==
  ASSUME IInv, NEW r \in Request, Prepare(r)
  PROVE  IInv'
<1> DEFINE q == asked[r]
           e == Entity(q.kind, q.value)
           from == Parent(q)
           code == IF q.kind = "topic" THEN "OK" ELSE Get(from.kind, from.name)
<1>1. /\ q.op = "create" /\ q.kind \in Kind
      /\ DOMAIN q.value =
           Fields[q.kind] \ (IF q.kind = "snapshot" THEN {"topic", "expire"} ELSE {})
      /\ pc[r] # "done"
  BY PlanIsSound DEF Prepare, At, IInv
<1>2. StoredIsSound'
  BY DEF Prepare, IInv, StoredIsSound, Sound, Readable
<1>3. CASE ~Settable(q) /\ Reply(r, "InvalidArgument")
  BY <1>2, <1>3, ReplyIsSound DEF IInv, Codes
<1>4. CASE code # "OK" /\ Reply(r, code)
  <2>1. code \in Codes
    BY DEF Get, Codes
  <2> QED  BY <1>2, <1>4, <2>1, ReplyIsSound DEF IInv
<1>5. CASE /\ Settable(q) /\ code = "OK"
           /\ Go(r, "prepared",
                 IF q.kind = "snapshot"
                 THEN SnapshotOf(e, stored[from.kind][from.name]) ELSE e)
  <2>1. DOMAIN e = DOMAIN q.value /\ Readable(q.kind, q.name, e)
    BY <1>1, <1>5, CreatedIsReadable DEF Settable
  <2>2. CASE q.kind # "snapshot"
    <3>1. InHand(r, "prepared", e)
      BY <1>1, <2>1, <2>2 DEF InHand, Sound
    <3> QED  BY <1>1, <1>2, <1>5, <2>2, <3>1, GoIsSound DEF IInv
  <2>3. CASE q.kind = "snapshot"
    <3>1. from.kind = "subscription" /\ Get(from.kind, from.name) = "OK"
      BY <1>5, <2>3 DEF Parent
    <3>2. from.name \in DOMAIN stored["subscription"]
      BY <3>1 DEF Get, Has
    <3>3. Sound("subscription", from.name, stored["subscription"][from.name])
      BY <3>2 DEF IInv, StoredIsSound, Kind
    <3>4. DOMAIN e = {"sub", "labels"}
      BY <1>1, <2>1, <2>3 DEF Fields
    <3>5. Sound("snapshot", q.name, SnapshotOf(e, stored["subscription"][from.name]))
      BY <2>1, <2>3, <3>3, <3>4, SnapshotIsReadable
    <3>6. InHand(r, "prepared", SnapshotOf(e, stored["subscription"][from.name]))
      BY <1>1, <2>3, <3>5 DEF InHand
    <3> QED  BY <1>1, <1>2, <1>5, <2>3, <3>1, <3>6, GoIsSound DEF IInv
  <2> QED  BY <2>2, <2>3
<1> QED  BY <1>3, <1>4, <1>5 DEF Prepare

LEMMA InsertIsSound ==
  ASSUME IInv, NEW r \in Request, Insert(r)
  PROVE  IInv'
<1> DEFINE q == asked[r]
<1>1. Sound(q.kind, q.name, copy[r])
  BY DEF Insert, At, IInv, RequestsAreSound, InHand
<1>2. q.kind \in Kind /\ q.name \in Names
  BY PlanIsSound DEF IInv
<1>3. StoredIsSound'
  <2>1. CASE UNCHANGED stored
    BY <2>1 DEF IInv, StoredIsSound, Sound, Readable
  <2>2. CASE Put(q.kind, q.name, copy[r])
    BY <1>1, <1>2, <2>2, PutIsSound DEF IInv
  <2> QED  BY <2>1, <2>2 DEF Insert
<1>4. PICK code \in Codes : Reply(r, code)
  BY DEF Insert, Codes
<1> QED  BY <1>3, <1>4, ReplyIsSound DEF IInv

LEMMA LoadIsSound ==
  ASSUME IInv, NEW r \in Request, Load(r)
  PROVE  IInv'
<1> DEFINE q == asked[r]
           code == Get(q.kind, q.name)
           model == stored[q.kind][q.name]
<1>1. /\ q.op \in {"update", "detach", "push"} /\ pc[r] # "done"
      /\ q.kind \in Kind
      /\ q.op \in {"detach", "push"} => q.kind = "subscription"
  BY PlanIsSound DEF Load, At, IInv
<1>2. StoredIsSound'
  BY DEF Load, IInv, StoredIsSound, Sound, Readable
<1>3. CASE code # "OK" /\ Reply(r, code)
  <2>1. code \in Codes
    BY DEF Get, Codes
  <2> QED  BY <1>2, <1>3, <2>1, ReplyIsSound DEF IInv
<1>4. CASE Reply(r, "InvalidArgument")
  BY <1>2, <1>4, ReplyIsSound DEF IInv, Codes
<1>5. CASE /\ code = "OK" /\ ~(q.op = "update" /\ Rejects(q.kind, q.mask, q.value))
           /\ Go(r, "changed", Change(q, model))
  <2>1. Sound(q.kind, q.name, model)
    BY <1>1, <1>5 DEF Get, Has, IInv, StoredIsSound
  <2>2. Sound(q.kind, q.name, Change(q, model))
    BY <1>1, <1>5, <2>1, ChangeIsReadable
  <2>3. InHand(r, "changed", Change(q, model))
    BY <1>1, <2>2 DEF InHand
  <2> QED  BY <1>1, <1>2, <1>5, <2>3, GoIsSound DEF IInv
<1> QED  BY <1>3, <1>4, <1>5 DEF Load

LEMMA CheckIsSound ==
  ASSUME IInv, NEW r \in Request, Check(r)
  PROVE  IInv'
<1>1. StoredIsSound'
  BY DEF Check, IInv, StoredIsSound, Sound, Readable
<1>2. CASE Reply(r, "NotFound")
  BY <1>1, <1>2, ReplyIsSound DEF IInv, Codes
<1>3. CASE Go(r, "checked", copy[r])
  <2>1. InHand(r, "checked", copy[r]) /\ pc[r] # "done"
    BY DEF Check, At, IInv, RequestsAreSound, InHand
  <2> QED  BY <1>1, <1>3, <2>1, GoIsSound DEF IInv
<1> QED  BY <1>2, <1>3 DEF Check

LEMMA StoreIsSound ==
  ASSUME IInv, NEW r \in Request, Store(r)
  PROVE  IInv'
<1> DEFINE q == asked[r]
<1>1. Sound(q.kind, q.name, copy[r])
  BY DEF Store, At, IInv, RequestsAreSound, InHand
<1>2. q.kind \in Kind /\ q.name \in Names
  BY PlanIsSound DEF IInv
<1>3. StoredIsSound'
  BY <1>1, <1>2, PutIsSound DEF Store, IInv
<1> QED  BY <1>3, ReplyIsSound DEF Store, IInv, Codes

LEMMA DeleteIsSound ==
  ASSUME IInv, NEW r \in Request, Delete(r)
  PROVE  IInv'
<1> DEFINE q == asked[r]
<1>1. /\ DOMAIN stored' = Kind
      /\ \A k \in Kind : \A n \in DOMAIN stored'[k] :
           n \in DOMAIN stored[k] /\ stored'[k][n] = stored[k][n]
  BY DEF Delete, Without, IInv, StoredIsSound
<1>2. StoredIsSound'
  BY <1>1 DEF IInv, StoredIsSound, Sound, Readable
<1> QED  BY <1>2, ReplyIsSound DEF Delete, IInv, Codes

LEMMA NextIsSound == ASSUME IInv, [Next]_vars PROVE IInv'
<1>1. CASE Apply
  BY <1>1, ApplyIsSound
<1>2. CASE Listen
  BY <1>2, ListenIsSound
<1>3. ASSUME NEW r \in Request, Prepare(r) PROVE IInv'
  BY <1>3, PrepareIsSound
<1>4. ASSUME NEW r \in Request, Insert(r) PROVE IInv'
  BY <1>4, InsertIsSound
<1>5. ASSUME NEW r \in Request, Load(r) PROVE IInv'
  BY <1>5, LoadIsSound
<1>6. ASSUME NEW r \in Request, Check(r) PROVE IInv'
  BY <1>6, CheckIsSound
<1>7. ASSUME NEW r \in Request, Store(r) PROVE IInv'
  BY <1>7, StoreIsSound
<1>8. ASSUME NEW r \in Request, Delete(r) PROVE IInv'
  BY <1>8, DeleteIsSound
<1>9. CASE UNCHANGED vars
  BY <1>9 DEF vars, IInv, Planned, StoredIsSound, RequestsAreSound, InHand,
              StartIsSound, Sound, Readable
<1> QED  BY <1>1, <1>2, <1>3, <1>4, <1>5, <1>6, <1>7, <1>8, <1>9 DEF Next

LEMMA AlwaysSound == Spec => []IInv
BY InitIsSound, NextIsSound, PTL DEF Spec

-----------------------------------------------------------------------------
\* The maps hold entities of their kinds under valid names, and every request
\* has an entity of its kind in hand where the handler works on one, for any
\* plans, requests and names.
THEOREM TypeCorrect == Spec => []TypeOK
<1>1. ASSUME IInv PROVE TypeOK
  <2>1. pc \in [Request -> {"asked", "prepared", "changed", "checked", "done"}]
    BY <1>1 DEF IInv, RequestsAreSound
  <2>2. \A r \in Request :
          /\ answer[r] \in (IF pc[r] = "done" THEN Codes ELSE {"none"})
          /\ pc[r] \in {"prepared", "changed"} => DOMAIN copy[r] = Fields[asked[r].kind]
    BY <1>1 DEF IInv, RequestsAreSound, InHand, Sound
  <2>3. /\ DOMAIN stored = Kind
        /\ \A k \in Kind : \A n \in DOMAIN stored[k] :
             n \in Names /\ DOMAIN stored[k][n] = Fields[k]
    BY <1>1 DEF IInv, StoredIsSound, Sound
  <2> QED  BY <1>1, <2>1, <2>2, <2>3 DEF TypeOK, IInv, StartIsSound
<1> QED  BY <1>1, AlwaysSound, PTL

\* Whatever configurations and requests there are, and however updates,
\* detachments and deletions interleave, each setter takes what it is given
\* when a stored model is read: no resource becomes unreadable, and none can
\* make the listing of its topic's subscriptions, and so Publish, fail.
THEOREM StoredStaysReadable == Spec => []StoredIsReadable
<1>1. ASSUME IInv PROVE StoredIsReadable
  BY <1>1 DEF IInv, StoredIsSound, StoredIsReadable, Sound
<1> QED  BY <1>1, AlwaysSound, PTL

-----------------------------------------------------------------------------
(* Filters.                                                                *)

\* Whatever filters are stored, and whatever keys and values a message has:
\* the parser, which evaluates while it parses, lets the message pass exactly
\* if the grammar says so.
THEOREM FiltersMean == Spec => []FilterMeans
<1>1. FilterMeans
  BY ParserReadsGrammar DEF FilterMeans
<1> QED  BY <1>1, PTL

-----------------------------------------------------------------------------
(* What a fold of the requests of a sequence comes to.                     *)

\* The fold takes the numbers of a sequence from the largest down.
LEMMA LargestOfPrefix ==
  ASSUME NEW i \in Nat \ {0}
  PROVE  Max(1 .. i) = i /\ (1 .. i) \ {i} = 1 .. i - 1 /\ 1 .. i # {}
<1>1. \A y \in 1 .. i : i >= y
  OBVIOUS
<1>2. \A x \in 1 .. i : (\A y \in 1 .. i : x >= y) => x = i
  OBVIOUS
<1>3. i \in 1 .. i
  OBVIOUS
<1>4. Max(1 .. i) = i
  BY <1>1, <1>2, <1>3 DEF Max
<1>5. (1 .. i) \ {i} = 1 .. i - 1
  OBVIOUS
<1> QED  BY <1>3, <1>4, <1>5

LEMMA LargestIsThere ==
  ASSUME NEW n \in Nat, NEW s \in SUBSET (1 .. n), s # {}
  PROVE  Max(s) \in s
<1> DEFINE B == {b \in 0 .. n : \A y \in s : b >= y}
<1>1. n \in B /\ B \in SUBSET Nat
  OBVIOUS
<1>2. PICK b \in B : \A c \in B : b <= c
  BY <1>1, LeastNumber
<1>3. b \in s
  <2> SUFFICES ASSUME b \notin s PROVE FALSE
    OBVIOUS
  <2>1. PICK y \in s : y \in 1 .. n /\ b >= y
    BY <1>2
  <2>2. b - 1 \in 0 .. n /\ ~(b <= b - 1)
    BY <1>2, <2>1
  <2>3. ASSUME NEW z \in s PROVE b - 1 >= z
    BY <1>2
  <2> QED  BY <1>2, <2>2, <2>3
<1> QED  BY <1>2, <1>3 DEF Max

\* A sequence of requests takes maps from the first to the last of a run.
Run(g, qs, n) == \A i \in 1 .. n : g[i] = Alone(g[i - 1], qs[i])

\* The fold of a sequence is the last of a run.
LEMMA FoldHasRun ==
  ASSUME NEW n \in Nat, NEW base, NEW qs, DOMAIN qs = 1 .. n
  PROVE  \E g : g[0] = base /\ Run(g, qs, n) /\ FoldLeft(Alone, base, qs) = g[n]
<1> DEFINE D == 1 .. n
           Small(c) == {s \in SUBSET D : Cardinality(s) <= c}
           At0(it, s) == IF s = {} THEN base ELSE Alone(it[s \ {Max(s)}], qs[Max(s)])
           Fix(it, S) == it = [s \in S |-> At0(it, s)]
           iter == CHOOSE it : Fix(it, SUBSET D)
<1>1. FoldLeft(Alone, base, qs) = iter[D]
  BY DEF FoldLeft, MapThenFoldSet
<1>2. IsFiniteSet(D) /\ Cardinality(D) = n
  BY FS_Interval
<1>3. ASSUME NEW s \in SUBSET D
      PROVE  /\ IsFiniteSet(s) /\ Cardinality(s) \in Nat /\ Cardinality(s) <= n
             /\ Cardinality(s \ {Max(s)}) \in Nat
             /\ s # {} => Cardinality(s \ {Max(s)}) = Cardinality(s) - 1
  <2>1. IsFiniteSet(s) /\ Cardinality(s) \in Nat /\ Cardinality(s) <= n
    <3> HIDE DEF D
    <3> QED  BY <1>2, FS_Subset, FS_CardinalityType
  <2>2. s # {} => Max(s) \in s
    BY LargestIsThere
  <2> QED  BY <2>1, <2>2, FS_RemoveElement, FS_CardinalityType
<1> DEFINE T == {c \in Nat : \E it : Fix(it, Small(c))}
<1>4. 0 \in T
  <2>1. \A s \in Small(0) : s = {}
    <3> SUFFICES ASSUME NEW s \in SUBSET D, Cardinality(s) <= 0 PROVE s = {}
      OBVIOUS
    <3>1. Cardinality(s) \in Nat /\ IsFiniteSet(s)
      BY <1>3
    <3>2. Cardinality(s) = 0
      BY <3>1
    <3> QED  BY <3>1, <3>2, FS_EmptySet
  <2>2. Fix([s \in Small(0) |-> base], Small(0))
    BY <2>1
  <2> QED  BY <2>2
<1>5. ASSUME NEW c \in 1 .. n, c - 1 \in T PROVE c \in T
  <2>1. PICK it : Fix(it, Small(c - 1))
    BY <1>5
  <2> DEFINE more == [s \in Small(c) |-> IF s \in Small(c - 1) THEN it[s] ELSE At0(it, s)]
  <2>2. ASSUME NEW s \in Small(c) PROVE more[s] = At0(more, s)
    <3>1. s # {} => s \ {Max(s)} \in Small(c - 1) /\ s \ {Max(s)} \in Small(c)
      <4> HIDE DEF D
      <4>1. s \in SUBSET D /\ s \ {Max(s)} \in SUBSET D /\ Cardinality(s) <= c /\ c \in Nat
        OBVIOUS
      <4>2. /\ Cardinality(s) \in Nat
            /\ s # {} => Cardinality(s \ {Max(s)}) = Cardinality(s) - 1
        BY <1>3, <4>1
      <4>3. s # {} => Cardinality(s \ {Max(s)}) <= c - 1 /\ Cardinality(s \ {Max(s)}) <= c
        BY <4>1, <4>2
      <4> QED  BY <4>1, <4>3
    <3>2. s # {} => more[s \ {Max(s)}] = it[s \ {Max(s)}]
      BY <3>1
    <3>3. more[s] = At0(it, s)
      BY <2>1
    <3> QED  BY <3>2, <3>3
  <2>3. Fix(more, Small(c))
    <3> HIDE DEF At0
    <3>1. more = [s \in Small(c) |-> more[s]]
      OBVIOUS
    <3> QED  BY <2>2, <3>1
  <2>4. c \in Nat
    OBVIOUS
  <2> HIDE DEF Fix, more
  <2> QED  BY <2>3, <2>4
<1>6. n \in T
  <2> HIDE DEF T
  <2> QED  BY <1>4, <1>5, FirstFailure
<1>7. Small(n) = SUBSET D
  BY <1>3
<1>8. \E it : Fix(it, SUBSET D)
  <2> HIDE DEF Fix, Small
  <2> QED  BY <1>6, <1>7
<1>9. Fix(iter, SUBSET D)
  <2> HIDE DEF Fix
  <2> QED  BY <1>8
<1> DEFINE g == [i \in 0 .. n |-> iter[1 .. i]]
<1>10. \A s \in SUBSET D : iter[s] = At0(iter, s)
  <2> HIDE DEF At0, iter
  <2> QED  BY <1>9
<1> HIDE DEF iter
<1>11. g[0] = base
  <2>1. g[0] = iter[{}] /\ {} \in SUBSET D
    OBVIOUS
  <2> QED  BY <1>10, <2>1
<1>12. ASSUME NEW i \in 1 .. n PROVE g[i] = Alone(g[i - 1], qs[i])
  <2>1. 1 .. i \in SUBSET D /\ 1 .. i # {} /\ Max(1 .. i) = i /\ (1 .. i) \ {i} = 1 .. i - 1
    <3>1. i \in Nat \ {0} /\ 1 .. i \subseteq D
      OBVIOUS
    <3> QED  BY <3>1, LargestOfPrefix
  <2>2. g[i] = iter[1 .. i] /\ g[i - 1] = iter[1 .. i - 1]
    OBVIOUS
  <2>3. iter[1 .. i] = At0(iter, 1 .. i)
    BY <1>10, <2>1
  <2> QED  BY <2>1, <2>2, <2>3
<1>13. g[n] = FoldLeft(Alone, base, qs)
  BY <1>1
<1> HIDE DEF g
<1> QED  BY <1>11, <1>12, <1>13 DEF Run

\* A run ends where the fold does.
LEMMA RunEndsThere ==
  ASSUME NEW n \in Nat, NEW qs, DOMAIN qs = 1 .. n, NEW g, Run(g, qs, n)
  PROVE  FoldLeft(Alone, g[0], qs) = g[n]
<1>1. PICK f : f[0] = g[0] /\ Run(f, qs, n) /\ FoldLeft(Alone, g[0], qs) = f[n]
  BY FoldHasRun
<1> DEFINE T == {i \in 0 .. n : f[i] = g[i]}
<1>2. ASSUME NEW i \in 1 .. n, i - 1 \in T PROVE i \in T
  <2>1. f[i - 1] = g[i - 1] /\ i \in 0 .. n
    BY <1>2
  <2> QED  BY <1>1, <2>1 DEF Run
<1>3. n \in T
  <2> HIDE DEF T
  <2>1. 0 \in T
    BY <1>1 DEF T
  <2> QED  BY <1>2, <2>1, FirstFailure
<1> QED  BY <1>1, <1>3

-----------------------------------------------------------------------------
(* One name of one map.                                                    *)

Cell(f, n) == IF n \in DOMAIN f THEN {f[n]} ELSE {}
The(c) == CHOOSE e \in c : TRUE

\* The entity that a creation makes; t is the topic a snapshot takes.
Grown(q, t) ==
  IF q.kind = "snapshot" THEN SnapshotOf(Entity(q.kind, q.value), [topic |-> t])
  ELSE Entity(q.kind, q.value)

\* What one request makes of the cell of its name.
CellStep(q, c, t) ==
  CASE q.op = "create" -> IF c = {} THEN {Grown(q, t)} ELSE c
    [] q.op = "delete" -> {}
    [] OTHER -> IF c = {} THEN {} ELSE {Change(q, The(c))}

CellRun(w, t, from, to) ==
  \E h : /\ h[0] = from /\ h[Len(w)] = to
         /\ \A i \in 1 .. Len(w) : h[i] = CellStep(asked[w[i]], h[i - 1], t[i])

Distinct(w) == \A i, j \in 1 .. Len(w) : w[i] = w[j] => i = j

-----------------------------------------------------------------------------
(* The inductive invariant: what is stored, and what requests have in      *)
(* hand, is the work of requests that were answered with OK.               *)

Ok == {r \in Request : answer[r] = "OK"}
OkOf(k, n) == {r \in Ok : asked[r].kind = k /\ asked[r].name = n}
UnderWay(r) == pc[r] \notin {"asked", "done"}

\* There has been a subscription of this name.
EverThere(s) ==
  \/ s \in DOMAIN Configured["subscription"]
  \/ \E r \in OkOf("subscription", s) : asked[r].op = "create"

\* The topics it has had.
TopicsOf(s) ==
  {Entity(asked[r].kind, asked[r].value).topic :
     r \in {x \in OkOf("subscription", s) : asked[x].op = "create"}}
  \cup {e.topic : e \in Cell(Configured["subscription"], s)}
  \cup {DeletedTopic : r \in {x \in OkOf("subscription", s) :
                               asked[x].op = "detach" /\ EverThere(s)}}

\* The requests w, of one name, lead from the cell at the start to c.
Explains(w, t, k, n, c) ==
  /\ w \in Seq(OkOf(k, n)) /\ Distinct(w) /\ OkOf(k, n) \ crowded \subseteq Range(w)
  /\ \A i \in 1 .. Len(w) : \A s :
       k = "snapshot" /\ asked[w[i]].op = "create" /\ s = asked[w[i]].value.sub =>
         t[i] \in TopicsOf(s)
  /\ CellRun(w, t, Cell(Configured[k], n), c)
Explained(k, n, c) == \E w, t : Explains(w, t, k, n, c)

\* Requests of one name that are under way together have met.
HaveMet ==
  \A r, s \in Request :
    /\ r # s /\ UnderWay(r) /\ UnderWay(s)
    /\ asked[r].kind = asked[s].kind /\ asked[r].name = asked[s].name
    => r \in crowded /\ s \in crowded

Places ==
  \A r \in Request :
    /\ pc[r] = "prepared" => asked[r].op = "create"
    /\ pc[r] = "changed" => asked[r].op \in {"update", "detach", "push"}
    /\ pc[r] = "checked" => asked[r].op # "create"

StoredIsExplained ==
  \A k \in Kind : \A n, c : c = Cell(stored[k], n) => Explained(k, n, c)

Changing(r) == pc[r] \in {"changed", "checked"} /\ asked[r].op # "delete"

HandsAreExplained ==
  \A r \in Request :
    LET q == asked[r]
    IN /\ pc[r] = "prepared" =>
            \E x : /\ copy[r] = Grown(q, x)
                   /\ \A s : q.kind = "snapshot" /\ s = q.value.sub => x \in TopicsOf(s)
       /\ Changing(r) =>
            \E e : /\ copy[r] = Change(q, e)
                   /\ \A k, n : k = q.kind /\ n = q.name => Explained(k, n, {e})

TopicsAreKnown ==
  /\ \A s \in DOMAIN stored["subscription"] : stored["subscription"][s].topic \in TopicsOf(s)
  /\ \A r \in Request :
       Changing(r) /\ asked[r].kind = "subscription" =>
         \/ asked[r].op = "detach" /\ copy[r].topic = DeletedTopic
         \/ \A s : s = asked[r].name => copy[r].topic \in TopicsOf(s)

\* After i creations and deletions of a subscription.
Left(w, i, s) ==
  IF i = 0 THEN s \in DOMAIN Configured["subscription"] ELSE asked[w[i]].op = "create"
Lives(s) == {r \in OkOf("subscription", s) : asked[r].op \in {"create", "delete"}}

\* The creations and deletions of a subscription, as they took place: there
\* was none when one was created.
Spine(w, s) ==
  /\ w \in Seq(Lives(s)) /\ Distinct(w) /\ Lives(s) \subseteq Range(w)
  /\ \A i \in 1 .. Len(w) : asked[w[i]].op = "create" => ~Left(w, i - 1, s)
  /\ Left(w, Len(w), s) => s \in DOMAIN stored["subscription"]
Spines == \A s : \E w : Spine(w, s)

AreMaps(m) ==
  /\ m = [k \in Kind |-> m[k]]
  /\ \A k \in Kind : m[k] = [n \in DOMAIN m[k] |-> m[k][n]]

\* A configuration has no snapshots.
ConfiguredIsSound ==
  /\ AreMaps(Configured) /\ Configured["snapshot"] = <<>>
  /\ \A s \in DOMAIN Configured["subscription"] :
       "topic" \in DOMAIN Configured["subscription"][s]

Serving ==
  /\ HaveMet /\ StoredIsExplained /\ HandsAreExplained /\ TopicsAreKnown /\ Spines
  /\ ConfiguredIsSound

Entries ==
  [i \in DOMAIN config |-> [op |-> "create", kind |-> config[i].kind,
                            name |-> config[i].name, value |-> config[i].value]]

\* Apply is on its way to what is configured, and no request has begun.
Starting ==
  /\ \A r \in Request : pc[r] = "asked"
  /\ stored["snapshot"] = <<>>
  /\ \E g : g[0] = [k \in Kind |-> <<>>] /\ Run(g, Entries, next - 1) /\ g[next - 1] = stored

EInv ==
  /\ IInv /\ Places /\ AreMaps(stored) /\ IsFiniteSet(Ok)
  /\ phase = "starting" => Starting
  /\ phase = "serving" => Serving

-----------------------------------------------------------------------------
(* The start of the server.                                                *)

\* A Put changes one cell.
LEMMA PutMaps ==
  ASSUME AreMaps(stored), NEW kind \in Kind, NEW name, NEW e, Put(kind, name, e)
  PROVE  /\ AreMaps(stored')
         /\ \A k \in Kind \ {kind} : stored'[k] = stored[k]
         /\ stored'[kind] = With(stored[kind], name, e)
<1>1. /\ stored' = [k \in Kind |-> IF k = kind THEN With(stored[kind], name, e)
                                               ELSE stored[k]]
  BY DEF AreMaps, Put
<1>2. With(stored[kind], name, e) =
        [n \in DOMAIN With(stored[kind], name, e) |-> With(stored[kind], name, e)[n]]
  BY DEF With, Extended
<1> QED  BY <1>1, <1>2 DEF AreMaps

LEMMA StartsEmpty == ASSUME Init PROVE EInv
<1>1. IInv
  BY InitIsSound
<1>2. Places /\ AreMaps(stored)
  BY DEF Init, Places, AreMaps
<1>3. Ok = {}
  BY DEF Init, Ok
<1>4. Starting
  <2> DEFINE g == [i \in {0} |-> stored]
  <2>1. next = 1 /\ stored = [k \in Kind |-> <<>>]
    BY DEF Init
  <2>2. Run(g, Entries, next - 1) /\ g[0] = stored /\ g[next - 1] = stored
    BY <2>1 DEF Run
  <2> QED  BY <2>1, <2>2 DEF Init, Starting, Kind
<1> QED  BY <1>1, <1>2, <1>3, <1>4, FS_EmptySet DEF EInv, Init

LEMMA ApplyIsExplained == ASSUME EInv, Apply PROVE EInv'
<1> DEFINE e == config[next]
<1>1. /\ phase = "starting" /\ Starting /\ UNCHANGED <<config, asked, pc, copy, answer, crowded>>
      /\ next \in 1 .. Len(config) /\ Len(config) \in Nat /\ next \in DOMAIN config
      /\ e.kind \in {"topic", "subscription"}
  BY PlanIsSound DEF EInv, IInv, Apply
<1>2. IInv'
  BY ApplyIsSound DEF EInv
<1>3. Places' /\ IsFiniteSet(Ok)'
  BY <1>1 DEF EInv, Places, Ok
<1>4. CASE Settable(e)
  <2>1. /\ next' = next + 1 /\ UNCHANGED phase
        /\ IF Has(e.kind, e.name) THEN UNCHANGED stored
           ELSE Put(e.kind, e.name, Entity(e.kind, e.value))
    BY <1>4 DEF Apply
  <2>2. AreMaps(stored)' /\ stored'["snapshot"] = <<>>
    <3>1. AreMaps(stored) /\ stored["snapshot"] = <<>>
      BY <1>1 DEF EInv, Starting
    <3>2. CASE UNCHANGED stored
      BY <3>1, <3>2 DEF AreMaps
    <3>3. CASE Put(e.kind, e.name, Entity(e.kind, e.value))
      <4>1. e.kind \in Kind /\ "snapshot" \in Kind \ {e.kind}
        BY <1>1 DEF Kind
      <4> QED  BY <3>1, <3>3, <4>1, PutMaps DEF AreMaps
    <3> QED  BY <2>1, <3>2, <3>3
  <2>3. PICK g : g[0] = [k \in Kind |-> <<>>] /\ Run(g, Entries, next - 1) /\ g[next - 1] = stored
    BY <1>1 DEF Starting
  <2> DEFINE more == [i \in 0 .. next |-> IF i = next THEN stored' ELSE g[i]]
  <2>4. Alone(stored, Entries[next]) = stored'
    <3>1. /\ Entries[next].op = "create" /\ Entries[next].kind = e.kind
          /\ Entries[next].name = e.name /\ Entries[next].value = e.value
      BY <1>1 DEF Entries
    <3> QED  BY <1>1, <2>1, <3>1 DEF Alone, Has, Put
  <2>5. Run(more, Entries, next) /\ more[0] = [k \in Kind |-> <<>>] /\ more[next] = stored'
    BY <1>1, <2>3, <2>4 DEF Run
  <2>6. Entries' = Entries
    BY <1>1 DEF Entries
  <2>7. next' - 1 = next
    BY <1>1, <2>1
  <2>8. \E f : f[0] = [k \in Kind |-> <<>>] /\ Run(f, Entries', next' - 1) /\ f[next' - 1] = stored'
    <3> HIDE DEF more
    <3> QED  BY <2>5, <2>6, <2>7
  <2>9. Starting'
    BY <1>1, <2>2, <2>8 DEF Starting
  <2> QED  BY <1>1, <1>2, <1>3, <2>1, <2>2, <2>9 DEF EInv
<1>5. CASE ~Settable(e)
  BY <1>1, <1>2, <1>3, <1>5 DEF Apply, EInv, AreMaps
<1> QED  BY <1>4, <1>5

\* What the server has when it begins to listen is what is configured.
LEMMA ListenIsExplained == ASSUME EInv, Listen PROVE EInv'
<1>1. /\ phase = "starting" /\ Starting /\ phase' = "serving"
      /\ UNCHANGED <<config, asked, next, stored, pc, copy, answer, crowded>>
      /\ Len(config) \in Nat /\ DOMAIN config = 1 .. Len(config) /\ next = Len(config) + 1
  BY PlanIsSound DEF EInv, IInv, StartIsSound, Listen
<1>2. IInv'
  BY ListenIsSound DEF EInv
<1>3. Places' /\ IsFiniteSet(Ok)' /\ AreMaps(stored)'
  BY <1>1 DEF EInv, Places, Ok, AreMaps
<1>4. Configured = stored
  <2>1. PICK g : g[0] = [k \in Kind |-> <<>>] /\ Run(g, Entries, next - 1) /\ g[next - 1] = stored
    BY <1>1 DEF Starting
  <2>2. Configured = FoldLeft(Alone, [k \in Kind |-> <<>>], Entries)
    BY DEF Configured, Entries
  <2>3. DOMAIN Entries = 1 .. Len(config) /\ next - 1 = Len(config)
    BY <1>1 DEF Entries
  <2> QED  BY <1>1, <2>1, <2>2, <2>3, RunEndsThere
<1>5. Configured' = stored'
  BY <1>1, <1>4 DEF Configured
<1>6. Ok' = {} /\ \A r \in Request : pc'[r] = "asked"
  BY <1>1 DEF EInv, IInv, RequestsAreSound, Starting, Ok
<1>7. \A k, n : OkOf(k, n)' = {}
  BY <1>6 DEF OkOf
<1>8. StoredIsExplained'
  <2> SUFFICES ASSUME NEW k \in Kind, NEW n, NEW c, c = Cell(stored'[k], n)
               PROVE  Explained(k, n, c)'
    BY DEF StoredIsExplained
  <2> DEFINE h == [i \in {0} |-> c]
  <2>1. h[0] = c
    OBVIOUS
  <2>2. CellRun(<<>>, <<>>, Cell(Configured[k], n), c)'
    <3>1. Cell(Configured'[k], n) = c /\ Len(<<>>) = 0
      BY <1>5 DEF Cell
    <3> HIDE DEF h
    <3> QED  BY <2>1, <3>1 DEF CellRun
  <2>3. Explains(<<>>, <<>>, k, n, c)'
    BY <1>7, <2>2 DEF Explains, Distinct
  <2> QED  BY <2>3 DEF Explained
<1>9. HaveMet' /\ HandsAreExplained'
  BY <1>6 DEF HaveMet, UnderWay, HandsAreExplained, Changing
<1>10. TopicsAreKnown'
  <2>1. \A s \in DOMAIN stored'["subscription"] :
          stored'["subscription"][s].topic \in TopicsOf(s)'
    BY <1>5 DEF TopicsOf, Cell
  <2> QED  BY <1>6, <2>1 DEF TopicsAreKnown, Changing
<1>11. Spines'
  <2> SUFFICES ASSUME NEW s PROVE Spine(<<>>, s)'
    BY DEF Spines
  <2>1. Lives(s)' = {}
    BY <1>7 DEF Lives
  <2> QED  BY <1>5, <2>1 DEF Spine, Distinct, Left
<1>12. ConfiguredIsSound'
  <2>1. \A s \in DOMAIN stored["subscription"] : "topic" \in DOMAIN stored["subscription"][s]
    BY DEF EInv, IInv, StoredIsSound, Sound, Fields, Kind
  <2> QED  BY <1>1, <1>3, <1>5, <2>1 DEF Starting, AreMaps, ConfiguredIsSound
<1> QED  BY <1>1, <1>2, <1>3, <1>8, <1>9, <1>10, <1>11, <1>12 DEF EInv, Serving

-----------------------------------------------------------------------------
(* What is explained stays so while requests go on.                        *)

LEMMA ConfiguredStays == ASSUME config' = config PROVE Configured' = Configured
BY DEF Configured

LEMMA OkOfGrows ==
  ASSUME asked' = asked, Ok \subseteq Ok', NEW k, NEW n
  PROVE  OkOf(k, n) \subseteq OkOf(k, n)'
BY DEF OkOf

LEMMA TopicsGrow ==
  ASSUME config' = config, asked' = asked, Ok \subseteq Ok', NEW s
  PROVE  TopicsOf(s) \subseteq TopicsOf(s)'
<1>1. OkOf("subscription", s) \subseteq OkOf("subscription", s)'
  BY OkOfGrows
<1>2. Configured' = Configured
  BY ConfiguredStays
<1>3. EverThere(s) => EverThere(s)'
  BY <1>1, <1>2 DEF EverThere
<1> HIDE DEF OkOf, Configured, EverThere
<1> QED  BY <1>1, <1>2, <1>3 DEF TopicsOf

\* What is explained and is there has once been created.
LEMMA ExplainedOnce ==
  ASSUME NEW n, NEW e, Explained("subscription", n, {e})
  PROVE  EverThere(n)
<1> SUFFICES ASSUME ~EverThere(n) PROVE FALSE
  OBVIOUS
<1>1. PICK w, t : Explains(w, t, "subscription", n, {e})
  BY DEF Explained
<1>2. PICK h : /\ h[0] = Cell(Configured["subscription"], n) /\ h[Len(w)] = {e}
               /\ \A i \in 1 .. Len(w) : h[i] = CellStep(asked[w[i]], h[i - 1], t[i])
  BY <1>1 DEF Explains, CellRun
<1>3. w \in Seq(OkOf("subscription", n))
  BY <1>1 DEF Explains
<1>4. PICK l \in Nat : l = Len(w)
  BY <1>3
<1> DEFINE T == {i \in 0 .. l : h[i] = {}}
<1>5. 0 \in T
  BY <1>2 DEF EverThere, Cell
<1>6. l \notin T
  BY <1>2, <1>4
<1>7. PICK i \in 1 .. l : i \notin T /\ i - 1 \in T
  <2> HIDE DEF T
  <2> QED  BY <1>5, <1>6, FirstFailure
<1>8. w[i] \in OkOf("subscription", n)
  <2> HIDE DEF OkOf
  <2> QED  BY <1>3, <1>4
<1>9. asked[w[i]].op # "create"
  <2> HIDE DEF OkOf
  <2> QED  BY <1>8 DEF EverThere
<1>10. h[i] = CellStep(asked[w[i]], {}, t[i])
  BY <1>2, <1>4, <1>7
<1> QED  BY <1>7, <1>9, <1>10 DEF CellStep

\* A request that is answered while others of its name are under way need
\* not be part of what explains theirs: it has met them.
LEMMA ExplainedStays ==
  ASSUME config' = config, asked' = asked, Ok \subseteq Ok',
         NEW k, NEW n, NEW c,
         OkOf(k, n)' \ crowded' \subseteq OkOf(k, n) \ crowded,
         Explained(k, n, c)
  PROVE  Explained(k, n, c)'
<1>1. PICK w, t : Explains(w, t, k, n, c)
  BY DEF Explained
<1>2. OkOf(k, n) \subseteq OkOf(k, n)'
  BY OkOfGrows
<1>3. w \in Seq(OkOf(k, n)') /\ OkOf(k, n)' \ crowded' \subseteq Range(w)
  BY <1>1, <1>2 DEF Explains
<1>4. Configured' = Configured
  BY ConfiguredStays
<1>5. \A i \in 1 .. Len(w) : \A s :
        k = "snapshot" /\ asked'[w[i]].op = "create" /\ s = asked'[w[i]].value.sub =>
          t[i] \in TopicsOf(s)'
  BY <1>1, TopicsGrow DEF Explains
<1>6. CellRun(w, t, Cell(Configured[k], n), c)'
  BY <1>1, <1>4 DEF Explains, CellRun
<1>7. Distinct(w)'
  BY <1>1 DEF Explains, Distinct
<1> QED  BY <1>3, <1>5, <1>6, <1>7 DEF Explained, Explains

\* A request that is answered with OK goes to the end.
LEMMA ExplainedMore ==
  ASSUME config' = config, asked' = asked, Ok \subseteq Ok', crowded' = crowded,
         NEW r \in Request, r \notin Ok,
         NEW k, NEW n, OkOf(k, n)' = OkOf(k, n) \cup {r},
         NEW c, Explained(k, n, c),
         NEW x, \A s : k = "snapshot" /\ asked[r].op = "create" /\ s = asked[r].value.sub =>
                         x \in TopicsOf(s)'
  PROVE  \A d : d = CellStep(asked[r], c, x) => Explained(k, n, d)'
<1> SUFFICES ASSUME NEW d, d = CellStep(asked[r], c, x) PROVE Explained(k, n, d)'
  OBVIOUS
<1>1. PICK w, t : Explains(w, t, k, n, c)
  BY DEF Explained
<1>2. PICK h : /\ h[0] = Cell(Configured[k], n) /\ h[Len(w)] = c
               /\ \A i \in 1 .. Len(w) : h[i] = CellStep(asked[w[i]], h[i - 1], t[i])
  BY <1>1 DEF Explains, CellRun
<1> DEFINE v == Append(w, r)
           u == [i \in 1 .. Len(w) + 1 |-> IF i = Len(w) + 1 THEN x ELSE t[i]]
           g == [i \in 0 .. Len(w) + 1 |-> IF i = Len(w) + 1 THEN d ELSE h[i]]
<1>3. /\ w \in Seq(OkOf(k, n)) /\ r \notin OkOf(k, n) /\ Distinct(w)
      /\ OkOf(k, n) \ crowded \subseteq Range(w)
  BY <1>1 DEF Explains, OkOf
<1>4. /\ Len(w) \in Nat /\ Len(v) = Len(w) + 1 /\ v[Len(w) + 1] = r
      /\ v \in Seq(OkOf(k, n)') /\ DOMAIN v = 1 .. Len(w) + 1 /\ DOMAIN w = 1 .. Len(w)
      /\ \A i \in 1 .. Len(w) : v[i] = w[i] /\ w[i] \in OkOf(k, n)
  <2> HIDE DEF OkOf
  <2> QED  BY <1>3
<1> HIDE DEF v
<1>5. Range(v) = Range(w) \cup {r}
  BY <1>4 DEF Range
<1>6. Distinct(v)
  BY <1>3, <1>4 DEF Distinct
<1>7. OkOf(k, n)' \ crowded' \subseteq Range(v)
  BY <1>3, <1>5
<1>8. \A i \in 1 .. Len(v) : \A s :
        k = "snapshot" /\ asked'[v[i]].op = "create" /\ s = asked'[v[i]].value.sub =>
          u[i] \in TopicsOf(s)'
  <2> SUFFICES ASSUME NEW i \in 1 .. Len(v), NEW s, k = "snapshot",
                      asked[v[i]].op = "create", s = asked[v[i]].value.sub
               PROVE  u[i] \in TopicsOf(s)'
    OBVIOUS
  <2>1. CASE i = Len(w) + 1
    BY <1>4, <2>1
  <2>2. CASE i \in 1 .. Len(w)
    <3>1. t[i] \in TopicsOf(s)
      BY <1>1, <1>4, <2>2 DEF Explains
    <3> QED  BY <1>4, <2>2, <3>1, TopicsGrow
  <2> QED  BY <1>4, <2>1, <2>2
<1>9. /\ g[0] = Cell(Configured[k], n) /\ g[Len(v)] = d
      /\ \A i \in 1 .. Len(v) : g[i] = CellStep(asked[v[i]], g[i - 1], u[i])
  <2>1. g[0] = Cell(Configured[k], n) /\ g[Len(v)] = d
    BY <1>2, <1>4
  <2>2. ASSUME NEW i \in 1 .. Len(v)
        PROVE  g[i] = CellStep(asked[v[i]], g[i - 1], u[i])
    <3>1. CASE i = Len(w) + 1
      <4>1. g[i] = d /\ g[i - 1] = c /\ u[i] = x /\ v[i] = r
        <5>1. PICK l \in Nat : l = Len(w)
          BY <1>4
        <5>2. i - 1 = l /\ l \in 0 .. l + 1 /\ l # l + 1 /\ i \in 1 .. l + 1 /\ i \in 0 .. l + 1
          BY <3>1, <5>1
        <5>3. g[i - 1] = h[l] /\ u[i] = x /\ g[i] = d
          BY <3>1, <5>1, <5>2
        <5> QED  BY <1>2, <1>4, <3>1, <5>1, <5>3
      <4> QED  BY <4>1
    <3>2. CASE i \in 1 .. Len(w)
      <4>1. g[i] = h[i] /\ g[i - 1] = h[i - 1] /\ u[i] = t[i] /\ v[i] = w[i]
        BY <1>4, <3>2
      <4> QED  BY <1>2, <3>2, <4>1
    <3> QED  BY <1>4, <3>1, <3>2
  <2> QED  BY <2>1, <2>2
<1>10. Configured' = Configured
  BY ConfiguredStays
<1> HIDE DEF g, u
<1>11. CellRun(v, u, Cell(Configured[k], n), d)'
  BY <1>9, <1>10 DEF CellRun
<1>12. Distinct(v)'
  BY <1>6 DEF Distinct
<1>13. Explains(v, u, k, n, d)'
  BY <1>4, <1>7, <1>8, <1>11, <1>12 DEF Explains
<1> QED  BY <1>13 DEF Explained

-----------------------------------------------------------------------------
(* The requests.                                                           *)

\* A step that answers nobody with OK and stores nothing.
LEMMA QuietKeeps ==
  ASSUME EInv, phase = "serving", UNCHANGED <<config, asked, phase, stored>>,
         Ok' = Ok, crowded \subseteq crowded'
  PROVE  /\ \A k, n, c : Explained(k, n, c) => Explained(k, n, c)'
         /\ \A s : TopicsOf(s) \subseteq TopicsOf(s)'
         /\ StoredIsExplained' /\ Spines' /\ ConfiguredIsSound' /\ AreMaps(stored)'
         /\ IsFiniteSet(Ok)'
<1>1. \A k, n : OkOf(k, n)' = OkOf(k, n)
  BY DEF OkOf
<1>2. Configured' = Configured
  BY ConfiguredStays
<1>3. ASSUME NEW k, NEW n, NEW c, Explained(k, n, c) PROVE Explained(k, n, c)'
  <2> HIDE DEF OkOf, Ok
  <2> QED  BY <1>1, <1>3, ExplainedStays
<1>4. \A s : TopicsOf(s) \subseteq TopicsOf(s)'
  <2> HIDE DEF Ok
  <2> QED  BY TopicsGrow
<1>5. StoredIsExplained'
  BY <1>3 DEF EInv, Serving, StoredIsExplained
<1>6. Spines'
  <2>1. \A s : Lives(s)' = Lives(s)
    BY <1>1 DEF Lives
  <2>2. \A w, s : Spine(w, s) => Spine(w, s)'
    BY <1>2, <2>1 DEF Spine, Left, Distinct
  <2> QED  BY <2>2 DEF EInv, Serving, Spines
<1> QED  BY <1>2, <1>3, <1>4, <1>5, <1>6 DEF EInv, Serving, ConfiguredIsSound, AreMaps

LEMMA ErrorIsExplained ==
  ASSUME EInv, phase = "serving", NEW r \in Request, NEW code,
         code # "OK", pc[r] # "done", Reply(r, code), UNCHANGED stored, IInv'
  PROVE  EInv'
<1>1. /\ UNCHANGED <<config, asked, phase, stored, crowded>>
      /\ \A s \in Request \ {r} : pc'[s] = pc[s] /\ copy'[s] = copy[s] /\ answer'[s] = answer[s]
      /\ pc'[r] = "done" /\ answer[r] # "OK" /\ answer'[r] # "OK"
  BY DEF Reply, EInv, IInv, RequestsAreSound
<1>2. Ok' = Ok
  BY <1>1 DEF Ok
<1>3. Places' /\ HaveMet'
  BY <1>1 DEF EInv, Serving, Places, HaveMet, UnderWay
<1>4. /\ \A k, n, c : Explained(k, n, c) => Explained(k, n, c)'
      /\ \A s : TopicsOf(s) \subseteq TopicsOf(s)'
      /\ StoredIsExplained' /\ Spines' /\ ConfiguredIsSound' /\ AreMaps(stored)'
      /\ IsFiniteSet(Ok)'
  BY <1>1, <1>2, QuietKeeps
<1>5. HandsAreExplained'
  BY <1>1, <1>4 DEF EInv, Serving, HandsAreExplained, Changing
<1>6. TopicsAreKnown'
  BY <1>1, <1>4 DEF EInv, Serving, TopicsAreKnown, Changing
<1> QED  BY <1>1, <1>3, <1>4, <1>5, <1>6 DEF EInv, Serving

\* What a request has in hand, at a place, is explained.
Explains1(r, place, entity) ==
  LET q == asked[r]
  IN /\ place = "prepared" =>
          /\ q.op = "create"
          /\ \E x : /\ entity = Grown(q, x)
                    /\ \A s : q.kind = "snapshot" /\ s = q.value.sub => x \in TopicsOf(s)
     /\ place = "changed" => q.op \in {"update", "detach", "push"}
     /\ place = "checked" => q.op # "create"
     /\ place \in {"changed", "checked"} /\ q.op # "delete" =>
          /\ \E e : /\ entity = Change(q, e)
                    /\ \A k, n : k = q.kind /\ n = q.name => Explained(k, n, {e})
          /\ q.kind = "subscription" =>
               \/ q.op = "detach" /\ entity.topic = DeletedTopic
               \/ \A s : s = q.name => entity.topic \in TopicsOf(s)

LEMMA GoIsExplained ==
  ASSUME EInv, phase = "serving", NEW r \in Request, pc[r] # "done",
         NEW to \in {"prepared", "changed", "checked"}, NEW entity,
         Explains1(r, to, entity), Go(r, to, entity), UNCHANGED stored, IInv'
  PROVE  EInv'
<1>1. /\ UNCHANGED <<config, asked, phase, stored, answer>>
      /\ \A s \in Request \ {r} : pc'[s] = pc[s] /\ copy'[s] = copy[s]
      /\ pc'[r] = to /\ copy'[r] = entity
      /\ crowded' = crowded \cup Others(r) \cup (IF Others(r) = {} THEN {} ELSE {r})
  BY DEF Go, EInv, IInv, RequestsAreSound
<1>2. Ok' = Ok /\ crowded \subseteq crowded'
  BY <1>1 DEF Ok
<1>3. Places'
  BY <1>1 DEF EInv, Places, Explains1
<1>4. HaveMet'
  <2> SUFFICES ASSUME NEW a \in Request, NEW b \in Request, a # b,
                      UnderWay(a)', UnderWay(b)',
                      asked[a].kind = asked[b].kind, asked[a].name = asked[b].name
               PROVE  a \in crowded' /\ b \in crowded'
    BY <1>1 DEF HaveMet
  <2>1. CASE a # r /\ b # r
    BY <1>1, <1>2, <2>1 DEF EInv, Serving, HaveMet, UnderWay
  <2>2. CASE a = r
    <3>1. b \in Others(r)
      BY <1>1, <2>2 DEF Others, UnderWay
    <3> QED  BY <1>1, <2>2, <3>1
  <2>3. CASE b = r
    <3>1. a \in Others(r)
      BY <1>1, <2>3 DEF Others, UnderWay
    <3> QED  BY <1>1, <2>3, <3>1
  <2> QED  BY <2>1, <2>2, <2>3
<1>5. /\ \A k, n, c : Explained(k, n, c) => Explained(k, n, c)'
      /\ \A s : TopicsOf(s) \subseteq TopicsOf(s)'
      /\ StoredIsExplained' /\ Spines' /\ ConfiguredIsSound' /\ AreMaps(stored)'
      /\ IsFiniteSet(Ok)'
  BY <1>1, <1>2, QuietKeeps
<1>6. HandsAreExplained'
  <2>1. ASSUME NEW s \in Request, pc'[s] = "prepared"
        PROVE  \E x : /\ copy'[s] = Grown(asked[s], x)
                      /\ \A z : asked[s].kind = "snapshot" /\ z = asked[s].value.sub =>
                                  x \in TopicsOf(z)'
    <3>1. CASE s = r
      BY <1>1, <1>5, <2>1, <3>1 DEF Explains1
    <3>2. CASE s # r
      BY <1>1, <1>5, <2>1, <3>2 DEF EInv, Serving, HandsAreExplained
    <3> QED  BY <3>1, <3>2
  <2>2. ASSUME NEW s \in Request, Changing(s)'
        PROVE  \E e : /\ copy'[s] = Change(asked[s], e)
                      /\ \A k, n : k = asked[s].kind /\ n = asked[s].name =>
                                     Explained(k, n, {e})'
    <3>1. CASE s = r
      BY <1>1, <1>5, <2>2, <3>1 DEF Explains1, Changing
    <3>2. CASE s # r
      BY <1>1, <1>5, <2>2, <3>2 DEF EInv, Serving, HandsAreExplained, Changing
    <3> QED  BY <3>1, <3>2
  <2> QED  BY <1>1, <2>1, <2>2 DEF HandsAreExplained
<1>7. TopicsAreKnown'
  <2>1. ASSUME NEW s \in Request, Changing(s)', asked[s].kind = "subscription"
        PROVE  \/ asked[s].op = "detach" /\ copy'[s].topic = DeletedTopic
               \/ \A z : z = asked[s].name => copy'[s].topic \in TopicsOf(z)'
    <3>1. CASE s = r
      BY <1>1, <1>5, <2>1, <3>1 DEF Explains1, Changing
    <3>2. CASE s # r
      BY <1>1, <1>5, <2>1, <3>2 DEF EInv, Serving, TopicsAreKnown, Changing
    <3> QED  BY <3>1, <3>2
  <2>2. \A s \in DOMAIN stored'["subscription"] :
          stored'["subscription"][s].topic \in TopicsOf(s)'
    BY <1>1, <1>5 DEF EInv, Serving, TopicsAreKnown
  <2> QED  BY <1>1, <2>1, <2>2 DEF TopicsAreKnown
<1> QED  BY <1>1, <1>3, <1>4, <1>5, <1>6, <1>7 DEF EInv, Serving

\* Cells tell maps apart.
LEMMA SameCell ==
  ASSUME NEW f, NEW g, NEW n, Cell(f, n) = Cell(g, n)
  PROVE  /\ n \in DOMAIN f <=> n \in DOMAIN g
         /\ n \in DOMAIN f => f[n] = g[n]
BY DEF Cell

\* A creation or deletion of a subscription goes to the end of its spine.
LEMMA SpineGrows ==
  ASSUME config' = config, asked' = asked, NEW s, NEW w, Spine(w, s),
         NEW r, r \notin Lives(s), Lives(s)' = Lives(s) \cup {r},
         asked[r].op = "create" => s \notin DOMAIN stored["subscription"],
         asked[r].op = "create" => s \in DOMAIN stored'["subscription"]
  PROVE  Spine(Append(w, r), s)'
<1> DEFINE v == Append(w, r)
<1>1. Configured' = Configured
  BY ConfiguredStays
<1>2. /\ w \in Seq(Lives(s)) /\ Distinct(w) /\ Lives(s) \subseteq Range(w)
      /\ \A i \in 1 .. Len(w) : asked[w[i]].op = "create" => ~Left(w, i - 1, s)
      /\ Left(w, Len(w), s) => s \in DOMAIN stored["subscription"]
  BY DEF Spine
<1>3. PICK l \in Nat : l = Len(w)
  BY <1>2
<1>4. /\ Len(v) = l + 1 /\ v[l + 1] = r /\ DOMAIN v = 1 .. l + 1 /\ DOMAIN w = 1 .. l
      /\ v \in Seq(Lives(s) \cup {r})
      /\ \A i \in 1 .. l : v[i] = w[i] /\ w[i] \in Lives(s)
  <2> HIDE DEF Lives
  <2> QED  BY <1>2, <1>3
<1> HIDE DEF v
<1>5. Range(v) = Range(w) \cup {r}
  BY <1>4 DEF Range
<1>6. Distinct(v)
  BY <1>2, <1>3, <1>4 DEF Distinct
<1>7. ASSUME NEW i \in 0 .. l PROVE Left(v, i, s) = Left(w, i, s)
  BY <1>4 DEF Left
<1>8. ASSUME NEW i \in 1 .. l + 1, asked[v[i]].op = "create" PROVE ~Left(v, i - 1, s)
  <2>1. CASE i \in 1 .. l
    <3>1. i - 1 \in 0 .. l
      BY <2>1
    <3> QED  BY <1>2, <1>3, <1>4, <1>7, <1>8, <2>1, <3>1
  <2>2. CASE i = l + 1
    <3>1. i - 1 = l /\ l \in 0 .. l
      BY <2>2
    <3> QED  BY <1>2, <1>3, <1>4, <1>7, <1>8, <2>2, <3>1
  <2> QED  BY <2>1, <2>2
<1>9. Left(v, l + 1, s) => s \in DOMAIN stored'["subscription"]
  BY <1>4 DEF Left
<1>10. \A i \in 0 .. l + 1 : Left(v, i, s)' = Left(v, i, s)
  BY <1>1 DEF Left
<1>11. Len(v) \in 0 .. l + 1 /\ \A i \in 1 .. Len(v) : i - 1 \in 0 .. l + 1
  BY <1>4
<1>12. Distinct(v)'
  BY <1>6 DEF Distinct
<1>13. v \in Seq(Lives(s)')
  BY <1>4
<1> HIDE DEF Left
<1>14. Spine(v, s)'
  BY <1>2, <1>4, <1>5, <1>8, <1>9, <1>10, <1>11, <1>12, <1>13 DEF Spine
<1> QED  BY <1>14 DEF v

\* A request that stores or deletes is answered with OK in the same step; what
\* it stores is its work on c, and x is the topic that a snapshot takes.
Works(r, k, n, c, x) ==
  /\ UnderWay(r) /\ Reply(r, "OK") /\ k = asked[r].kind /\ n = asked[r].name
  /\ \A j \in Kind : \A m : j # k \/ m # n => Cell(stored'[j], m) = Cell(stored[j], m)
  /\ Explained(k, n, c)
  /\ \A s : k = "snapshot" /\ asked[r].op = "create" /\ s = asked[r].value.sub =>
             x \in TopicsOf(s)
  /\ Cell(stored'[k], n) = CellStep(asked[r], c, x)
  /\ k = "subscription" /\ n \in DOMAIN stored'[k] => stored'[k][n].topic \in TopicsOf(n)'
  /\ k = "subscription" /\ asked[r].op = "create" => n \notin DOMAIN stored[k]
  /\ asked[r].op \notin {"create", "delete"} => n \in DOMAIN stored'[k]

LEMMA DoneIsExplained ==
  ASSUME EInv, phase = "serving", NEW r \in Request, IInv', AreMaps(stored)',
         NEW k \in Kind, NEW n, NEW c, NEW x, Works(r, k, n, c, x)
  PROVE  EInv'
<1> USE DEF Works
<1>1. /\ UNCHANGED <<config, asked, phase, crowded>>
      /\ \A s \in Request \ {r} : pc'[s] = pc[s] /\ copy'[s] = copy[s] /\ answer'[s] = answer[s]
      /\ pc'[r] = "done" /\ answer'[r] = "OK" /\ answer[r] # "OK"
  BY DEF Reply, UnderWay, EInv, IInv, RequestsAreSound
<1>2. Ok' = Ok \cup {r} /\ r \notin Ok
  BY <1>1 DEF Ok
<1>3. IsFiniteSet(Ok)'
  <2> HIDE DEF Ok
  <2> QED  BY <1>2, FS_AddElement DEF EInv
<1>4. /\ OkOf(k, n)' = OkOf(k, n) \cup {r} /\ r \notin OkOf(k, n)
      /\ \A j, m : j # k \/ m # n => OkOf(j, m)' = OkOf(j, m)
  BY <1>1, <1>2 DEF OkOf
<1>5. Places' /\ HaveMet'
  BY <1>1 DEF EInv, Serving, Places, HaveMet, UnderWay
<1>6. Configured' = Configured
  BY <1>1, ConfiguredStays
<1>7. \A s : TopicsOf(s) \subseteq TopicsOf(s)'
  <2> HIDE DEF Ok
  <2> QED  BY <1>1, <1>2, TopicsGrow
<1>8. ASSUME NEW j, NEW m, NEW d, j # k \/ m # n \/ r \in crowded, Explained(j, m, d)
      PROVE  Explained(j, m, d)'
  <2> HIDE DEF Ok, OkOf
  <2>1. OkOf(j, m)' \ crowded' \subseteq OkOf(j, m) \ crowded
    BY <1>1, <1>4, <1>8
  <2> QED  BY <1>1, <1>2, <1>8, <2>1, ExplainedStays
<1>9. \A d : d = CellStep(asked[r], c, x) => Explained(k, n, d)'
  <2> HIDE DEF Ok, OkOf
  <2>1. \A s : k = "snapshot" /\ asked[r].op = "create" /\ s = asked[r].value.sub =>
                 x \in TopicsOf(s)'
    BY <1>7
  <2>2. Explained(k, n, c)
    OBVIOUS
  <2> HIDE DEF Works
  <2> QED  BY <1>1, <1>2, <1>4, <2>1, <2>2, ExplainedMore
<1>10. StoredIsExplained'
  <2> SUFFICES ASSUME NEW j \in Kind, NEW m, NEW d, d = Cell(stored'[j], m)
               PROVE  Explained(j, m, d)'
    BY DEF StoredIsExplained
  <2>1. CASE j = k /\ m = n
    BY <1>9, <2>1
  <2>2. CASE j # k \/ m # n
    <3>1. Explained(j, m, d)
      BY <2>2 DEF EInv, Serving, StoredIsExplained
    <3> QED  BY <1>8, <2>2, <3>1
  <2> QED  BY <2>1, <2>2
<1>11. HandsAreExplained'
  <2>1. ASSUME NEW s \in Request, pc'[s] = "prepared"
        PROVE  \E y : /\ copy'[s] = Grown(asked[s], y)
                      /\ \A z : asked[s].kind = "snapshot" /\ z = asked[s].value.sub =>
                                  y \in TopicsOf(z)'
    BY <1>1, <1>7, <2>1 DEF EInv, Serving, HandsAreExplained
  <2>2. ASSUME NEW s \in Request, Changing(s)'
        PROVE  \E e : /\ copy'[s] = Change(asked[s], e)
                      /\ \A j, m : j = asked[s].kind /\ m = asked[s].name =>
                                     Explained(j, m, {e})'
    <3>1. s # r /\ Changing(s) /\ UnderWay(s)
      BY <1>1, <2>2 DEF Changing, UnderWay
    <3>2. asked[s].kind = k /\ asked[s].name = n => r \in crowded
      BY <3>1 DEF EInv, Serving, HaveMet
    <3>3. PICK e : /\ copy[s] = Change(asked[s], e)
                   /\ \A j, m : j = asked[s].kind /\ m = asked[s].name => Explained(j, m, {e})
      BY <3>1 DEF EInv, Serving, HandsAreExplained
    <3> QED  BY <1>1, <1>8, <3>1, <3>2, <3>3
  <2> QED  BY <1>1, <2>1, <2>2 DEF HandsAreExplained
<1>12. TopicsAreKnown'
  <2>1. ASSUME NEW s \in Request, Changing(s)', asked[s].kind = "subscription"
        PROVE  \/ asked[s].op = "detach" /\ copy'[s].topic = DeletedTopic
               \/ \A z : z = asked[s].name => copy'[s].topic \in TopicsOf(z)'
    <3>1. s # r /\ Changing(s) /\ copy'[s] = copy[s]
      BY <1>1, <2>1 DEF Changing
    <3> QED  BY <1>7, <2>1, <3>1 DEF EInv, Serving, TopicsAreKnown
  <2>2. ASSUME NEW s \in DOMAIN stored'["subscription"]
        PROVE  stored'["subscription"][s].topic \in TopicsOf(s)'
    <3>1. CASE k = "subscription" /\ s = n
      BY <2>2, <3>1
    <3>2. CASE k # "subscription" \/ s # n
      <4>1. Cell(stored'["subscription"], s) = Cell(stored["subscription"], s)
        BY <3>2 DEF Kind
      <4>2. /\ s \in DOMAIN stored["subscription"]
            /\ stored["subscription"][s] = stored'["subscription"][s]
        BY <2>2, <4>1, SameCell
      <4> QED  BY <1>7, <4>2 DEF EInv, Serving, TopicsAreKnown
    <3> QED  BY <3>1, <3>2
  <2> QED  BY <1>1, <2>1, <2>2 DEF TopicsAreKnown
<1>13. Spines'
  <2> SUFFICES ASSUME NEW s PROVE \E w : Spine(w, s)'
    BY DEF Spines
  <2>1. PICK w : Spine(w, s)
    BY DEF EInv, Serving, Spines
  <2>2. CASE /\ Lives(s)' = Lives(s)
             /\ s \in DOMAIN stored["subscription"] => s \in DOMAIN stored'["subscription"]
    <3>1. Spine(w, s)'
      BY <1>1, <1>6, <2>1, <2>2 DEF Spine, Distinct, Left
    <3> QED  BY <3>1
  <2>3. CASE k # "subscription" \/ s # n
    <3>1. Cell(stored'["subscription"], s) = Cell(stored["subscription"], s)
      BY <2>3 DEF Kind
    <3>2. Lives(s)' = Lives(s)
      BY <1>1, <1>4, <2>3 DEF Lives
    <3> QED  BY <2>2, <3>1, <3>2, SameCell
  <2>4. CASE k = "subscription" /\ s = n /\ asked[r].op \notin {"create", "delete"}
    <3>1. Lives(s)' = Lives(s)
      BY <1>1, <1>4, <2>4 DEF Lives
    <3> QED  BY <2>2, <2>4, <3>1
  <2>5. CASE k = "subscription" /\ s = n /\ asked[r].op \in {"create", "delete"}
    <3>1. Lives(s)' = Lives(s) \cup {r} /\ r \notin Lives(s)
      BY <1>1, <1>4, <2>5 DEF Lives
    <3>2. asked[r].op = "create" => s \in DOMAIN stored'["subscription"]
      <4> SUFFICES ASSUME asked[r].op = "create" PROVE n \in DOMAIN stored'[k]
        BY <2>5
      <4>1. CellStep(asked[r], c, x) # {}
        BY DEF CellStep
      <4> QED  BY <4>1 DEF Cell
    <3>3. Spine(Append(w, r), s)'
      BY <1>1, <2>1, <2>5, <3>1, <3>2, SpineGrows
    <3> QED  BY <3>3
  <2> QED  BY <2>3, <2>4, <2>5
<1>14. ConfiguredIsSound'
  BY <1>6 DEF EInv, Serving, ConfiguredIsSound, AreMaps
<1> QED  BY <1>1, <1>3, <1>5, <1>10, <1>11, <1>12, <1>13, <1>14 DEF EInv, Serving

LEMMA PrepareIsExplained ==
  ASSUME EInv, NEW r \in Request, Prepare(r)
  PROVE  EInv'
<1> DEFINE q == asked[r]
           e == Entity(q.kind, q.value)
           from == Parent(q)
           code == IF q.kind = "topic" THEN "OK" ELSE Get(from.kind, from.name)
<1>1. /\ IInv' /\ phase = "serving" /\ pc[r] # "done" /\ UNCHANGED stored
      /\ q.op = "create" /\ q.kind \in Kind
  BY PrepareIsSound, PlanIsSound DEF Prepare, At, EInv, IInv
<1>2. CASE ~Settable(q) /\ Reply(r, "InvalidArgument")
  BY <1>1, <1>2, ErrorIsExplained
<1>3. CASE code # "OK" /\ Reply(r, code)
  BY <1>1, <1>3, ErrorIsExplained
<1>4. CASE code = "OK" /\ q.kind # "snapshot" /\ Go(r, "prepared", e)
  <2>1. Grown(q, DeletedTopic) = e
    BY <1>4 DEF Grown
  <2>2. Explains1(r, "prepared", e)
    BY <1>1, <1>4, <2>1 DEF Explains1
  <2> QED  BY <1>1, <1>4, <2>2, GoIsExplained
<1>5. CASE /\ code = "OK" /\ q.kind = "snapshot"
           /\ Go(r, "prepared", SnapshotOf(e, stored[from.kind][from.name]))
  <2> DEFINE n == q.value.sub
             sub == stored["subscription"][n]
  <2>1. from.kind = "subscription" /\ from.name = n
    BY <1>5 DEF Parent
  <2>2. n \in DOMAIN stored["subscription"]
    BY <1>5, <2>1 DEF Get, Has
  <2>3. \A s : s = n => sub.topic \in TopicsOf(s)
    BY <1>1, <2>2 DEF EInv, Serving, TopicsAreKnown
  <2>4. SnapshotOf(e, sub) = Grown(q, sub.topic)
    BY <1>5 DEF SnapshotOf, Grown
  <2>5. Explains1(r, "prepared", SnapshotOf(e, sub))
    BY <1>1, <1>5, <2>3, <2>4 DEF Explains1
  <2> QED  BY <1>1, <1>5, <2>1, <2>5, GoIsExplained
<1> QED  BY <1>2, <1>3, <1>4, <1>5 DEF Prepare

LEMMA LoadIsExplained ==
  ASSUME EInv, NEW r \in Request, Load(r)
  PROVE  EInv'
<1> DEFINE q == asked[r]
           code == Get(q.kind, q.name)
           e == stored[q.kind][q.name]
<1>1. /\ IInv' /\ phase = "serving" /\ pc[r] # "done" /\ UNCHANGED stored
      /\ q.op \in {"update", "detach", "push"} /\ q.kind \in Kind
  BY LoadIsSound, PlanIsSound DEF Load, At, EInv, IInv
<1>2. CASE code # "OK" /\ Reply(r, code)
  BY <1>1, <1>2, ErrorIsExplained
<1>3. CASE Reply(r, "InvalidArgument")
  BY <1>1, <1>3, ErrorIsExplained
<1>4. CASE code = "OK" /\ Go(r, "changed", Change(q, e))
  <2>1. q.name \in DOMAIN stored[q.kind] /\ Cell(stored[q.kind], q.name) = {e}
    BY <1>4 DEF Get, Has, Cell
  <2>2. \A k, n : k = q.kind /\ n = q.name => Explained(k, n, {e})
    BY <1>1, <2>1 DEF EInv, Serving, StoredIsExplained
  <2>3. ASSUME q.kind = "subscription"
        PROVE  \/ q.op = "detach" /\ Change(q, e).topic = DeletedTopic
               \/ \A s : s = q.name => Change(q, e).topic \in TopicsOf(s)
    <3>1. "topic" \in DOMAIN e
      BY <1>1, <2>1, <2>3 DEF EInv, IInv, StoredIsSound, Sound, Fields
    <3>2. CASE q.op = "detach"
      <4>1. Change(q, e) = [e EXCEPT !.topic = DeletedTopic]
        BY <3>2 DEF Change
      <4> QED  BY <3>1, <3>2, <4>1
    <3>3. CASE q.op = "push" \/ q.op = "update"
      <4>1. "topic" \notin Named(q.kind, q.mask, q.value)
        BY <2>3 DEF Named, Updatable
      <4>2. Change(q, e).topic = e.topic
        <5>1. CASE q.op = "push"
          <6>1. Change(q, e) = [e EXCEPT !.push = q.value.push]
            BY <5>1 DEF Change
          <6> QED  BY <3>1, <6>1
        <5>2. CASE q.op = "update"
          BY <3>1, <4>1, <5>2 DEF Change, Updated
        <5> QED  BY <3>3, <5>1, <5>2
      <4>3. \A s : s = q.name => e.topic \in TopicsOf(s)
        BY <1>1, <2>1, <2>3 DEF EInv, Serving, TopicsAreKnown
      <4> QED  BY <4>2, <4>3
    <3> QED  BY <1>1, <3>2, <3>3
  <2>4. Explains1(r, "changed", Change(q, e))
    BY <1>1, <2>2, <2>3 DEF Explains1
  <2> QED  BY <1>1, <1>4, <2>4, GoIsExplained
<1> QED  BY <1>2, <1>3, <1>4 DEF Load

LEMMA CheckIsExplained ==
  ASSUME EInv, NEW r \in Request, Check(r)
  PROVE  EInv'
<1>1. /\ IInv' /\ phase = "serving" /\ UNCHANGED stored
      /\ pc[r] = "changed" \/ (pc[r] = "asked" /\ asked[r].op = "delete")
  BY CheckIsSound DEF Check, At, EInv
<1>2. CASE Reply(r, "NotFound")
  BY <1>1, <1>2, ErrorIsExplained
<1>3. CASE Go(r, "checked", copy[r])
  <2>1. Explains1(r, "checked", copy[r])
    BY <1>1 DEF EInv, Serving, Places, HandsAreExplained, TopicsAreKnown, Changing, Explains1
  <2> QED  BY <1>1, <1>3, <2>1, GoIsExplained
<1> QED  BY <1>2, <1>3 DEF Check

LEMMA InsertIsExplained ==
  ASSUME EInv, NEW r \in Request, Insert(r)
  PROVE  EInv'
<1> DEFINE q == asked[r]
<1>1. /\ IInv' /\ phase = "serving" /\ pc[r] = "prepared" /\ q.kind \in Kind
      /\ q.op = "create"
  BY InsertIsSound, PlanIsSound DEF Insert, At, EInv, IInv, Places
<1>2. CASE Reply(r, "AlreadyExists") /\ UNCHANGED stored
  BY <1>1, <1>2, ErrorIsExplained
<1>3. CASE ~Has(q.kind, q.name) /\ Reply(r, "OK") /\ Put(q.kind, q.name, copy[r])
  <2>1. PICK k \in Kind : k = q.kind
    BY <1>1
  <2>2. PICK n : n = q.name
    OBVIOUS
  <2>3. k = q.kind /\ n = q.name
    BY <2>1, <2>2
  <2>4. /\ AreMaps(stored')
        /\ \A j \in Kind \ {k} : stored'[j] = stored[j]
        /\ stored'[k] = With(stored[k], n, copy[r])
    BY <1>3, <2>3, PutMaps DEF EInv
  <2>5. AreMaps(stored)'
    BY <2>4 DEF AreMaps
  <2>6. PICK x : /\ copy[r] = Grown(q, x)
                 /\ \A s : q.kind = "snapshot" /\ s = q.value.sub => x \in TopicsOf(s)
    BY <1>1 DEF EInv, Serving, HandsAreExplained
  <2>7. /\ n \notin DOMAIN stored[k] /\ Cell(stored[k], n) = {}
        /\ n \in DOMAIN stored'[k] /\ stored'[k][n] = copy[r]
        /\ Cell(stored'[k], n) = {copy[r]}
        /\ \A m : m # n => Cell(stored'[k], m) = Cell(stored[k], m)
    BY <1>3, <2>3, <2>4 DEF Has, Cell, With, Extended
  <2>8. Explained(k, n, {})
    BY <1>1, <2>7 DEF EInv, Serving, StoredIsExplained
  <2>9. Cell(stored'[k], n) = CellStep(q, {}, x)
    BY <1>1, <2>6, <2>7 DEF CellStep
  <2>10. k = "subscription" => stored'[k][n].topic \in TopicsOf(n)'
    <3> SUFFICES ASSUME k = "subscription" PROVE copy[r].topic \in TopicsOf(n)'
      BY <2>7
    <3>1. copy[r] = Entity(q.kind, q.value) /\ asked' = asked
      BY <2>3, <2>6, <1>3 DEF Grown, Reply
    <3>2. r \in OkOf("subscription", n)'
      BY <1>3, <2>3, <3>1 DEF Reply, OkOf, Ok, EInv, IInv, RequestsAreSound
    <3> HIDE DEF OkOf
    <3> QED  BY <1>1, <3>1, <3>2 DEF TopicsOf
  <2>11. UnderWay(r)
    BY <1>1 DEF UnderWay
  <2>12. \A j \in Kind : \A m : j # k \/ m # n => Cell(stored'[j], m) = Cell(stored[j], m)
    BY <2>4, <2>7
  <2>13. \A s : k = "snapshot" /\ q.op = "create" /\ s = q.value.sub => x \in TopicsOf(s)
    BY <2>3, <2>6
  <2>14. /\ k = "subscription" /\ n \in DOMAIN stored'[k] => stored'[k][n].topic \in TopicsOf(n)'
         /\ k = "subscription" /\ asked[r].op = "create" => n \notin DOMAIN stored[k]
         /\ asked[r].op \notin {"create", "delete"} => n \in DOMAIN stored'[k]
    BY <2>7, <2>10
  <2>15. PICK c : c = {}
    OBVIOUS
  <2>16. Works(r, k, n, c, x)
    BY <1>1, <1>3, <2>3, <2>8, <2>9, <2>11, <2>12, <2>13, <2>14, <2>15 DEF Works
  <2> QED  BY <1>1, <2>5, <2>16, DoneIsExplained
<1> QED  BY <1>2, <1>3 DEF Insert

LEMMA StoreIsExplained ==
  ASSUME EInv, NEW r \in Request, Store(r)
  PROVE  EInv'
<1> DEFINE q == asked[r]
<1>1. /\ IInv' /\ phase = "serving" /\ pc[r] = "checked" /\ q.kind \in Kind
      /\ q.op \in {"update", "detach", "push"}
      /\ Put(q.kind, q.name, copy[r]) /\ Reply(r, "OK")
  BY StoreIsSound, PlanIsSound DEF Store, At, EInv, IInv, Places
<1>2. PICK k \in Kind : k = q.kind
  BY <1>1
<1>3. PICK n : n = q.name
  OBVIOUS
<1>4. k = q.kind /\ n = q.name
  BY <1>2, <1>3
<1>5. /\ AreMaps(stored')
      /\ \A j \in Kind \ {k} : stored'[j] = stored[j]
      /\ stored'[k] = With(stored[k], n, copy[r])
  BY <1>1, <1>4, PutMaps DEF EInv
<1>6. AreMaps(stored)'
  BY <1>5 DEF AreMaps
<1>7. Changing(r)
  BY <1>1 DEF Changing
<1>8. PICK e : copy[r] = Change(q, e) /\ Explained(k, n, {e})
  BY <1>1, <1>4, <1>7 DEF EInv, Serving, HandsAreExplained
<1>9. /\ n \in DOMAIN stored'[k] /\ stored'[k][n] = copy[r]
      /\ Cell(stored'[k], n) = {copy[r]}
      /\ \A m : m # n => Cell(stored'[k], m) = Cell(stored[k], m)
  BY <1>5 DEF Cell, With, Extended
<1>10. Cell(stored'[k], n) = CellStep(q, {e}, DeletedTopic)
  <2>1. The({e}) = e
    BY DEF The
  <2> QED  BY <1>1, <1>8, <1>9, <2>1 DEF CellStep
<1>11. k = "subscription" => stored'[k][n].topic \in TopicsOf(n)'
  <2> SUFFICES ASSUME k = "subscription" PROVE copy[r].topic \in TopicsOf(n)'
    BY <1>9
  <2>1. \/ q.op = "detach" /\ copy[r].topic = DeletedTopic
        \/ \A s : s = n => copy[r].topic \in TopicsOf(s)
    BY <1>1, <1>4, <1>7 DEF EInv, Serving, TopicsAreKnown
  <2>2. CASE q.op = "detach" /\ copy[r].topic = DeletedTopic
    <3>1. r \in OkOf("subscription", n)' /\ asked' = asked /\ config' = config /\ Ok \subseteq Ok'
      BY <1>1, <1>4 DEF Reply, OkOf, Ok, EInv, IInv, RequestsAreSound
    <3>2. EverThere(n)'
      <4>1. Configured' = Configured /\ OkOf("subscription", n) \subseteq OkOf("subscription", n)'
        <5> HIDE DEF Ok
        <5> QED  BY <3>1, ConfiguredStays, OkOfGrows
      <4> HIDE DEF OkOf, Ok
      <4>2. EverThere(n)
        BY <1>8, ExplainedOnce
      <4> QED  BY <3>1, <4>1, <4>2 DEF EverThere
    <3> HIDE DEF OkOf, EverThere
    <3> QED  BY <2>2, <3>1, <3>2 DEF TopicsOf
  <2>3. CASE \A s : s = n => copy[r].topic \in TopicsOf(s)
    <3>1. config' = config /\ asked' = asked /\ Ok \subseteq Ok'
      BY <1>1 DEF Reply, Ok, EInv, IInv, RequestsAreSound
    <3> HIDE DEF Ok
    <3> QED  BY <2>3, <3>1, TopicsGrow
  <2> QED  BY <2>1, <2>2, <2>3
<1>12. UnderWay(r)
  BY <1>1 DEF UnderWay
<1>13. \A j \in Kind : \A m : j # k \/ m # n => Cell(stored'[j], m) = Cell(stored[j], m)
  BY <1>5, <1>9
<1>14. /\ k = "subscription" /\ n \in DOMAIN stored'[k] => stored'[k][n].topic \in TopicsOf(n)'
       /\ k = "subscription" /\ asked[r].op = "create" => n \notin DOMAIN stored[k]
       /\ asked[r].op \notin {"create", "delete"} => n \in DOMAIN stored'[k]
  BY <1>1, <1>9, <1>11
<1>15. \A s : k = "snapshot" /\ asked[r].op = "create" /\ s = asked[r].value.sub =>
               DeletedTopic \in TopicsOf(s)
  BY <1>1
<1>16. PICK c, x : c = {e} /\ x = DeletedTopic
  OBVIOUS
<1>17. Works(r, k, n, c, x)
  BY <1>1, <1>4, <1>8, <1>10, <1>12, <1>13, <1>14, <1>15, <1>16 DEF Works
<1> QED  BY <1>1, <1>6, <1>17, DoneIsExplained

LEMMA DeleteIsExplained ==
  ASSUME EInv, NEW r \in Request, Delete(r)
  PROVE  EInv'
<1> DEFINE q == asked[r]
<1>1. /\ IInv' /\ phase = "serving" /\ pc[r] = "checked" /\ q.kind \in Kind
      /\ q.op = "delete" /\ Reply(r, "OK")
      /\ stored' = [stored EXCEPT ![q.kind] = Without(@, q.name)]
  BY DeleteIsSound, PlanIsSound DEF Delete, At, EInv, IInv
<1>2. PICK k \in Kind : k = q.kind
  BY <1>1
<1>3. PICK n : n = q.name
  OBVIOUS
<1>4. k = q.kind /\ n = q.name
  BY <1>2, <1>3
<1>5. /\ stored' = [j \in Kind |-> IF j = k THEN Without(stored[k], n) ELSE stored[j]]
      /\ AreMaps(stored)
  BY <1>1, <1>4 DEF EInv, AreMaps
<1>6. AreMaps(stored)'
  BY <1>5 DEF AreMaps, Without
<1>7. /\ n \notin DOMAIN stored'[k] /\ Cell(stored'[k], n) = {}
      /\ \A m : m # n => Cell(stored'[k], m) = Cell(stored[k], m)
      /\ \A j \in Kind \ {k} : stored'[j] = stored[j]
  BY <1>5 DEF Cell, Without
<1>8. PICK c : c = Cell(stored[k], n)
  OBVIOUS
<1>9. Explained(k, n, c)
  BY <1>1, <1>8 DEF EInv, Serving, StoredIsExplained
<1>10. Cell(stored'[k], n) = CellStep(q, c, DeletedTopic)
  BY <1>1, <1>7 DEF CellStep
<1>11. UnderWay(r)
  BY <1>1 DEF UnderWay
<1>12. \A j \in Kind : \A m : j # k \/ m # n => Cell(stored'[j], m) = Cell(stored[j], m)
  BY <1>7
<1>13. /\ k = "subscription" /\ n \in DOMAIN stored'[k] => stored'[k][n].topic \in TopicsOf(n)'
       /\ k = "subscription" /\ asked[r].op = "create" => n \notin DOMAIN stored[k]
       /\ asked[r].op \notin {"create", "delete"} => n \in DOMAIN stored'[k]
       /\ \A s : k = "snapshot" /\ asked[r].op = "create" /\ s = asked[r].value.sub =>
                  DeletedTopic \in TopicsOf(s)
  BY <1>1, <1>7
<1>14. PICK x : x = DeletedTopic
  OBVIOUS
<1>15. Works(r, k, n, c, x)
  BY <1>1, <1>4, <1>9, <1>10, <1>11, <1>12, <1>13, <1>14 DEF Works
<1> QED  BY <1>1, <1>6, <1>15, DoneIsExplained

LEMMA NextIsExplained == ASSUME EInv, [Next]_vars PROVE EInv'
<1>1. ASSUME NEW r \in Request,
             \/ Prepare(r) \/ Insert(r) \/ Load(r) \/ Check(r) \/ Store(r) \/ Delete(r)
      PROVE  EInv'
  BY <1>1, PrepareIsExplained, InsertIsExplained, LoadIsExplained, CheckIsExplained,
     StoreIsExplained, DeleteIsExplained
<1>2. CASE UNCHANGED vars
  <2>1. IInv'
    BY <1>2, NextIsSound DEF EInv
  <2>2. Ok' = Ok
    BY <1>2 DEF vars, Ok
  <2>3. Places' /\ AreMaps(stored)' /\ IsFiniteSet(Ok)'
    BY <1>2, <2>2 DEF vars, EInv, Places, AreMaps
  <2>4. Starting => Starting'
    BY <1>2 DEF vars, Starting, Entries, Run
  <2>5. ASSUME phase = "serving" PROVE Serving'
    <3>1. /\ \A k, n, c : Explained(k, n, c) => Explained(k, n, c)'
          /\ \A s : TopicsOf(s) \subseteq TopicsOf(s)'
          /\ StoredIsExplained' /\ Spines' /\ ConfiguredIsSound'
      BY <1>2, <2>2, <2>5, QuietKeeps DEF vars
    <3>2. HaveMet'
      BY <1>2, <2>5 DEF vars, EInv, Serving, HaveMet, UnderWay
    <3>3. HandsAreExplained'
      BY <1>2, <2>5, <3>1 DEF vars, EInv, Serving, HandsAreExplained, Changing
    <3>4. TopicsAreKnown'
      BY <1>2, <2>5, <3>1 DEF vars, EInv, Serving, TopicsAreKnown, Changing
    <3> QED  BY <3>1, <3>2, <3>3, <3>4 DEF Serving
  <2> QED  BY <1>2, <2>1, <2>3, <2>4, <2>5 DEF vars, EInv
<1> QED  BY <1>1, <1>2, ApplyIsExplained, ListenIsExplained DEF Next

LEMMA AlwaysExplained == Spec => []EInv
BY StartsEmpty, NextIsExplained, PTL DEF Spec

-----------------------------------------------------------------------------
(* What the server has when it begins to listen.                           *)

IsFirst(i) ==
  \A j \in 1 .. i - 1 : ~(config[j].kind = config[i].kind /\ config[j].name = config[i].name)

Shown(i) ==
  /\ Has(config[i].kind, config[i].name)
  /\ IsFirst(i) =>
       stored[config[i].kind][config[i].name] = Entity(config[i].kind, config[i].value)

\* Until then the entries that have been applied are there, and nothing else.
JustEntries ==
  phase = "starting" =>
    /\ \A i \in 1 .. next - 1 : Shown(i)
    /\ \A k \in Kind : \A n \in DOMAIN stored[k] :
         \E j \in 1 .. next - 1 : config[j].kind = k /\ config[j].name = n

LEMMA ApplyShows == ASSUME EInv, JustEntries, Apply PROVE JustEntries'
<1> DEFINE e == config[next]
<1>1. /\ phase = "starting" /\ UNCHANGED config
      /\ next \in 1 .. Len(config) /\ Len(config) \in Nat /\ e.kind \in Kind
      /\ DOMAIN stored = Kind /\ AreMaps(stored)
  BY PlanIsSound DEF EInv, IInv, StoredIsSound, Apply, Kind
<1>2. CASE phase' # "starting"
  BY <1>2 DEF JustEntries
<1>3. CASE /\ next' = next + 1
           /\ IF Has(e.kind, e.name) THEN UNCHANGED stored
              ELSE Put(e.kind, e.name, Entity(e.kind, e.value))
  <2>1. PICK l \in Nat : l = next
    BY <1>1
  <2>2. /\ \A i \in 1 .. l - 1 : Shown(i)
        /\ \A k \in Kind : \A n \in DOMAIN stored[k] :
             \E j \in 1 .. l - 1 : config[j].kind = k /\ config[j].name = n
    BY <1>1, <2>1 DEF JustEntries
  <2>3. next' - 1 = l /\ l \in 1 .. l /\ \A i \in 1 .. l : i \in 1 .. l - 1 \/ i = l
    BY <1>1, <1>3, <2>1
  <2>4. CASE Has(e.kind, e.name) /\ UNCHANGED stored
    <3>1. PICK j \in 1 .. l - 1 : config[j].kind = e.kind /\ config[j].name = e.name
      BY <1>1, <2>2, <2>4 DEF Has
    <3>2. ~IsFirst(l)
      BY <2>1, <3>1 DEF IsFirst
    <3>3. Shown(l)
      BY <2>1, <2>4, <3>2 DEF Shown
    <3>4. \A i \in 1 .. l : Shown(i)
      BY <2>2, <2>3, <3>3
    <3>5. \A i : Shown(i) => Shown(i)'
      BY <1>1, <2>4 DEF Shown, Has, IsFirst
    <3>6. \A k \in Kind : \A n \in DOMAIN stored[k] :
            \E i \in 1 .. l : config[i].kind = k /\ config[i].name = n
      BY <2>2
    <3> QED  BY <1>1, <2>3, <2>4, <3>4, <3>5, <3>6 DEF JustEntries
  <2>5. CASE ~Has(e.kind, e.name) /\ Put(e.kind, e.name, Entity(e.kind, e.value))
    <3>1. /\ \A k \in Kind \ {e.kind} : stored'[k] = stored[k]
          /\ stored'[e.kind] = With(stored[e.kind], e.name, Entity(e.kind, e.value))
      BY <1>1, <2>5, PutMaps
    <3>2. /\ DOMAIN stored'[e.kind] = DOMAIN stored[e.kind] \cup {e.name}
          /\ stored'[e.kind][e.name] = Entity(e.kind, e.value)
          /\ \A n \in DOMAIN stored[e.kind] : stored'[e.kind][n] = stored[e.kind][n]
      BY <2>5, <3>1 DEF With, Extended, Has
    <3>3. Shown(l)'
      BY <1>1, <2>1, <3>2 DEF Shown, Has
    <3>4. ASSUME NEW i \in 1 .. l - 1 PROVE Shown(i)'
      <4>1. Shown(i) /\ config[i].kind \in Kind
        BY <1>1, <2>1, <2>2, PlanIsSound DEF EInv, IInv, Kind
      <4>2. PICK k, n : k = config[i].kind /\ n = config[i].name
        OBVIOUS
      <4>3. n \in DOMAIN stored[k] /\ k \in Kind
        BY <4>1, <4>2 DEF Shown, Has
      <4>4. n \in DOMAIN stored'[k] /\ stored'[k][n] = stored[k][n]
        BY <3>1, <3>2, <4>3
      <4> QED  BY <1>1, <4>1, <4>2, <4>4 DEF Shown, Has, IsFirst
    <3>5. \A k \in Kind : \A n \in DOMAIN stored'[k] :
            \E j \in 1 .. l : config[j].kind = k /\ config[j].name = n
      <4> SUFFICES ASSUME NEW k \in Kind, NEW n \in DOMAIN stored'[k]
                   PROVE  \E j \in 1 .. l : config[j].kind = k /\ config[j].name = n
        OBVIOUS
      <4>1. CASE k = e.kind /\ n = e.name
        BY <2>1, <2>3, <4>1
      <4>2. CASE ~(k = e.kind /\ n = e.name)
        <5>1. n \in DOMAIN stored[k]
          BY <3>1, <3>2, <4>2
        <5> QED  BY <2>2, <5>1
      <4> QED  BY <4>1, <4>2
    <3>6. \A i \in 1 .. l : Shown(i)'
      BY <2>3, <3>3, <3>4
    <3>7. \A k \in Kind : \A n \in DOMAIN stored'[k] :
            \E j \in 1 .. next' - 1 : config'[j].kind = k /\ config'[j].name = n
      BY <1>1, <2>3, <3>5
    <3>8. \A i \in 1 .. next' - 1 : Shown(i)'
      BY <2>3, <3>6
    <3> HIDE DEF e
    <3> QED  BY ONLY <3>7, <3>8 DEF JustEntries
  <2> QED  BY <1>3, <2>4, <2>5
<1> QED  BY <1>2, <1>3 DEF Apply

LEMMA AlwaysJustEntries == Spec => []JustEntries
<1>1. Init => JustEntries
  BY DEF Init, JustEntries
<1>2. ASSUME EInv, JustEntries, [Next]_vars PROVE JustEntries'
  <2>1. CASE Apply
    BY <1>2, <2>1, ApplyShows
  <2>2. CASE Listen \/ \E r \in Request : \/ Prepare(r) \/ Insert(r) \/ Load(r)
                                          \/ Check(r) \/ Store(r) \/ Delete(r)
    <3>1. phase' = "serving"
      BY <2>2 DEF Listen, Prepare, Insert, Load, Check, Store, Delete, At, Go, Reply
    <3> QED  BY <3>1 DEF JustEntries
  <2>3. CASE UNCHANGED vars
    BY <1>2, <2>3 DEF vars, JustEntries, Shown, Has, IsFirst
  <2> QED  BY <1>2, <2>1, <2>2, <2>3 DEF Next
<1> QED  BY <1>1, <1>2, AlwaysExplained, PTL DEF Spec

\* The server listens once every entry of its configuration is there as the
\* first of its name describes it, and exits before only if one is not valid.
THEOREM ServesConfigured == Spec => ServesWhatIsConfigured
<1> DEFINE Shows == phase' # phase =>
             IF phase' = "serving"
             THEN \A i \in DOMAIN config :
                    LET e == config[i]
                        SameAs(j) == config[j].kind = e.kind /\ config[j].name = e.name
                    IN /\ Has(e.kind, e.name)
                       /\ (\A j \in 1 .. i - 1 : ~SameAs(j)) =>
                            stored[e.kind][e.name] = Entity(e.kind, e.value)
             ELSE \E i \in DOMAIN config : ~Settable(config[i])
<1>1. ASSUME EInv, JustEntries, [Next]_vars PROVE [Shows]_vars
  <2>1. CASE Apply
    BY <2>1 DEF Apply
  <2>2. CASE Listen
    <3>1. next = Len(config) + 1 /\ Len(config) \in Nat /\ DOMAIN config = 1 .. Len(config)
      BY <1>1, <2>2, PlanIsSound DEF Listen, EInv, IInv, StartIsSound
    <3>2. \A i \in DOMAIN config : Shown(i)
      <4>1. next - 1 = Len(config)
        BY <3>1
      <4> QED  BY <1>1, <2>2, <3>1, <4>1 DEF Listen, JustEntries
    <3> QED  BY <2>2, <3>2 DEF Listen, Shown, IsFirst
  <2>3. CASE \E r \in Request : \/ Prepare(r) \/ Insert(r) \/ Load(r)
                                \/ Check(r) \/ Store(r) \/ Delete(r)
    BY <2>3 DEF Prepare, Insert, Load, Check, Store, Delete, At, Go, Reply
  <2> QED  BY <1>1, <2>1, <2>2, <2>3 DEF Next
<1> QED  BY <1>1, AlwaysExplained, AlwaysJustEntries, PTL DEF Spec, ServesWhatIsConfigured
=============================================================================
