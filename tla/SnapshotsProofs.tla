--------------------------- MODULE SnapshotsProofs ---------------------------
(***************************************************************************)
(* Theorems about PubSub and Snapshots for every value of their constants: *)
(* any number of Publishes, Pulls, snapshots, seeks and requests for any   *)
(* names, all at once.                                                     *)
(***************************************************************************)
EXTENDS Snapshots, TLAPS

-----------------------------------------------------------------------------
(* The inductive invariant: PubInv is about the maps and the Publishes,    *)
(* QueueInv about the queues and what works on them.                       *)

PubType ==
  /\ topics \subseteq Topic
  /\ subs \in [Sub -> Subscription \cup {None}]
  /\ queue \in [Sub -> Creator \cup {None}]
  /\ at \in [Request -> {"start", "store", "init", "remove", "drop", "check",
                         "write", "done"}]
  /\ loaded \in [Updater -> Subscription \cup {None}]
  /\ now \in Times
  /\ stored \in [Msg -> Times \cup {None}]
  /\ pc \in [Publisher -> {"start", "store", "list", "done"}]
  /\ \A p \in Publisher :
       /\ sent[p] \in 0..Len(Batch[p]) /\ stamp[p] \in Times
       /\ unlisted[p] \subseteq Sub
       /\ copies[p] \subseteq [name : Sub, filter : Filter]
       /\ sending[p] \subseteq Creator \X Messages(p)
  /\ reached \subseteq Creator \X Entry

Domains ==
  /\ DOMAIN sent = Publisher /\ DOMAIN stamp = Publisher
  /\ DOMAIN unlisted = Publisher /\ DOMAIN copies = Publisher
  /\ DOMAIN sending = Publisher /\ DOMAIN due = Publisher

\* A request that writes a copy back has read one.
Loads == \A r \in Updater : at[r] \in {"check", "write"} => loaded[r] # None

\* A Publish that lists has stored its whole batch; one that sends has listed.
Stores ==
  \A p \in Publisher :
    /\ stamp[p] <= now
    /\ \A i \in 1 .. sent[p] : stored[Batch[p][i]] \in 0 .. now
    /\ pc[p] \in {"list", "done"} => sent[p] = Len(Batch[p])
    /\ copies[p] # {} => pc[p] \in {"list", "done"}
    /\ sending[p] # {} => pc[p] = "done"

\* A stored message bears the time of a Publish that has begun.
Stamped ==
  \A m \in Msg : stored[m] # None =>
    /\ stored[m] \in 0 .. now
    /\ \E p \in Publisher : pc[p] # "start" /\ m \in Messages(p) /\ stored[m] = stamp[p]

\* What a listing owes to a name and its queue is still to be listed, in a
\* copy whose goroutine is still to run, or message by message sent or about to.
Owes(p, d) ==
  /\ d \in Sub \X Creator
  /\ subs[d[1]] # None /\ subs[d[1]].topic = PublishTo[p] /\ queue[d[1]] = d[2]
  /\ \/ pc[p] = "list" /\ d[1] \in unlisted[p]
     \/ /\ pc[p] \in {"list", "done"}
        /\ [name |-> d[1], filter |-> subs[d[1]].filter] \in copies[p]
     \/ /\ pc[p] = "done"
        /\ \A m \in Messages(p) \cap Passes[subs[d[1]].filter] :
             <<d[2], m>> \in sending[p] \/ <<d[2], <<m, p>>>> \in reached
Lists == \A p \in Publisher : \A d \in due[p] : Owes(p, d)

PubInv == PubType /\ Domains /\ Loads /\ Stores /\ Stamped /\ Lists

QueueType ==
  /\ ch \in [Creator -> [Entry -> Nat]]
  /\ inFlight \in [Creator -> SUBSET Entry]
  /\ hand \in [Hand -> InHand \cup {None}]
  /\ stage \in [Walker -> {"start", "list", "putback", "finish", "choose", "drain",
                           "clear", "fill", "done"}]
  /\ target \in [Walker -> Creator \cup {None}]
  /\ \A x \in Walker : stage[x] \in {"drain", "putback", "clear", "fill"} => target[x] # None
  /\ drained \in [Taker -> [Entry -> Nat]]
  /\ listed \in [Taker -> SUBSET Msg]
  /\ todo \in [Seeker -> SUBSET Msg]
  /\ sight \in [Walker -> SUBSET Entry]
  /\ DOMAIN snaps = Snap /\ DOMAIN taking = Taker /\ DOMAIN seeking = Seeker

\* A CreateSnapshot has a time that is past, and the Publishes that had not
\* begun by then take a later one.
TookTime(c) ==
  /\ taking[c].sub \in Sub
  /\ taking[c].createdAt \in 0 .. now
  /\ \A p \in Publisher \ taking[c].early :
       pc[p] = "start" \/ stamp[p] >= taking[c].createdAt
Takes == \A c \in Taker : stage[c] # "start" => TookTime(c)

\* A ListAll puts back what it has drained, and has met it.
Returns ==
  \A c \in Taker : \A e \in Entry : drained[c][e] > 0 =>
    stage[c] \in {"drain", "putback"} /\ e[1] \in listed[c]

\* What a ListAll has in sight and not yet met is where it will look, or in
\* somebody's hands; in the end it has met it all.
Meets(c) ==
  \A e \in sight[c] :
    \/ e[1] \in listed[c]
    \/ stage[c] = "drain" /\ e \in Places(target[c])
    \/ stage[c] = "putback" /\ e \in Places(target[c]) \ Waiting(target[c])
Looks == \A c \in Taker :
           stage[c] \in {"drain", "putback", "finish"} => Meets(c)

\* A snapshot is what the request that took it read.
Taken(snap) ==
  /\ snap.by \in Taker /\ stage[snap.by] = "done"
  /\ taking[snap.by].createdAt = snap.createdAt /\ snap.createdAt \in 0 .. now
  /\ \A p \in Publisher \ taking[snap.by].early :
       pc[p] = "start" \/ stamp[p] >= snap.createdAt
  /\ {e[1] : e \in sight[snap.by]} \subseteq snap.unacked
Snaps == \A n \in Snap : snaps[n] # None => Taken(snaps[n])

\* A seek has read what was stored; what it has chosen it has yet to send or
\* has sent, and all that its snapshot owes is among it.
Gives(k) ==
  /\ seeking[k].sub \in Sub
  /\ seeking[k].base \subseteq Msg
  /\ \A m \in seeking[k].base : stored[m] \in 0 .. now
  /\ seeking[k].snap # None =>
       /\ Taken(seeking[k].snap)
       /\ seeking[k].since = seeking[k].snap.createdAt
       /\ seeking[k].unacked = seeking[k].snap.unacked
  /\ stage[k] \in {"drain", "clear", "fill"} =>
       /\ \A m \in todo[k] : stored[m] \in 0 .. now
       /\ seeking[k].snap # None =>
            \A m \in Owed(seeking[k].snap) \cap seeking[k].base :
              m \in todo[k] \/ <<target[k], <<m, k>>>> \in reached
Seeks == \A k \in Seeker : stage[k] # "start" => Gives(k)

\* The channel is empty of what a seek has in sight when it clears inFlight.
Clears ==
  \A k \in Seeker : stage[k] = "clear" => sight[k] \cap Waiting(target[k]) = {}

QueueInv ==
  QueueType /\ PendingIsStored /\ Takes /\ Returns /\ Looks /\ Snaps /\ Seeks
            /\ Clears /\ SeekReplaces

IInv == PubInv /\ QueueInv

-----------------------------------------------------------------------------
\* A Publish has messages, and the messages of its batch are all it has.
LEMMA Batches ==
  ASSUME NEW p \in Publisher
  PROVE  /\ Len(Batch[p]) \in Nat
         /\ Messages(p) \subseteq Msg
         /\ \A i \in 1 .. Len(Batch[p]) : Batch[p][i] \in Messages(p)
<1>1. Batch[p] \in Seq(Msg)
  BY PubSubAssumption
<1>2. Len(Batch[p]) \in Nat /\ \A i \in 1 .. Len(Batch[p]) : Batch[p][i] \in Msg
  BY <1>1
<1> QED  BY <1>2 DEF Messages

LEMMA InitIsSound == ASSUME Init PROVE IInv
<1> USE DEF Init, PubSubInit
<1>1. PubType
  BY Batches, PubSubAssumption DEF PubType, Times, Request
<1>2. Domains /\ Stamped /\ Lists
  BY DEF Domains, Stamped, Lists
<1>2a. Loads
  BY DEF Loads, Request
<1>2b. Stores
  BY DEF Stores
<1>3. QueueType
  BY DEF QueueType, Walker
<1>4. Takes /\ Returns /\ Looks /\ Snaps /\ Seeks /\ Clears /\ SeekReplaces
  BY DEF Takes, Returns, Looks, Snaps, Seeks, Clears, SeekReplaces, Walker
<1>5. \A q \in Creator : Places(q) = {}
  BY DEF Places, Backlog, Waiting, InHands, Drained
<1>6. PendingIsStored
  BY <1>5 DEF PendingIsStored
<1> QED  BY <1>1, <1>2, <1>2a, <1>2b, <1>3, <1>4, <1>6 DEF IInv, PubInv, QueueInv

-----------------------------------------------------------------------------
(* Steps of PubSub: they keep PubInv, and what QueueInv says of messages   *)
(* and Publishes stays so.                                                 *)

Onward ==
  /\ now' \in Times /\ now <= now'
  /\ \A m \in Msg : stored[m] \in 0 .. now => stored'[m] \in 0 .. now'
  /\ \A p \in Publisher :
       \/ pc[p] = "start" /\ pc'[p] = "start"
       \/ pc[p] = "start" /\ stamp'[p] = now
       \/ pc[p] # "start" /\ pc'[p] # "start" /\ stamp'[p] = stamp[p]

LEMMA TickIsSound == ASSUME PubInv, Tick PROVE PubInv' /\ Onward
<1> USE DEF Tick, manageVars, publishVars, history
<1>1. now \in Nat /\ now' = now + 1 /\ now' \in Times
  BY PubSubAssumption DEF PubInv, PubType, Times
<1>2. PubType' /\ Domains' /\ Loads'
  BY <1>1 DEF PubInv, PubType, Domains, Loads
<1>3. Stores' /\ Stamped'
  BY <1>1 DEF PubInv, PubType, Times, Stores, Stamped
<1>4. Lists'
  BY DEF PubInv, Lists, Owes
<1>5. Onward
  BY <1>1 DEF Onward
<1> QED  BY <1>2, <1>3, <1>4, <1>5 DEF PubInv

LEMMA SameTime ==
  ASSUME PubInv, UNCHANGED <<now, stored, pc, stamp>>
  PROVE  Onward
BY PubSubAssumption DEF Onward, PubInv, PubType, Times

LEMMA TopicIsSound ==
  ASSUME PubInv, NEW t \in Topic, CreateTopic(t) \/ DeleteTopic(t)
  PROVE  PubInv' /\ Onward
<1> USE DEF CreateTopic, DeleteTopic, manageVars, publishVars, history
<1>1. PubType' /\ Domains' /\ Loads' /\ Stores' /\ Stamped'
  BY DEF PubInv, PubType, Domains, Loads, Stores, Stamped
<1>2. Lists'
  BY DEF PubInv, Lists, Owes
<1> QED  BY <1>1, <1>2, SameTime DEF PubInv

\* Whatever a request does to a name, the listings that still owe something
\* under it owe it to the same subscription and queue.
LEMMA KeepsLists ==
  ASSUME PubInv, KeepDue, UNCHANGED <<publishVars, reached>>
  PROVE  Lists'
<1> SUFFICES ASSUME NEW p \in Publisher, NEW d \in due'[p]
             PROVE  Owes(p, d)'
  BY DEF Lists
<1>1. d \in due[p] /\ subs'[d[1]] = subs[d[1]] /\ queue'[d[1]] = queue[d[1]]
  BY DEF KeepDue
<1>2. Owes(p, d)
  BY <1>1 DEF PubInv, Lists
<1> QED  BY <1>1, <1>2 DEF Owes, publishVars

\* What a request on subscriptions leaves alone.
LEMMA ManageFrame ==
  ASSUME PubInv, UNCHANGED <<topics, now, stored, publishVars, reached>>,
         UNCHANGED due \/ KeepDue,
         subs' \in [Sub -> Subscription \cup {None}],
         queue' \in [Sub -> Creator \cup {None}],
         at' \in [Request -> {"start", "store", "init", "remove", "drop", "check",
                              "write", "done"}],
         loaded' \in [Updater -> Subscription \cup {None}],
         Loads', Lists'
  PROVE  PubInv' /\ Onward
<1> USE DEF publishVars
<1>1. PubType'
  BY DEF PubInv, PubType
<1>2. Domains' /\ Stores' /\ Stamped'
  BY DEF PubInv, Domains, Stores, Stamped, KeepDue
<1> QED  BY <1>1, <1>2, SameTime DEF PubInv

LEMMA CreateIsSound ==
  ASSUME PubInv, NEW r \in Creator,
         BeginCreate(r) \/ StoreSubscription(r) \/ InitSubscription(r)
  PROVE  PubInv' /\ Onward
<1> USE DEF At, history
<1>1. /\ r \in Request /\ r \notin Updater /\ Name[r] \in Sub
      /\ Asks[r].topic \in Topic /\ Asks[r].filter \in Filter
  BY PubSubAssumption DEF Request
<1>2. Loads'
  <2>1. \A x \in Updater : at'[x] = at[x] /\ loaded'[x] = loaded[x]
    BY <1>1 DEF PubInv, PubType, Request, BeginCreate, StoreSubscription, InitSubscription
  <2> QED  BY <2>1 DEF PubInv, Loads
<1>3. CASE BeginCreate(r)
  <2>1. Lists'
    BY <1>3 DEF BeginCreate, PubInv, Lists, Owes, publishVars
  <2> QED  BY <1>2, <1>3, <2>1, ManageFrame DEF BeginCreate, PubInv, PubType
<1>4. CASE StoreSubscription(r)
  <2>1. [topic |-> Asks[r].topic, filter |-> Asks[r].filter, by |-> r] \in Subscription
    BY <1>1 DEF Subscription
  <2>2. subs' \in [Sub -> Subscription \cup {None}]
    BY <1>1, <1>4, <2>1 DEF StoreSubscription, PubInv, PubType
  <2>3. Lists'
    BY <1>4, KeepsLists DEF StoreSubscription
  <2> QED  BY <1>2, <1>4, <2>2, <2>3, ManageFrame DEF StoreSubscription, PubInv, PubType
<1>5. CASE InitSubscription(r)
  <2>1. Lists'
    BY <1>5, KeepsLists DEF InitSubscription
  <2> QED  BY <1>1, <1>2, <1>5, <2>1, ManageFrame DEF InitSubscription, PubInv, PubType
<1> QED  BY <1>3, <1>4, <1>5

LEMMA DeleteIsSound ==
  ASSUME PubInv, NEW r \in Deleter,
         CheckDelete(r) \/ RemoveSubscription(r) \/ DropQueue(r)
  PROVE  PubInv' /\ Onward
<1> USE DEF At, history
<1>1. r \in Request /\ r \notin Updater /\ Name[r] \in Sub
  BY PubSubAssumption DEF Request
<1>2. Loads'
  <2>1. \A x \in Updater : at'[x] = at[x] /\ loaded'[x] = loaded[x]
    BY <1>1 DEF PubInv, PubType, Request, CheckDelete, RemoveSubscription, DropQueue
  <2> QED  BY <2>1 DEF PubInv, Loads
<1>3. CASE CheckDelete(r)
  <2>1. Lists'
    BY <1>3 DEF CheckDelete, PubInv, Lists, Owes, publishVars
  <2> QED  BY <1>2, <1>3, <2>1, ManageFrame DEF CheckDelete, PubInv, PubType
<1>4. CASE RemoveSubscription(r)
  <2>1. Lists'
    BY <1>4, KeepsLists DEF RemoveSubscription
  <2> QED  BY <1>2, <1>4, <2>1, ManageFrame DEF RemoveSubscription, PubInv, PubType
<1>5. CASE DropQueue(r)
  <2>1. Lists'
    BY <1>5, KeepsLists DEF DropQueue
  <2> QED  BY <1>2, <1>5, <2>1, ManageFrame DEF DropQueue, PubInv, PubType
<1> QED  BY <1>3, <1>4, <1>5

LEMMA UpdateIsSound ==
  ASSUME PubInv, NEW r \in Updater,
         LoadSubscription(r) \/ CheckUpdate(r) \/ WriteSubscription(r)
  PROVE  PubInv' /\ Onward
<1> USE DEF At, history
<1>1. r \in Request /\ Name[r] \in Sub
  BY PubSubAssumption DEF Request
<1>2. CASE LoadSubscription(r)
  <2>1. loaded' \in [Updater -> Subscription \cup {None}] /\ Loads'
    BY <1>1, <1>2 DEF LoadSubscription, PubInv, PubType, Loads
  <2>2. Lists'
    BY <1>2 DEF LoadSubscription, PubInv, Lists, Owes, publishVars
  <2> QED  BY <1>2, <2>1, <2>2, ManageFrame DEF LoadSubscription, PubInv, PubType
<1>3. CASE CheckUpdate(r)
  <2>1. Loads'
    BY <1>1, <1>3 DEF CheckUpdate, PubInv, PubType, Loads
  <2>2. Lists'
    BY <1>3 DEF CheckUpdate, PubInv, Lists, Owes, publishVars
  <2> QED  BY <1>3, <2>1, <2>2, ManageFrame DEF CheckUpdate, PubInv, PubType
<1>4. CASE WriteSubscription(r)
  <2>1. PICK t \in {loaded[r].topic, Deleted} :
          subs' = [subs EXCEPT ![Name[r]] =
            [topic |-> t, filter |-> loaded[r].filter, by |-> loaded[r].by]]
    BY <1>4 DEF WriteSubscription
  <2>2. loaded[r] \in Subscription
    BY <1>4 DEF WriteSubscription, PubInv, PubType, Loads
  <2>3. [topic |-> t, filter |-> loaded[r].filter, by |-> loaded[r].by] \in Subscription
    BY <2>2 DEF Subscription
  <2>4. subs' \in [Sub -> Subscription \cup {None}]
    BY <1>1, <2>1, <2>3 DEF PubInv, PubType
  <2>5. Loads'
    BY <1>1, <1>4 DEF WriteSubscription, PubInv, PubType, Loads
  <2>6. Lists'
    BY <1>4, KeepsLists DEF WriteSubscription
  <2> QED  BY <1>4, <2>4, <2>5, <2>6, ManageFrame DEF WriteSubscription, PubInv, PubType
<1> QED  BY <1>2, <1>3, <1>4

LEMMA StartPublishIsSound ==
  ASSUME PubInv, NEW p \in Publisher, StartPublish(p)
  PROVE  PubInv' /\ Onward
<1> USE DEF StartPublish, Goto, manageVars, history
<1>1. PubType' /\ Domains' /\ Loads'
  BY DEF PubInv, PubType, Domains, Loads
<1>2. Stores'
  BY DEF PubInv, PubType, Domains, Stores, Times
<1>3. Stamped'
  BY DEF PubInv, PubType, Domains, Stamped
<1>4. Lists'
  BY DEF PubInv, PubType, Lists, Owes
<1>5. Onward
  BY PubSubAssumption DEF PubInv, PubType, Domains, Onward, Times
<1> QED  BY <1>1, <1>2, <1>3, <1>4, <1>5 DEF PubInv

LEMMA StoreMessageIsSound ==
  ASSUME PubInv, NEW p \in Publisher, StoreMessage(p)
  PROVE  PubInv' /\ Onward
<1> DEFINE m == Batch[p][sent[p] + 1]
<1> USE DEF StoreMessage, manageVars, history
<1>1. /\ sent[p] + 1 \in 1 .. Len(Batch[p])
      /\ m \in Msg /\ m \in Messages(p)
      /\ stamp[p] \in 0 .. now
  BY Batches DEF PubInv, PubType, Times, Stores
<1>2. /\ stored' = [stored EXCEPT ![m] = stamp[p]]
      /\ stored \in [Msg -> Times \cup {None}] /\ stamp[p] \in Times
  BY DEF PubInv, PubType
<1>3. PubType' /\ Domains' /\ Loads'
  BY <1>1, <1>2 DEF PubInv, PubType, Domains, Loads
<1>4. Stores'
  <2>1. \A q \in Publisher : \A i \in 1 .. sent[q] : stored'[Batch[q][i]] \in 0 .. now
    <3> SUFFICES ASSUME NEW q \in Publisher, NEW i \in 1 .. sent[q]
                 PROVE  stored'[Batch[q][i]] \in 0 .. now
      OBVIOUS
    <3>1. stored[Batch[q][i]] \in 0 .. now
      BY DEF PubInv, Stores
    <3>2. Batch[q][i] \in Msg
      BY Batches DEF PubInv, PubType
    <3> QED  BY <1>1, <1>2, <3>1, <3>2
  <2>2. stored'[m] \in 0 .. now
    BY <1>1, <1>2
  <2>3. \A q \in Publisher : \A i \in 1 .. sent'[q] :
          i \in 1 .. sent[q] \/ (q = p /\ i = sent[p] + 1)
    BY DEF PubInv, PubType, Domains
  <2> QED  BY <2>1, <2>2, <2>3 DEF PubInv, Stores, Domains
<1>5. Stamped'
  BY <1>1, <1>2 DEF PubInv, Stamped
<1>6. Lists'
  BY DEF PubInv, Lists, Owes
<1>7. Onward
  <2>1. \A x \in Msg : stored[x] \in 0 .. now => stored'[x] \in 0 .. now
    BY <1>1, <1>2
  <2> QED  BY <2>1, PubSubAssumption DEF Onward, PubInv, PubType, Times
<1> QED  BY <1>3, <1>4, <1>5, <1>6, <1>7 DEF PubInv

LEMMA StartListingIsSound ==
  ASSUME PubInv, NEW p \in Publisher, StartListing(p)
  PROVE  PubInv' /\ Onward
<1> USE DEF StartListing, List, Goto, manageVars
<1>1. PubType' /\ Domains' /\ Loads'
  BY DEF PubInv, PubType, Domains, Loads
<1>2. Stores' /\ Stamped'
  BY DEF PubInv, PubType, Stores, Stamped
<1>3. Lists'
  <2> SUFFICES ASSUME NEW q \in Publisher, NEW d \in due'[q]
               PROVE  Owes(q, d)'
    BY DEF Lists
  <2>1. CASE q = p
    <3>1. PICK s \in Attached(PublishTo[p]) : d = <<s, queue[s]>>
      BY <2>1 DEF PubInv, Domains
    <3>2. /\ s \in Sub /\ subs[s] # None /\ subs[s].topic = PublishTo[p]
          /\ queue[s] \in Creator
      BY <3>1 DEF Attached, PubInv, PubType
    <3>3. pc'[p] = "list" /\ s \in unlisted'[p]
      BY <3>2 DEF PubInv, PubType, Domains
    <3> QED  BY <2>1, <3>1, <3>2, <3>3 DEF Owes
  <2>2. CASE q # p
    BY <2>2 DEF PubInv, PubType, Domains, Lists, Owes
  <2> QED  BY <2>1, <2>2
<1>4. Onward
  BY PubSubAssumption DEF PubInv, PubType, Onward, Times
<1> QED  BY <1>1, <1>2, <1>3, <1>4 DEF PubInv

LEMMA ListSubscriptionIsSound ==
  ASSUME PubInv, NEW p \in Publisher, NEW s \in Sub, ListSubscription(p, s)
  PROVE  PubInv' /\ Onward
<1> USE DEF ListSubscription, manageVars, history
<1>1. PubType'
  <2>1. subs[s] # None => [name |-> s, filter |-> subs[s].filter] \in [name : Sub, filter : Filter]
    BY DEF PubInv, PubType, Subscription
  <2> QED  BY <2>1 DEF PubInv, PubType, Domains
<1>2. Domains' /\ Loads' /\ Stores' /\ Stamped'
  BY DEF PubInv, Domains, Loads, Stores, Stamped
<1>3. Lists'
  <2> SUFFICES ASSUME NEW q \in Publisher, NEW d \in due[q]
               PROVE  Owes(q, d)'
    BY DEF Lists
  <2>1. Owes(q, d)
    BY DEF PubInv, Lists
  <2>2. CASE q # p
    BY <2>1, <2>2 DEF PubInv, Domains, Owes
  <2>3. CASE q = p /\ d[1] # s
    BY <2>1, <2>3 DEF PubInv, Domains, Owes
  <2>4. CASE q = p /\ d[1] = s
    <3>1. [name |-> d[1], filter |-> subs[d[1]].filter] \in copies'[p]
      BY <2>1, <2>4 DEF PubInv, Domains, Owes
    <3> QED  BY <2>1, <2>4, <3>1 DEF Owes
  <2> QED  BY <2>2, <2>3, <2>4
<1> QED  BY <1>1, <1>2, <1>3, SameTime DEF PubInv

LEMMA ReturnIsSound ==
  ASSUME PubInv, NEW p \in Publisher, Return(p)
  PROVE  PubInv' /\ Onward
<1> USE DEF Return, Goto, manageVars, history
<1>1. PubType' /\ Domains' /\ Loads'
  BY DEF PubInv, PubType, Domains, Loads
<1>2. Stores' /\ Stamped'
  BY DEF PubInv, PubType, Stores, Stamped
<1>3. Lists'
  BY DEF PubInv, PubType, Lists, Owes
<1>4. Onward
  BY PubSubAssumption DEF PubInv, PubType, Onward, Times
<1> QED  BY <1>1, <1>2, <1>3, <1>4 DEF PubInv

LEMMA FindQueueIsSound ==
  ASSUME PubInv, NEW p \in Publisher, NEW c \in copies[p], FindQueue(p, c)
  PROVE  PubInv' /\ Onward
<1> USE DEF FindQueue, manageVars, history
<1>1. c \in [name : Sub, filter : Filter] /\ pc[p] = "done"
  BY DEF PubInv, PubType
<1>2. Matching(p, c) \subseteq Messages(p)
  BY DEF Matching
<1>3. PubType'
  <2>1. queue[c.name] # None =>
          {queue[c.name]} \X Matching(p, c) \subseteq Creator \X Messages(p)
    BY <1>1, <1>2 DEF PubInv, PubType
  <2> QED  BY <2>1 DEF PubInv, PubType, Domains
<1>4. Domains' /\ Loads' /\ Stores' /\ Stamped'
  BY <1>1 DEF PubInv, Domains, Loads, Stores, Stamped
<1>5. Lists'
  <2> SUFFICES ASSUME NEW q \in Publisher, NEW d \in due[q]
               PROVE  Owes(q, d)'
    BY DEF Lists
  <2>1. Owes(q, d) /\ sending[q] \subseteq sending'[q]
    BY DEF PubInv, Lists, Domains
  <2>2. CASE q # p \/ c # [name |-> d[1], filter |-> subs[d[1]].filter]
    BY <2>1, <2>2 DEF PubInv, Domains, Owes
  <2>3. CASE q = p /\ c = [name |-> d[1], filter |-> subs[d[1]].filter]
    <3>1. c.name = d[1] /\ c.filter = subs[d[1]].filter /\ queue[c.name] = d[2]
          /\ d[2] \in Creator
      BY <2>1, <2>3 DEF Owes
    <3>2. {d[2]} \X Matching(p, c) \subseteq sending'[p]
      BY <3>1, PubSubAssumption DEF PubInv, Domains
    <3>3. \A m \in Messages(p) \cap Passes[subs[d[1]].filter] : <<d[2], m>> \in sending'[p]
      BY <3>1, <3>2 DEF Matching
    <3> QED  BY <1>1, <2>1, <2>3, <3>3 DEF Owes
  <2> QED  BY <2>2, <2>3
<1> QED  BY <1>3, <1>4, <1>5, SameTime DEF PubInv

LEMMA PubSubStepIsSound ==
  ASSUME PubInv, PubSubStep
  PROVE  PubInv' /\ Onward /\ UNCHANGED <<ch, reached>>
<1>1. UNCHANGED <<ch, reached>>
  BY DEF PubSubStep, Tick, Manage, CreateTopic, DeleteTopic, BeginCreate,
     StoreSubscription, InitSubscription, CheckDelete, RemoveSubscription, DropQueue,
     LoadSubscription, CheckUpdate, WriteSubscription, Publish, StartPublish,
     StoreMessage, StartListing, List, ListSubscription, Return, FindQueue, history
<1>2. CASE Tick
  BY <1>1, <1>2, TickIsSound
<1>3. CASE Manage
  BY <1>1, <1>3, TopicIsSound, CreateIsSound, DeleteIsSound, UpdateIsSound DEF Manage
<1>4. ASSUME NEW p \in Publisher, Publish(p) PROVE PubInv' /\ Onward
  BY <1>4, StartPublishIsSound, StoreMessageIsSound, StartListingIsSound,
     ReturnIsSound, ListSubscriptionIsSound, FindQueueIsSound DEF Publish
<1> QED  BY <1>1, <1>2, <1>3, <1>4 DEF PubSubStep

\* The other steps leave all this alone, but for what has been sent.
LEMMA OthersFrame ==
  ASSUME PubInv, UNCHANGED others, reached \subseteq reached',
         reached' \subseteq Creator \X Entry
  PROVE  PubInv'
<1> USE DEF others, manageVars, publishVars
<1>1. PubType' /\ Domains' /\ Loads' /\ Stores' /\ Stamped'
  BY DEF PubInv, PubType, Domains, Loads, Stores, Stamped
<1>2. Lists'
  BY DEF PubInv, Lists, Owes
<1> QED  BY <1>1, <1>2 DEF PubInv

LEMMA SendNextIsSound ==
  ASSUME PubInv, NEW p \in Publisher, NEW q \in Creator, NEW m \in Msg, SendNext(p, q, m)
  PROVE  PubInv' /\ stored[m] \in 0 .. now /\ <<m, p>> \in Entry
<1> USE DEF SendNext, manageVars
<1>1. m \in Messages(p) /\ pc[p] = "done" /\ <<m, p>> \in Entry
  BY PubSubAssumption DEF PubInv, PubType, Stores, Entry
<1>2. stored[m] \in 0 .. now
  <2>1. PICK i \in 1 .. Len(Batch[p]) : m = Batch[p][i]
    BY <1>1 DEF Messages
  <2> QED  BY <1>1, <2>1 DEF PubInv, Stores
<1>3. PubType'
  <2>1. \A r \in Publisher : sending'[r] \subseteq sending[r]
    BY DEF PubInv, Domains
  <2>2. reached' \subseteq Creator \X Entry
    BY <1>1 DEF PubInv, PubType
  <2> QED  BY <2>1, <2>2 DEF PubInv, PubType
<1>4. Domains' /\ Loads' /\ Stores' /\ Stamped'
  BY <1>1 DEF PubInv, Domains, Loads, Stores, Stamped
<1>5. Lists'
  <2> SUFFICES ASSUME NEW r \in Publisher, NEW d \in due[r]
               PROVE  Owes(r, d)'
    BY DEF Lists
  <2>1. Owes(r, d) /\ reached \subseteq reached'
    BY DEF PubInv, Lists
  <2>2. \A x \in Msg : <<d[2], x>> \in sending[r] =>
          <<d[2], x>> \in sending'[r] \/ <<d[2], <<x, r>>>> \in reached'
    BY <2>1 DEF PubInv, Domains
  <2>3. Messages(r) \subseteq Msg
    BY Batches
  <2> QED  BY <2>1, <2>2, <2>3 DEF Owes
<1> QED  BY <1>1, <1>2, <1>3, <1>4, <1>5 DEF PubInv

-----------------------------------------------------------------------------
(* Channels, hands and the entries' places.                                *)

LEMMA PutFacts ==
  ASSUME QueueType, NEW q \in Creator, NEW e \in Entry, Put(q, e)
  PROVE  /\ ch' \in [Creator -> [Entry -> Nat]]
         /\ \A x \in Creator :
              Waiting(x)' = Waiting(x) \cup (IF x = q THEN {e} ELSE {})
<1>1. ch \in [Creator -> [Entry -> Nat]]
  BY DEF QueueType
<1>2. ch' = [ch EXCEPT ![q] = [ch[q] EXCEPT ![e] = ch[q][e] + 1]]
  BY <1>1 DEF Put
<1>3. [ch[q] EXCEPT ![e] = ch[q][e] + 1] \in [Entry -> Nat]
  BY <1>1
<1>4. \A x \in Creator, d \in Entry :
        ch'[x][d] = IF x = q /\ d = e THEN ch[x][d] + 1 ELSE ch[x][d]
  BY <1>1, <1>2
<1>5. \A x \in Creator, d \in Entry : ch[x][d] \in Nat
  BY <1>1
<1>6. ASSUME NEW x \in Creator
      PROVE  Waiting(x)' = Waiting(x) \cup (IF x = q THEN {e} ELSE {})
  BY <1>4, <1>5 DEF Waiting
<1> QED  BY <1>1, <1>2, <1>3, <1>6

LEMMA GetFacts ==
  ASSUME QueueType, NEW q \in Creator, NEW e \in Entry, ch[q][e] > 0, Get(q, e)
  PROVE  /\ ch' \in [Creator -> [Entry -> Nat]]
         /\ e \in Waiting(q)
         /\ \A x \in Creator : /\ Waiting(x)' \subseteq Waiting(x)
                               /\ \A d \in Waiting(x) : d \in Waiting(x)' \/ (x = q /\ d = e)
<1>1. ch \in [Creator -> [Entry -> Nat]]
  BY DEF QueueType
<1>2. ch' = [ch EXCEPT ![q] = [ch[q] EXCEPT ![e] = ch[q][e] - 1]]
  BY <1>1 DEF Get
<1>3. ch[q][e] \in Nat /\ ch[q][e] - 1 \in Nat
  BY <1>1
<1>4. [ch[q] EXCEPT ![e] = ch[q][e] - 1] \in [Entry -> Nat]
  BY <1>1, <1>3
<1>5. \A x \in Creator, d \in Entry :
        ch'[x][d] = IF x = q /\ d = e THEN ch[x][d] - 1 ELSE ch[x][d]
  BY <1>1, <1>2
<1>6. \A x \in Creator, d \in Entry : ch[x][d] \in Nat
  BY <1>1
<1>7. ASSUME NEW x \in Creator
      PROVE  /\ Waiting(x)' \subseteq Waiting(x)
             /\ \A d \in Waiting(x) : d \in Waiting(x)' \/ (x = q /\ d = e)
  BY <1>5, <1>6 DEF Waiting
<1> QED  BY <1>1, <1>2, <1>4, <1>7 DEF Waiting

\* Somebody has e of q in hand.
Has(q, e) ==
  \E h \in Hand : hand[h] # None /\ hand[h].queue = q /\ hand[h].entry = e

LEMMA PlacesFacts ==
  ASSUME QueueType, NEW q \in Creator
  PROVE  /\ Places(q) \subseteq Entry
         /\ \A e \in Entry :
              e \in Places(q) <=>
                e \in Waiting(q) \/ e \in inFlight[q] \/ e \in Drained(q) \/ Has(q, e)
<1>1. \A h \in Hand : hand[h] # None => hand[h].entry \in Entry
  BY DEF QueueType, InHand
<1> QED  BY <1>1 DEF QueueType, Places, Backlog, Waiting, InHands, Drained, Has, InHand

\* The lemma above, of the next state.
LEMMA PlacesNext ==
  ASSUME QueueType', NEW q \in Creator
  PROVE  /\ Places(q)' \subseteq Entry
         /\ \A e \in Entry :
              e \in Places(q)' <=>
                e \in Waiting(q)' \/ e \in inFlight'[q] \/ e \in Drained(q)' \/ Has(q, e)'
<1>1. \A h \in Hand : hand'[h] # None => hand'[h].entry \in Entry
  BY DEF QueueType, InHand
<1> QED  BY <1>1 DEF QueueType, Places, Backlog, Waiting, InHands, Drained, Has, InHand

LEMMA SamePlaces ==
  ASSUME QueueInv, UNCHANGED <<ch, inFlight, hand, drained>>,
         \A c \in Taker : target'[c] = target[c] \/ \A e \in Entry : drained[c][e] = 0
  PROVE  \A q \in Creator : Places(q)' = Places(q) /\ Waiting(q)' = Waiting(q)
<1>1. ASSUME NEW q \in Creator PROVE Drained(q)' = Drained(q)
  BY DEF Drained
<1> QED  BY <1>1 DEF Places, Backlog, Waiting, InHands

\* A snapshot that a request has taken stays what it read.
LEMMA TakenStays ==
  ASSUME QueueInv, NEW snap, Taken(snap), UNCHANGED <<now, pc, stamp>>,
         \A c \in Taker : stage[c] = "done" =>
           /\ stage'[c] = "done" /\ taking'[c] = taking[c] /\ sight'[c] \subseteq sight[c]
  PROVE  Taken(snap)' /\ Owed(snap)' \subseteq Owed(snap)
<1> DEFINE c == snap.by
<1>1. /\ c \in Taker /\ stage'[c] = "done" /\ taking'[c] = taking[c]
      /\ sight'[c] \subseteq sight[c]
  BY DEF Taken
<1> QED  BY <1>1 DEF Taken, Owed, TopicOf

-----------------------------------------------------------------------------
(* Steps that move entries from one place to another.                      *)

\* Whoever works on q has e in sight no more, or has met it.
Hidden(q, e) ==
  \A x \in Walker : target[x] = q =>
    e \notin sight'[x] \/ (x \in Taker /\ e[1] \in listed'[x])

LEMMA MoveIsSound ==
  ASSUME IInv, PubInv', QueueType',
         UNCHANGED <<now, stored, pc, stamp>>, reached \subseteq reached',
         UNCHANGED <<stage, target, snaps, taking, seeking>>,
         \A k \in Seeker :
           /\ todo'[k] \subseteq todo[k]
           /\ \A m \in todo[k] : m \in todo'[k] \/ <<target[k], <<m, k>>>> \in reached',
         \A x \in Walker : sight'[x] \subseteq sight[x],
         \A c \in Taker : listed[c] \subseteq listed'[c],
         Returns',
         \A q \in Creator :
           /\ \A e \in Places(q)' :
                e \in Places(q) \/ (stored[e[1]] \in 0 .. now /\ Hidden(q, e))
           /\ \A e \in Waiting(q)' : e \in Waiting(q) \/ Hidden(q, e)
           /\ \A e \in Places(q) :
                e \in Places(q)' \/ \A c \in Taker : target[c] = q => e \notin sight'[c]
  PROVE  IInv'
<1> USE DEF QueueInv
<1>1. PendingIsStored'
  BY DEF IInv, PendingIsStored
<1>2. Takes'
  BY DEF IInv, Takes, TookTime
<1>3. Looks'
  <2> SUFFICES ASSUME NEW c \in Taker, stage[c] \in {"drain", "putback", "finish"},
                      NEW e \in sight'[c], e[1] \notin listed'[c]
               PROVE  \/ stage[c] = "drain" /\ e \in Places(target[c])'
                      \/ stage[c] = "putback" /\ e \in Places(target[c])' \ Waiting(target[c])'
    BY DEF Looks, Meets
  <2>1. c \in Walker /\ e \in sight[c] /\ e[1] \notin listed[c]
    BY DEF Walker
  <2>2. /\ stage[c] \in {"drain", "putback"}
        /\ e \in Places(target[c])
        /\ stage[c] = "putback" => e \notin Waiting(target[c])
    BY <2>1 DEF IInv, Looks, Meets
  <2>3. target[c] \in Creator
    BY <2>1, <2>2 DEF IInv, QueueType
  <2>4. e \in Places(target[c])'
    BY <2>2, <2>3
  <2>5. ~Hidden(target[c], e)
    BY <2>1 DEF Hidden
  <2> QED  BY <2>2, <2>3, <2>4, <2>5
<1>4. ASSUME NEW snap, Taken(snap) PROVE Taken(snap)' /\ Owed(snap)' \subseteq Owed(snap)
  BY <1>4, TakenStays DEF IInv, Walker
<1>5. Snaps'
  BY <1>4 DEF IInv, Snaps
<1>6. Seeks'
  <2> SUFFICES ASSUME NEW k \in Seeker, stage[k] # "start" PROVE Gives(k)'
    BY DEF Seeks
  <2>1. Gives(k)
    BY DEF IInv, Seeks
  <2> QED  BY <1>4, <2>1 DEF Gives
<1>7. Clears' /\ SeekReplaces'
  <2> SUFFICES ASSUME NEW k \in Seeker, stage[k] \in {"clear", "fill"}
               PROVE  /\ stage[k] = "clear" => sight'[k] \cap Waiting(target[k])' = {}
                      /\ stage[k] = "fill" => sight'[k] \cap Places(target[k])' = {}
    BY DEF Clears, SeekReplaces
  <2>1. k \in Walker /\ k \notin Taker /\ target[k] \in Creator
    BY SnapshotsAssumption DEF IInv, QueueType, Walker
  <2>2. \A e \in Entry : Hidden(target[k], e) => e \notin sight'[k]
    BY <2>1 DEF Hidden
  <2>3. sight'[k] \subseteq sight[k] /\ sight'[k] \subseteq Entry
    BY <2>1 DEF QueueType
  <2>4. CASE stage[k] = "clear"
    BY <2>1, <2>2, <2>3, <2>4 DEF IInv, Clears
  <2>5. CASE stage[k] = "fill"
    BY <2>1, <2>2, <2>3, <2>5 DEF IInv, SeekReplaces
  <2> QED  BY <2>4, <2>5
<1> QED  BY <1>1, <1>2, <1>3, <1>5, <1>6, <1>7 DEF IInv

LEMMA HideFacts ==
  ASSUME QueueType, NEW X, NEW q, NEW E, HideFrom(X, q, E)
  PROVE  /\ sight' \in [Walker -> SUBSET Entry]
         /\ \A x \in Walker : /\ sight'[x] \subseteq sight[x]
                              /\ x \in X /\ target[x] = q => \A e \in E : e \notin sight'[x]
BY DEF QueueType, HideFrom

LEMMA GainFacts ==
  ASSUME QueueType, NEW h \in Hand, hand[h] = None, NEW rec \in InHand,
         hand' = [hand EXCEPT ![h] = rec]
  PROVE  /\ hand' \in [Hand -> InHand \cup {None}]
         /\ \A q, e : Has(q, e)' <=> Has(q, e) \/ (q = rec.queue /\ e = rec.entry)
<1>1. \A g \in Hand : hand'[g] = IF g = h THEN rec ELSE hand[g]
  BY DEF QueueType
<1>2. rec # None
  BY SnapshotsAssumption
<1>3. hand' \in [Hand -> InHand \cup {None}]
  BY DEF QueueType
<1>4. ASSUME NEW q, NEW e
      PROVE  Has(q, e)' <=> Has(q, e) \/ (q = rec.queue /\ e = rec.entry)
  BY <1>1, <1>2 DEF Has
<1> QED  BY <1>3, <1>4

LEMMA LoseFacts ==
  ASSUME QueueType, NEW h \in Hand, hand[h] # None, hand' = [hand EXCEPT ![h] = None]
  PROVE  /\ hand' \in [Hand -> InHand \cup {None}]
         /\ Has(hand[h].queue, hand[h].entry)
         /\ \A q, e : /\ Has(q, e)' => Has(q, e)
                      /\ Has(q, e) => Has(q, e)' \/ (q = hand[h].queue /\ e = hand[h].entry)
<1>1. \A g \in Hand : hand'[g] = IF g = h THEN None ELSE hand[g]
  BY DEF QueueType
<1>2. hand' \in [Hand -> InHand \cup {None}]
  BY DEF QueueType
<1>3. ASSUME NEW q, NEW e
      PROVE  /\ Has(q, e)' => Has(q, e)
             /\ Has(q, e) => Has(q, e)' \/ (q = hand[h].queue /\ e = hand[h].entry)
  BY <1>1 DEF Has
<1> QED  BY <1>2, <1>3 DEF Has

LEMMA SendIsSound ==
  ASSUME IInv, NEW p \in Publisher, NEW q \in Creator, NEW m \in Msg, Send(p, q, m)
  PROVE  IInv'
<1> DEFINE e == <<m, p>>
<1> USE DEF Send, pullVars, takeVars, seekVars
<1>1. PubInv' /\ stored[m] \in 0 .. now /\ e \in Entry
  BY SendNextIsSound DEF IInv
<1>2. Put(q, e) /\ HideFrom(Walker, q, {e}) /\ QueueType /\ reached \subseteq reached'
      /\ UNCHANGED <<now, stored, pc, stamp>>
  BY DEF SendNext, IInv, QueueInv
<1>3. QueueType'
  BY <1>1, <1>2, PutFacts, HideFacts DEF QueueType
<1>4. Returns'
  BY DEF IInv, QueueInv, Returns
<1>5. \A x \in Walker : sight'[x] \subseteq sight[x]
  BY <1>2, HideFacts
<1>6. ASSUME NEW x \in Creator, NEW d \in Entry
      PROVE  /\ d \in Waiting(x)' <=> d \in Waiting(x) \/ (x = q /\ d = e)
             /\ d \in Places(x)' <=> d \in Places(x) \/ (x = q /\ d = e)
  <2>1. Has(x, d)' <=> Has(x, d)
    BY DEF Has
  <2>2. d \in Drained(x)' <=> d \in Drained(x)
    BY DEF Drained
  <2>3. d \in Waiting(x)' <=> d \in Waiting(x) \/ (x = q /\ d = e)
    BY <1>1, <1>2, PutFacts
  <2> QED  BY <1>2, <1>3, <2>1, <2>2, <2>3, PlacesFacts, PlacesNext
<1>7. Hidden(q, e)
  BY <1>2, HideFacts DEF Hidden
<1>8. \A x \in Creator : /\ Places(x) \subseteq Entry /\ Places(x)' \subseteq Entry
                         /\ Waiting(x)' \subseteq Entry
  BY <1>2, <1>3, PlacesFacts, PlacesNext DEF Waiting
<1> QED  BY <1>1, <1>2, <1>3, <1>4, <1>5, <1>6, <1>7, <1>8, MoveIsSound

LEMMA TakeIsSound ==
  ASSUME IInv, NEW h \in Hand, NEW q \in Creator, NEW e \in Entry, Take(h, q, e)
  PROVE  IInv'
<1> USE DEF Take, others, publishVars, takeVars, seekVars
<1>1. PICK next \in {"store", "putback"} :
        hand' = [hand EXCEPT ![h] = [queue |-> q, entry |-> e, next |-> next]]
  OBVIOUS
<1> DEFINE rec == [queue |-> q, entry |-> e, next |-> next]
<1>2. rec \in InHand /\ rec.queue = q /\ rec.entry = e
  BY DEF InHand
<1>3. QueueType /\ Get(q, e) /\ PubInv'
  BY OthersFrame DEF IInv, QueueInv, PubInv, PubType
<1>4. QueueType'
  <2>1. ch' \in [Creator -> [Entry -> Nat]] /\ hand' \in [Hand -> InHand \cup {None}]
    BY <1>1, <1>2, <1>3, GetFacts, GainFacts
  <2> QED  BY <1>3, <2>1 DEF QueueType
<1>5. Returns'
  BY DEF IInv, QueueInv, Returns
<1>6. ASSUME NEW x \in Creator, NEW d \in Entry
      PROVE  /\ d \in Waiting(x)' => d \in Waiting(x)
             /\ d \in Places(x)' <=> d \in Places(x)
  <2>1. Has(x, d)' <=> Has(x, d) \/ (x = q /\ d = e)
    BY <1>1, <1>2, <1>3, GainFacts
  <2>2. d \in Drained(x)' <=> d \in Drained(x)
    BY DEF Drained
  <2>3. /\ e \in Waiting(q)
        /\ d \in Waiting(x)' => d \in Waiting(x)
        /\ d \in Waiting(x) => d \in Waiting(x)' \/ (x = q /\ d = e)
    BY <1>3, GetFacts
  <2> QED  BY <1>3, <1>4, <2>1, <2>2, <2>3, PlacesFacts, PlacesNext
<1>7. \A x \in Creator : /\ Places(x) \subseteq Entry /\ Places(x)' \subseteq Entry
                         /\ Waiting(x)' \subseteq Entry
  BY <1>3, <1>4, PlacesFacts, PlacesNext DEF Waiting
<1> QED  BY <1>3, <1>4, <1>5, <1>6, <1>7, MoveIsSound

LEMMA StoreInFlightIsSound ==
  ASSUME IInv, NEW h \in Hand, StoreInFlight(h)
  PROVE  IInv'
<1> DEFINE q == hand[h].queue
           e == hand[h].entry
<1> USE DEF StoreInFlight, pubsubVars, manageVars, publishVars, history, takeVars, seekVars
<1>1. QueueType /\ PubInv' /\ q \in Creator /\ e \in Entry
  BY OthersFrame DEF IInv, QueueInv, PubInv, PubType, QueueType, InHand, others
<1>2. inFlight' = [inFlight EXCEPT ![q] = inFlight[q] \cup {e}]
  BY DEF StoreInFlight
<1>3. QueueType'
  <2>1. inFlight' \in [Creator -> SUBSET Entry] /\ hand' \in [Hand -> InHand \cup {None}]
    BY <1>1, <1>2, LoseFacts DEF QueueType
  <2> QED  BY <1>1, <2>1 DEF QueueType
<1>4. Returns'
  BY DEF IInv, QueueInv, Returns
<1>5. ASSUME NEW x \in Creator, NEW d \in Entry
      PROVE  /\ d \in Waiting(x)' <=> d \in Waiting(x)
             /\ d \in Places(x)' <=> d \in Places(x)
  <2>1. /\ Has(q, e) /\ (Has(x, d)' => Has(x, d))
        /\ Has(x, d) => Has(x, d)' \/ (x = q /\ d = e)
    BY <1>1, LoseFacts
  <2>2. /\ d \in Drained(x)' <=> d \in Drained(x)
        /\ d \in Waiting(x)' <=> d \in Waiting(x)
    BY DEF Drained, Waiting
  <2>3. d \in inFlight'[x] <=> d \in inFlight[x] \/ (x = q /\ d = e)
    BY <1>1, <1>2 DEF QueueType
  <2> QED  BY <1>1, <1>3, <2>1, <2>2, <2>3, PlacesFacts, PlacesNext
<1>6. \A x \in Creator : /\ Places(x) \subseteq Entry /\ Places(x)' \subseteq Entry
                         /\ Waiting(x)' \subseteq Entry
  BY <1>1, <1>3, PlacesFacts, PlacesNext DEF Waiting
<1> QED  BY <1>1, <1>3, <1>4, <1>5, <1>6, MoveIsSound

LEMMA FindExpiredIsSound ==
  ASSUME IInv, NEW h \in Hand, NEW q \in Creator, NEW e \in Entry, FindExpired(h, q, e)
  PROVE  IInv'
<1> DEFINE rec == [queue |-> q, entry |-> e, next |-> "delete"]
<1> USE DEF FindExpired, pubsubVars, manageVars, publishVars, history, takeVars, seekVars
<1>1. QueueType /\ PubInv' /\ rec \in InHand /\ rec.queue = q /\ rec.entry = e
  BY OthersFrame DEF IInv, QueueInv, PubInv, PubType, InHand, others
<1>2. QueueType'
  <2>1. hand' \in [Hand -> InHand \cup {None}]
    BY <1>1, GainFacts
  <2> QED  BY <1>1, <2>1 DEF QueueType
<1>3. Returns'
  BY DEF IInv, QueueInv, Returns
<1>4. ASSUME NEW x \in Creator, NEW d \in Entry
      PROVE  /\ d \in Waiting(x)' <=> d \in Waiting(x)
             /\ d \in Places(x)' <=> d \in Places(x)
  <2>1. Has(x, d)' <=> Has(x, d) \/ (x = q /\ d = e)
    BY <1>1, GainFacts
  <2>2. /\ d \in Drained(x)' <=> d \in Drained(x)
        /\ d \in Waiting(x)' <=> d \in Waiting(x)
    BY DEF Drained, Waiting
  <2> QED  BY <1>1, <1>2, <2>1, <2>2, PlacesFacts, PlacesNext
<1>5. \A x \in Creator : /\ Places(x) \subseteq Entry /\ Places(x)' \subseteq Entry
                         /\ Waiting(x)' \subseteq Entry
  BY <1>1, <1>2, PlacesFacts, PlacesNext DEF Waiting
<1> QED  BY <1>1, <1>2, <1>3, <1>4, <1>5, MoveIsSound

LEMMA DeleteExpiredIsSound ==
  ASSUME IInv, NEW h \in Hand, DeleteExpired(h)
  PROVE  IInv'
<1> DEFINE q == hand[h].queue
           e == hand[h].entry
<1> USE DEF DeleteExpired, pubsubVars, manageVars, publishVars, history, takeVars, seekVars
<1>1. QueueType /\ PubInv' /\ q \in Creator /\ e \in Entry /\ hand[h] \in InHand
  BY OthersFrame DEF IInv, QueueInv, PubInv, PubType, QueueType, InHand, others
<1>2. inFlight' = [inFlight EXCEPT ![q] = inFlight[q] \ {e}]
  BY DEF DeleteExpired
<1> DEFINE rec == [queue |-> q, entry |-> e, next |-> "putback"]
<1>3. hand[h] = [queue |-> q, entry |-> e, next |-> hand[h].next]
  BY <1>1 DEF InHand
<1>4. rec \in InHand /\ rec.queue = q /\ rec.entry = e /\ rec # None
  BY <1>1, SnapshotsAssumption DEF InHand
<1>4a. \A g \in Hand : hand'[g] = IF g = h THEN rec ELSE hand[g]
  <2>1. hand' = [hand EXCEPT ![h] = [hand[h] EXCEPT !.next = "putback"]]
    OBVIOUS
  <2>2. [hand[h] EXCEPT !.next = "putback"] = rec
    BY <1>3
  <2> HIDE DEF rec
  <2> QED  BY <2>1, <2>2, <1>1 DEF QueueType
<1> HIDE DEF rec
<1>5. QueueType'
  <2>1. hand' \in [Hand -> InHand \cup {None}]
    <3>1. hand' = [g \in Hand |-> hand'[g]]
      BY <1>1 DEF QueueType
    <3>2. \A g \in Hand : hand'[g] \in InHand \cup {None}
      BY <1>1, <1>4, <1>4a DEF QueueType
    <3> QED  BY <3>1, <3>2
  <2>2. inFlight' \in [Creator -> SUBSET Entry]
    BY <1>1, <1>2 DEF QueueType
  <2> QED  BY <1>1, <2>1, <2>2 DEF QueueType
<1>6. Returns'
  BY DEF IInv, QueueInv, Returns
<1>7. ASSUME NEW x \in Creator, NEW d \in Entry
      PROVE  /\ d \in Waiting(x)' <=> d \in Waiting(x)
             /\ d \in Places(x)' <=> d \in Places(x)
  <2>1. (Has(x, d)' <=> Has(x, d)) /\ Has(q, e)
    <3>1. \A g \in Hand :
            /\ (hand'[g] # None) <=> (hand[g] # None)
            /\ hand[g] # None => /\ hand'[g].queue = hand[g].queue
                                 /\ hand'[g].entry = hand[g].entry
      BY <1>4, <1>4a
    <3> QED  BY <3>1 DEF Has
  <2>2. /\ d \in Drained(x)' <=> d \in Drained(x)
        /\ d \in Waiting(x)' <=> d \in Waiting(x)
    BY DEF Drained, Waiting
  <2>3. /\ d \in inFlight'[x] => d \in inFlight[x]
        /\ d \in inFlight[x] => d \in inFlight'[x] \/ (x = q /\ d = e)
    BY <1>1, <1>2 DEF QueueType
  <2> QED  BY <1>1, <1>5, <2>1, <2>2, <2>3, PlacesFacts, PlacesNext
<1>8. \A x \in Creator : /\ Places(x) \subseteq Entry /\ Places(x)' \subseteq Entry
                         /\ Waiting(x)' \subseteq Entry
  BY <1>1, <1>5, PlacesFacts, PlacesNext DEF Waiting
<1> QED  BY <1>1, <1>5, <1>6, <1>7, <1>8, MoveIsSound

LEMMA PutBackIsSound ==
  ASSUME IInv, NEW h \in Hand, PutBack(h)
  PROVE  IInv'
<1> DEFINE q == hand[h].queue
           e == hand[h].entry
<1> USE DEF PutBack, others, publishVars, takeVars, seekVars
<1>1. QueueType /\ PubInv' /\ q \in Creator /\ e \in Entry
  BY OthersFrame DEF IInv, QueueInv, PubInv, PubType, QueueType, InHand
<1>2. QueueType'
  <2>1. ch' \in [Creator -> [Entry -> Nat]] /\ hand' \in [Hand -> InHand \cup {None}]
        /\ sight' \in [Walker -> SUBSET Entry]
    BY <1>1, PutFacts, LoseFacts, HideFacts
  <2> QED  BY <1>1, <2>1 DEF QueueType
<1>3. Returns'
  BY DEF IInv, QueueInv, Returns
<1>4. ASSUME NEW x \in Creator, NEW d \in Entry
      PROVE  /\ d \in Waiting(x)' <=> d \in Waiting(x) \/ (x = q /\ d = e)
             /\ d \in Places(x)' <=> d \in Places(x)
  <2>1. /\ Has(q, e) /\ (Has(x, d)' => Has(x, d))
        /\ Has(x, d) => Has(x, d)' \/ (x = q /\ d = e)
    BY <1>1, LoseFacts
  <2>2. d \in Drained(x)' <=> d \in Drained(x)
    BY DEF Drained
  <2>3. d \in Waiting(x)' <=> d \in Waiting(x) \/ (x = q /\ d = e)
    BY <1>1, PutFacts
  <2> QED  BY <1>1, <1>2, <2>1, <2>2, <2>3, PlacesFacts, PlacesNext
<1>5. Hidden(q, e) /\ \A x \in Walker : sight'[x] \subseteq sight[x]
  BY <1>1, HideFacts DEF Hidden
<1>6. \A x \in Creator : /\ Places(x) \subseteq Entry /\ Places(x)' \subseteq Entry
                         /\ Waiting(x)' \subseteq Entry
  BY <1>1, <1>2, PlacesFacts, PlacesNext DEF Waiting
<1> QED  BY <1>1, <1>2, <1>3, <1>4, <1>5, <1>6, MoveIsSound

LEMMA AcknowledgeIsSound ==
  ASSUME IInv, NEW q \in Creator, NEW e \in Entry, Acknowledge(q, e)
  PROVE  IInv'
<1> USE DEF Acknowledge, pubsubVars, manageVars, publishVars, history, takeVars, seekVars
<1>1. QueueType /\ PubInv'
  BY OthersFrame DEF IInv, QueueInv, PubInv, PubType, others
<1>2. QueueType'
  <2>1. inFlight' \in [Creator -> SUBSET Entry]
    BY <1>1 DEF QueueType
  <2> QED  BY <1>1, <2>1, HideFacts DEF QueueType
<1>3. Returns'
  BY DEF IInv, QueueInv, Returns
<1>4. ASSUME NEW x \in Creator, NEW d \in Entry
      PROVE  /\ d \in Waiting(x)' <=> d \in Waiting(x)
             /\ d \in Places(x)' => d \in Places(x)
             /\ d \in Places(x) => d \in Places(x)' \/ (x = q /\ d = e)
  <2>1. Has(x, d)' <=> Has(x, d)
    BY DEF Has
  <2>2. /\ d \in Drained(x)' <=> d \in Drained(x)
        /\ d \in Waiting(x)' <=> d \in Waiting(x)
    BY DEF Drained, Waiting
  <2>3. /\ d \in inFlight'[x] => d \in inFlight[x]
        /\ d \in inFlight[x] => d \in inFlight'[x] \/ (x = q /\ d = e)
    BY <1>1 DEF QueueType
  <2> QED  BY <1>1, <1>2, <2>1, <2>2, <2>3, PlacesFacts, PlacesNext
<1>5. /\ \A x \in Walker : sight'[x] \subseteq sight[x]
      /\ \A c \in Taker : target[c] = q => e \notin sight'[c]
  BY <1>1, HideFacts DEF Walker
<1>6. \A x \in Creator : /\ Places(x) \subseteq Entry /\ Places(x)' \subseteq Entry
                         /\ Waiting(x)' \subseteq Entry
  BY <1>1, <1>2, PlacesFacts, PlacesNext DEF Waiting
<1> QED  BY <1>1, <1>2, <1>3, <1>4, <1>5, <1>6, MoveIsSound

LEMMA ListDrainIsSound ==
  ASSUME IInv, NEW c \in Taker, NEW e \in Entry, ListDrain(c, e)
  PROVE  IInv'
<1> DEFINE q == target[c]
<1> USE DEF ListDrain, others, publishVars, pullVars, seekVars
<1>1. QueueType /\ PubInv' /\ q \in Creator /\ c \in Walker /\ e[1] \in Msg
  BY OthersFrame DEF IInv, QueueInv, PubInv, PubType, QueueType, Walker, Entry
<1>2. drained' = [drained EXCEPT ![c] = [drained[c] EXCEPT ![e] = drained[c][e] + 1]]
  BY <1>1 DEF QueueType
<1>3. drained' \in [Taker -> [Entry -> Nat]]
  <2>1. [drained[c] EXCEPT ![e] = drained[c][e] + 1] \in [Entry -> Nat]
    BY <1>1 DEF QueueType
  <2> QED  BY <1>1, <1>2, <2>1 DEF QueueType
<1>4. \A b \in Taker, d \in Entry :
        drained'[b][d] = IF b = c /\ d = e THEN drained[b][d] + 1 ELSE drained[b][d]
  BY <1>1, <1>2 DEF QueueType
<1>5. \A b \in Taker, d \in Entry : drained[b][d] \in Nat
  BY <1>1 DEF QueueType
<1>6. listed' \in [Taker -> SUBSET Msg] /\ e[1] \in listed'[c]
      /\ \A b \in Taker : listed[b] \subseteq listed'[b]
  BY <1>1 DEF QueueType
<1>7. QueueType'
  <2>1. ch' \in [Creator -> [Entry -> Nat]]
    BY <1>1, GetFacts
  <2> QED  BY <1>1, <1>3, <1>6, <2>1 DEF QueueType, takeVars
<1>8. Returns'
  <2> SUFFICES ASSUME NEW b \in Taker, NEW d \in Entry, drained'[b][d] > 0
               PROVE  stage[b] \in {"drain", "putback"} /\ d[1] \in listed'[b]
    BY DEF Returns
  <2> QED  BY <1>4, <1>6 DEF IInv, QueueInv, Returns
<1>9. ASSUME NEW x \in Creator, NEW d \in Entry
      PROVE  /\ d \in Waiting(x)' => d \in Waiting(x)
             /\ d \in Places(x)' <=> d \in Places(x)
  <2>1. Has(x, d)' <=> Has(x, d)
    BY DEF Has
  <2>2. d \in Drained(x)' <=> d \in Drained(x) \/ (x = q /\ d = e)
    BY <1>4, <1>5 DEF Drained
  <2>3. /\ e \in Waiting(q)
        /\ d \in Waiting(x)' => d \in Waiting(x)
        /\ d \in Waiting(x) => d \in Waiting(x)' \/ (x = q /\ d = e)
    BY <1>1, GetFacts
  <2> QED  BY <1>1, <1>7, <2>1, <2>2, <2>3, PlacesFacts, PlacesNext
<1>10. \A x \in Creator : /\ Places(x) \subseteq Entry /\ Places(x)' \subseteq Entry
                          /\ Waiting(x)' \subseteq Entry
  BY <1>1, <1>7, PlacesFacts, PlacesNext DEF Waiting
<1> QED  BY <1>1, <1>6, <1>7, <1>8, <1>9, <1>10, MoveIsSound

LEMMA ListPutBackIsSound ==
  ASSUME IInv, NEW c \in Taker, NEW e \in Entry, ListPutBack(c, e)
  PROVE  IInv'
<1> DEFINE q == target[c]
<1> USE DEF ListPutBack, others, publishVars, pullVars, seekVars
<1>1. QueueType /\ PubInv' /\ q \in Creator /\ c \in Walker
  BY OthersFrame DEF IInv, QueueInv, PubInv, PubType, QueueType, Walker
<1>2. drained' = [drained EXCEPT ![c] = [drained[c] EXCEPT ![e] = drained[c][e] - 1]]
  BY <1>1 DEF QueueType
<1>3. drained' \in [Taker -> [Entry -> Nat]]
  <2>1. [drained[c] EXCEPT ![e] = drained[c][e] - 1] \in [Entry -> Nat]
    BY <1>1 DEF QueueType
  <2> QED  BY <1>1, <1>2, <2>1 DEF QueueType
<1>4. \A b \in Taker, d \in Entry :
        drained'[b][d] = IF b = c /\ d = e THEN drained[b][d] - 1 ELSE drained[b][d]
  BY <1>1, <1>2 DEF QueueType
<1>5. \A b \in Taker, d \in Entry : drained[b][d] \in Nat
  BY <1>1 DEF QueueType
<1>6. QueueType'
  <2>1. ch' \in [Creator -> [Entry -> Nat]] /\ sight' \in [Walker -> SUBSET Entry]
    BY <1>1, PutFacts, HideFacts
  <2> QED  BY <1>1, <1>3, <2>1 DEF QueueType, takeVars
<1>7. Returns' /\ e[1] \in listed'[c]
  <2>1. \A b \in Taker, d \in Entry : drained'[b][d] > 0 => drained[b][d] > 0
    BY <1>4, <1>5
  <2> QED  BY <2>1 DEF IInv, QueueInv, Returns
<1>8. ASSUME NEW x \in Creator, NEW d \in Entry
      PROVE  /\ d \in Waiting(x)' <=> d \in Waiting(x) \/ (x = q /\ d = e)
             /\ d \in Places(x)' <=> d \in Places(x)
  <2>1. Has(x, d)' <=> Has(x, d)
    BY DEF Has
  <2>2. /\ e \in Drained(q)
        /\ d \in Drained(x)' => d \in Drained(x)
        /\ d \in Drained(x) => d \in Drained(x)' \/ (x = q /\ d = e)
    BY <1>4, <1>5 DEF Drained
  <2>3. d \in Waiting(x)' <=> d \in Waiting(x) \/ (x = q /\ d = e)
    BY <1>1, PutFacts
  <2> QED  BY <1>1, <1>6, <2>1, <2>2, <2>3, PlacesFacts, PlacesNext
<1>9. Hidden(q, e) /\ \A x \in Walker : sight'[x] \subseteq sight[x]
  BY <1>1, <1>7, HideFacts DEF Hidden
<1>10. \A x \in Creator : /\ Places(x) \subseteq Entry /\ Places(x)' \subseteq Entry
                          /\ Waiting(x)' \subseteq Entry
  BY <1>1, <1>6, PlacesFacts, PlacesNext DEF Waiting
<1> QED  BY <1>1, <1>6, <1>7, <1>8, <1>9, <1>10, MoveIsSound

LEMMA SeekDrainIsSound ==
  ASSUME IInv, NEW k \in Seeker, NEW e \in Entry, SeekDrain(k, e)
  PROVE  IInv'
<1> DEFINE q == target[k]
<1> USE DEF SeekDrain, others, publishVars, pullVars, takeVars, seekVars
<1>1. QueueType /\ PubInv' /\ q \in Creator /\ k \in Walker
  BY OthersFrame DEF IInv, QueueInv, PubInv, PubType, QueueType, Walker
<1>2. QueueType'
  <2>1. ch' \in [Creator -> [Entry -> Nat]] /\ sight' \in [Walker -> SUBSET Entry]
    BY <1>1, GetFacts, HideFacts
  <2> QED  BY <1>1, <2>1 DEF QueueType
<1>3. Returns'
  BY DEF IInv, QueueInv, Returns
<1>4. ASSUME NEW x \in Creator, NEW d \in Entry
      PROVE  /\ d \in Waiting(x)' => d \in Waiting(x)
             /\ d \in Places(x)' => d \in Places(x)
             /\ d \in Places(x) => d \in Places(x)' \/ (x = q /\ d = e)
  <2>1. Has(x, d)' <=> Has(x, d)
    BY DEF Has
  <2>2. d \in Drained(x)' <=> d \in Drained(x)
    BY DEF Drained
  <2>3. /\ d \in Waiting(x)' => d \in Waiting(x)
        /\ d \in Waiting(x) => d \in Waiting(x)' \/ (x = q /\ d = e)
    BY <1>1, GetFacts
  <2> QED  BY <1>1, <1>2, <2>1, <2>2, <2>3, PlacesFacts, PlacesNext
<1>5. /\ \A x \in Walker : sight'[x] \subseteq sight[x]
      /\ \A c \in Taker : target[c] = q => e \notin sight'[c]
  BY <1>1, HideFacts DEF Walker
<1>6. \A x \in Creator : /\ Places(x) \subseteq Entry /\ Places(x)' \subseteq Entry
                         /\ Waiting(x)' \subseteq Entry
  BY <1>1, <1>2, PlacesFacts, PlacesNext DEF Waiting
<1> QED  BY <1>1, <1>2, <1>3, <1>4, <1>5, <1>6, MoveIsSound

LEMMA SeekFillIsSound ==
  ASSUME IInv, NEW k \in Seeker, NEW m \in Msg, SeekFill(k, m)
  PROVE  IInv'
<1> DEFINE q == target[k]
           e == <<m, k>>
<1> USE DEF SeekFill, others, publishVars, pullVars, takeVars
<1>1. /\ QueueType /\ q \in Creator /\ k \in Walker /\ e \in Entry
      /\ stored[m] \in 0 .. now
  BY SnapshotsAssumption
     DEF IInv, QueueInv, QueueType, Walker, Entry, Seeks, Gives
<1>2. PubInv' /\ reached \subseteq reached'
  <2>1. reached' = reached \cup {<<q, e>>} /\ UNCHANGED others
    OBVIOUS
  <2>2. reached \subseteq reached' /\ reached' \subseteq Creator \X Entry
    BY <1>1, <2>1 DEF IInv, PubInv, PubType
  <2> QED  BY <2>1, <2>2, OthersFrame DEF IInv
<1>3. todo' \in [Seeker -> SUBSET Msg]
      /\ \A j \in Seeker : /\ todo'[j] \subseteq todo[j]
                           /\ \A n \in todo[j] : n \in todo'[j]
                                \/ <<target[j], <<n, j>>>> \in reached'
  BY <1>1 DEF QueueType
<1>4. QueueType'
  <2>1. ch' \in [Creator -> [Entry -> Nat]] /\ sight' \in [Walker -> SUBSET Entry]
    BY <1>1, PutFacts, HideFacts
  <2> QED  BY <1>1, <1>3, <2>1 DEF QueueType
<1>5. Returns'
  BY DEF IInv, QueueInv, Returns
<1>6. ASSUME NEW x \in Creator, NEW d \in Entry
      PROVE  /\ d \in Waiting(x)' <=> d \in Waiting(x) \/ (x = q /\ d = e)
             /\ d \in Places(x)' <=> d \in Places(x) \/ (x = q /\ d = e)
  <2>1. Has(x, d)' <=> Has(x, d)
    BY DEF Has
  <2>2. d \in Drained(x)' <=> d \in Drained(x)
    BY DEF Drained
  <2>3. d \in Waiting(x)' <=> d \in Waiting(x) \/ (x = q /\ d = e)
    BY <1>1, PutFacts
  <2> QED  BY <1>1, <1>4, <2>1, <2>2, <2>3, PlacesFacts, PlacesNext
<1>7. Hidden(q, e) /\ \A x \in Walker : sight'[x] \subseteq sight[x]
  BY <1>1, HideFacts DEF Hidden
<1>8. \A x \in Creator : /\ Places(x) \subseteq Entry /\ Places(x)' \subseteq Entry
                         /\ Waiting(x)' \subseteq Entry
  BY <1>1, <1>4, PlacesFacts, PlacesNext DEF Waiting
<1> QED  BY <1>1, <1>2, <1>3, <1>4, <1>5, <1>6, <1>7, <1>8, MoveIsSound

-----------------------------------------------------------------------------
(* Steps after which every entry is where it was.                          *)

\* Steps of PubSub, and those that do nothing or forget a snapshot.
LEMMA QueueFrame ==
  ASSUME IInv, PubInv', Onward, UNCHANGED <<ch, reached, pullVars, taking, drained, listed>>,
         UNCHANGED <<seekVars, stage, target, sight>>,
         DOMAIN snaps' = Snap, \A n \in Snap : snaps'[n] \in {snaps[n], None}
  PROVE  IInv'
<1> USE DEF QueueInv, pullVars, seekVars
<1>1. \A q \in Creator : Places(q)' = Places(q) /\ Waiting(q)' = Waiting(q)
  BY SamePlaces DEF IInv
<1>2. QueueType'
  BY DEF IInv, QueueType
<1>3. PendingIsStored'
  <2> SUFFICES ASSUME NEW q \in Creator, NEW e \in Places(q)
               PROVE  stored'[e[1]] \in 0 .. now'
    BY <1>1 DEF PendingIsStored
  <2>1. stored[e[1]] \in 0 .. now
    BY DEF IInv, PendingIsStored
  <2>2. e[1] \in Msg
    BY PlacesFacts DEF IInv, Entry
  <2> QED  BY <2>1, <2>2 DEF Onward
<1>4. now \in Nat /\ now' \in Nat /\ now <= now'
  BY PubSubAssumption DEF Onward, Times, IInv, PubInv, PubType
<1>5. ASSUME NEW t \in 0 .. now
      PROVE  /\ t \in 0 .. now'
             /\ \A p \in Publisher : pc[p] = "start" \/ stamp[p] >= t =>
                                     pc'[p] = "start" \/ stamp'[p] >= t
  BY <1>4 DEF Onward
<1>6. Takes'
  <2> SUFFICES ASSUME NEW c \in Taker, stage[c] # "start" PROVE TookTime(c)'
    BY DEF Takes
  <2>1. TookTime(c)
    BY DEF IInv, Takes
  <2> QED  BY <1>5, <2>1 DEF TookTime
<1>7. Returns'
  BY DEF IInv, Returns
<1>8. Looks'
  <2> SUFFICES ASSUME NEW c \in Taker, stage[c] \in {"drain", "putback", "finish"}
               PROVE  Meets(c)'
    BY DEF Looks
  <2>1. Meets(c) /\ (stage[c] \in {"drain", "putback"} => target[c] \in Creator)
    BY DEF IInv, Looks, QueueType, Walker
  <2> QED  BY <1>1, <2>1 DEF Meets
<1>9. ASSUME NEW snap, Taken(snap) PROVE Taken(snap)' /\ Owed(snap)' = Owed(snap)
  <2>1. /\ snap.createdAt \in 0 .. now'
        /\ \A p \in Publisher \ taking[snap.by].early :
             pc'[p] = "start" \/ stamp'[p] >= snap.createdAt
    BY <1>5, <1>9 DEF Taken
  <2>2. Taken(snap)'
    BY <1>9, <2>1 DEF Taken
  <2> QED  BY <2>2 DEF Owed, TopicOf
<1>10. Snaps'
  BY <1>9 DEF IInv, Snaps
<1>11. Seeks'
  <2> SUFFICES ASSUME NEW k \in Seeker, stage[k] # "start" PROVE Gives(k)'
    BY DEF Seeks
  <2>1. Gives(k)
    BY DEF IInv, Seeks
  <2>2. todo[k] \subseteq Msg
    BY DEF IInv, QueueType
  <2>3. \A m \in Msg : stored[m] \in 0 .. now => stored'[m] \in 0 .. now'
    BY DEF Onward
  <2> QED  BY <1>9, <2>1, <2>2, <2>3 DEF Gives
<1>12. Clears' /\ SeekReplaces'
  <2>1. \A k \in Seeker : stage[k] \in {"clear", "fill"} => target[k] \in Creator
    BY DEF IInv, QueueType, Walker
  <2> QED  BY <1>1, <2>1 DEF IInv, Clears, SeekReplaces
<1> QED  BY <1>2, <1>3, <1>6, <1>7, <1>8, <1>10, <1>11, <1>12 DEF IInv

\* A step of request x alone, which reads the queues or stores a snapshot.
LEMMA StageFrame ==
  ASSUME IInv, NEW x \in Walker, stage[x] # "done",
         UNCHANGED <<pubsubVars, pullVars, drained>>, QueueType',
         \A y \in Walker \ {x} :
           stage'[y] = stage[y] /\ target'[y] = target[y] /\ sight'[y] = sight[y],
         \A c \in Taker :
           /\ c # x => taking'[c] = taking[c] /\ listed'[c] = listed[c]
           /\ target'[c] = target[c] \/ \A e \in Entry : drained[c][e] = 0,
         \A k \in Seeker \ {x} : seeking'[k] = seeking[k] /\ todo'[k] = todo[k],
         \A n \in Snap : snaps'[n] = snaps[n] \/ (snaps[n] # None => Taken(snaps[n]))',
         x \in Taker =>
           /\ stage'[x] # "start" => TookTime(x)'
           /\ \A e \in Entry : drained[x][e] > 0 =>
                stage'[x] \in {"drain", "putback"} /\ e[1] \in listed'[x]
           /\ stage'[x] \in {"drain", "putback", "finish"} => Meets(x)',
         x \in Seeker =>
           /\ stage'[x] # "start" => Gives(x)'
           /\ stage'[x] = "clear" => sight'[x] \cap Waiting(target'[x]) = {}
           /\ stage'[x] # "fill"
  PROVE  IInv'
<1> USE DEF QueueInv, pubsubVars, publishVars, manageVars, history, pullVars
<1>1. \A q \in Creator : Places(q)' = Places(q) /\ Waiting(q)' = Waiting(q)
  BY SamePlaces DEF IInv
<1>2. PubInv'
  BY OthersFrame DEF IInv, others, PubInv, PubType
<1>3. PendingIsStored'
  BY <1>1 DEF IInv, PendingIsStored
<1>4. Takes'
  BY DEF IInv, Takes, TookTime, Walker
<1>5. Returns'
  BY DEF IInv, Returns, Walker
<1>6. Looks'
  <2> SUFFICES ASSUME NEW c \in Taker, c # x, stage'[c] \in {"drain", "putback", "finish"}
               PROVE  Meets(c)'
    BY DEF Looks
  <2>1. /\ c \in Walker /\ Meets(c) /\ stage'[c] = stage[c] /\ target'[c] = target[c]
        /\ sight'[c] = sight[c] /\ listed'[c] = listed[c]
    BY DEF IInv, Looks, Walker
  <2>2. stage[c] \in {"drain", "putback"} => target[c] \in Creator
    BY <2>1 DEF IInv, QueueType
  <2> QED  BY <1>1, <2>1, <2>2 DEF Meets
<1>7. ASSUME NEW snap, Taken(snap) PROVE Taken(snap)' /\ Owed(snap)' \subseteq Owed(snap)
  <2>1. \A c \in Taker : stage[c] = "done" =>
           /\ stage'[c] = "done" /\ taking'[c] = taking[c] /\ sight'[c] \subseteq sight[c]
    BY DEF Walker
  <2> QED  BY <1>7, <2>1, TakenStays DEF IInv
<1>8. Snaps'
  <2> SUFFICES ASSUME NEW n \in Snap, snaps'[n] # None, snaps'[n] = snaps[n]
               PROVE  Taken(snaps[n])'
    BY DEF Snaps
  <2>1. Taken(snaps[n])
    BY DEF IInv, Snaps
  <2> QED  BY <1>7, <2>1
<1>9. Seeks'
  <2> SUFFICES ASSUME NEW k \in Seeker, k # x, stage'[k] # "start" PROVE Gives(k)'
    BY DEF Seeks
  <2>1. /\ stage'[k] = stage[k] /\ target'[k] = target[k]
        /\ seeking'[k] = seeking[k] /\ todo'[k] = todo[k]
    BY DEF Walker
  <2>2. Gives(k)
    BY <2>1 DEF IInv, Seeks
  <2> QED  BY <1>7, <2>1, <2>2 DEF Gives
<1>10. Clears' /\ SeekReplaces'
  <2> SUFFICES ASSUME NEW k \in Seeker, k # x, stage'[k] \in {"clear", "fill"}
               PROVE  /\ stage'[k] = "clear" => sight'[k] \cap Waiting(target[k])' = {}
                      /\ stage'[k] = "fill" => sight'[k] \cap Places(target[k])' = {}
    BY <1>1 DEF Clears, SeekReplaces, Waiting
  <2>1. /\ stage'[k] = stage[k] /\ target'[k] = target[k] /\ sight'[k] = sight[k]
        /\ target[k] \in Creator
    BY DEF IInv, QueueType, Walker
  <2> QED  BY <1>1, <2>1 DEF IInv, Clears, SeekReplaces
<1> QED  BY <1>2, <1>3, <1>4, <1>5, <1>6, <1>8, <1>9, <1>10 DEF IInv

-----------------------------------------------------------------------------
(* The steps of CreateSnapshot and Seek that move no entry.                *)

LEMMA BeginSnapshotIsSound ==
  ASSUME IInv, NEW c \in Taker, NEW s \in Sub, BeginSnapshot(c, s)
  PROVE  IInv'
<1> USE DEF BeginSnapshot, Stage, seekVars
<1>1. c \in Walker /\ c \notin Seeker /\ now \in Nat /\ QueueType
  BY PubSubAssumption, SnapshotsAssumption
     DEF Walker, IInv, PubInv, PubType, Times, QueueInv
<1>2. QueueType'
  BY <1>1 DEF QueueType, pubsubVars, pullVars
<1>3. stage'[c] = "list" /\ TookTime(c)'
  BY <1>1 DEF QueueType, TookTime, pubsubVars, publishVars
<1>4. \A e \in Entry : ~(drained[c][e] > 0)
  BY DEF IInv, QueueInv, Returns
<1> QED  BY <1>1, <1>2, <1>3, <1>4, StageFrame DEF QueueType

LEMMA ListStartIsSound ==
  ASSUME IInv, NEW c \in Taker, ListStart(c)
  PROVE  IInv'
<1> DEFINE q == queue[taking[c].sub]
<1> USE DEF ListStart, Stage, seekVars, takeVars
<1>1. c \in Walker /\ c \notin Seeker /\ QueueType
  BY SnapshotsAssumption DEF Walker, IInv, QueueInv
<1>2. TookTime(c) /\ TookTime(c)'
  BY DEF IInv, QueueInv, Takes, TookTime, pubsubVars, publishVars
<1>3. \A e \in Entry : drained[c][e] \in Nat /\ ~(drained[c][e] > 0)
  BY DEF IInv, QueueInv, Returns, QueueType
<1>3a. \A e \in Entry : drained[c][e] = 0
  BY <1>3
<1>4. CASE q = None
  <2>1. UNCHANGED <<target, sight>> /\ stage' = [stage EXCEPT ![c] = "done"]
    BY <1>4
  <2>2. QueueType'
    BY <1>1, <2>1 DEF QueueType, pubsubVars, pullVars
  <2> QED  BY <1>1, <1>2, <1>3, <2>1, <2>2, StageFrame DEF QueueType
<1>5. CASE q # None
  <2>1. /\ target' = [target EXCEPT ![c] = q]
        /\ sight' = [sight EXCEPT ![c] = Backlog(q)]
        /\ stage' = [stage EXCEPT ![c] = "drain"]
    BY <1>5
  <2>2. q \in Creator
    BY <1>2, <1>5 DEF TookTime, IInv, PubInv, PubType
  <2>3. Backlog(q) \subseteq Entry
    BY <1>1, <2>2 DEF Backlog, Waiting, QueueType
  <2> HIDE DEF q
  <2>4. QueueType'
    BY <1>1, <2>1, <2>2, <2>3 DEF QueueType, pubsubVars, pullVars
  <2>5. \A x \in Creator : Places(x)' = Places(x)
    BY <1>3a, <2>1, SamePlaces DEF IInv, pubsubVars, pullVars, QueueType, QueueInv
  <2>6. Meets(c)'
    <3>1. sight'[c] = Backlog(q) /\ target'[c] = q /\ stage'[c] = "drain"
      BY <1>1, <2>1 DEF QueueType
    <3>2. Backlog(q) \subseteq Places(target[c])'
      BY <2>2, <2>5, <3>1 DEF Places
    <3> QED  BY <3>1, <3>2 DEF Meets
  <2>7. /\ stage[c] # "done" /\ stage'[c] = "drain"
        /\ UNCHANGED <<pubsubVars, pullVars, taking, drained, listed, snaps, seeking, todo>>
        /\ \A y \in Walker \ {c} :
             stage'[y] = stage[y] /\ target'[y] = target[y] /\ sight'[y] = sight[y]
    BY <1>1, <2>1 DEF QueueType
  <2>8. \A b \in Taker : target'[b] = target[b] \/ \A e \in Entry : drained[b][e] = 0
    BY <1>3a, <2>7 DEF Walker
  <2> QED  BY <1>1, <1>2, <1>3, <2>4, <2>6, <2>7, <2>8, StageFrame
<1> QED  BY <1>4, <1>5

LEMMA ListDrainedIsSound ==
  ASSUME IInv, NEW c \in Taker, ListDrained(c)
  PROVE  IInv'
<1> USE DEF ListDrained, Stage, seekVars, takeVars
<1>1. c \in Walker /\ c \notin Seeker /\ QueueType
  BY SnapshotsAssumption DEF Walker, IInv, QueueInv
<1>2. QueueType' /\ stage'[c] = "putback" /\ target[c] \in Creator
  BY <1>1 DEF QueueType, pubsubVars, pullVars
<1>3. TookTime(c)' /\ \A e \in Entry : drained[c][e] > 0 => e[1] \in listed[c]
  BY DEF IInv, QueueInv, Takes, Returns, TookTime, pubsubVars, publishVars
<1>4. \A x \in Creator : Places(x)' = Places(x) /\ Waiting(x)' = Waiting(x)
  BY SamePlaces DEF IInv, pubsubVars, pullVars
<1>5. Meets(c)'
  BY <1>2, <1>4 DEF Meets, IInv, QueueInv, Looks
<1> QED  BY <1>1, <1>2, <1>3, <1>5, StageFrame DEF QueueType

LEMMA ListWalkIsSound ==
  ASSUME IInv, NEW c \in Taker, ListWalk(c)
  PROVE  IInv'
<1> DEFINE q == target[c]
<1> USE DEF ListWalk, Stage, seekVars
<1>1. c \in Walker /\ c \notin Seeker /\ QueueType
  BY SnapshotsAssumption DEF Walker, IInv, QueueInv
<1>2. q \in Creator
  BY <1>1 DEF QueueType
<1>3. /\ listed'[c] = listed[c] \cup {e[1] : e \in inFlight[q]}
      /\ sight'[c] = sight[c] \ (InHands(q) \cup Drained(q))
      /\ stage'[c] = "finish"
  BY <1>1 DEF QueueType
<1>4. QueueType'
  <2>1. {e[1] : e \in inFlight[q]} \subseteq Msg
    BY <1>1, <1>2 DEF QueueType, Entry
  <2> QED  BY <1>1, <2>1 DEF QueueType, pubsubVars, pullVars
<1>5. TookTime(c)'
  BY DEF IInv, QueueInv, Takes, TookTime, pubsubVars, publishVars
<1>6. Meets(c)'
  <2> SUFFICES ASSUME NEW e \in sight[c], e \notin InHands(q) \cup Drained(q)
               PROVE  e[1] \in listed'[c]
    BY <1>3 DEF Meets
  <2>1. e[1] \in listed[c] \/ e \in Places(q) \ Waiting(q)
    BY DEF IInv, QueueInv, Looks, Meets
  <2>2. e[1] \in listed[c] \/ e \in inFlight[q]
    BY <2>1 DEF Places, Backlog
  <2> QED  BY <1>3, <2>2
<1>7. /\ stage[c] # "done" /\ \A e \in Entry : drained[c][e] = 0 /\ ~(drained[c][e] > 0)
      /\ UNCHANGED <<pubsubVars, pullVars, taking, drained, snaps, seeking, todo>>
  OBVIOUS
<1>8. \A y \in Walker \ {c} :
        stage'[y] = stage[y] /\ target'[y] = target[y] /\ sight'[y] = sight[y]
  BY <1>1 DEF QueueType
<1>9. \A b \in Taker : /\ b # c => taking'[b] = taking[b] /\ listed'[b] = listed[b]
                       /\ target'[b] = target[b] \/ \A e \in Entry : drained[b][e] = 0
  BY <1>1, <1>7, <1>8 DEF Walker, QueueType
<1> QED  BY <1>1, <1>3, <1>4, <1>5, <1>6, <1>7, <1>8, <1>9, StageFrame

LEMMA StoreSnapshotIsSound ==
  ASSUME IInv, NEW c \in Taker, NEW n \in Snap, StoreSnapshot(c, n)
  PROVE  IInv'
<1> DEFINE snap == [topic |-> taking[c].topic, createdAt |-> taking[c].createdAt,
                    unacked |-> listed[c], by |-> c]
<1> USE DEF StoreSnapshot, Stage, seekVars
<1>1. c \in Walker /\ c \notin Seeker /\ QueueType
  BY SnapshotsAssumption DEF Walker, IInv, QueueInv
<1>2. /\ DOMAIN snaps' = Snap
      /\ \A i \in Snap : snaps'[i] = snaps[i] \/ snaps'[i] = snap
  BY <1>1 DEF LoadOrStore, QueueType
<1>3. QueueType' /\ stage'[c] = "done"
  BY <1>1, <1>2 DEF QueueType, pubsubVars, pullVars
<1>4. TookTime(c) /\ TookTime(c)'
  BY DEF IInv, QueueInv, Takes, TookTime, pubsubVars, publishVars
<1>5. \A e \in sight[c] : e[1] \in listed[c]
  BY DEF IInv, QueueInv, Looks, Meets
<1>6. Taken(snap)'
  BY <1>3, <1>4, <1>5 DEF Taken, TookTime, pubsubVars, publishVars
<1>7. \A i \in Snap : snaps'[i] = snaps[i] \/ (snaps[i] # None => Taken(snaps[i]))'
  BY <1>2, <1>6
<1>8. \A e \in Entry : ~(drained[c][e] > 0)
  BY DEF IInv, QueueInv, Returns
<1> QED  BY <1>1, <1>3, <1>4, <1>7, <1>8, StageFrame DEF QueueType

LEMMA DeleteSnapshotIsSound ==
  ASSUME IInv, NEW n \in Snap, DeleteSnapshot(n)
  PROVE  IInv'
<1> USE DEF DeleteSnapshot
<1>1. DOMAIN snaps' = Snap /\ \A i \in Snap : snaps'[i] \in {snaps[i], None}
  BY DEF IInv, QueueInv, QueueType
<1>2. PubInv' /\ Onward
  BY OthersFrame, SameTime
     DEF IInv, others, pubsubVars, publishVars, manageVars, history, PubInv, PubType
<1> QED  BY <1>1, <1>2, QueueFrame DEF pubsubVars, history

LEMMA BeginSeekIsSound ==
  ASSUME IInv, NEW k \in Seeker, NEW s \in Sub, NEW since, NEW unacked, NEW snap,
         snap # None => /\ Taken(snap) /\ since = snap.createdAt
                        /\ unacked = snap.unacked,
         BeginSeek(k, s, since, unacked, snap)
  PROVE  IInv'
<1> USE DEF BeginSeek, Stage, takeVars
<1>1. k \in Walker /\ k \notin Taker /\ QueueType
  BY SnapshotsAssumption DEF Walker, IInv, QueueInv
<1>2. QueueType' /\ stage'[k] = "choose"
  BY <1>1 DEF QueueType, pubsubVars, pullVars
<1>3. seeking'[k] = [sub |-> s, topic |-> subs[s].topic, since |-> since,
                     unacked |-> unacked, snap |-> snap, base |-> StoredIn(subs[s].topic)]
  BY <1>1 DEF QueueType
<1>4. \A m \in StoredIn(subs[s].topic) : m \in Msg /\ stored[m] \in 0 .. now
  BY DEF StoredIn, IInv, PubInv, Stamped
<1>5. snap # None => Taken(snap)'
  <2>1. \A c \in Taker : stage[c] = "done" =>
           /\ stage'[c] = "done" /\ taking'[c] = taking[c] /\ sight'[c] \subseteq sight[c]
    BY <1>1
  <2> QED  BY <2>1, TakenStays DEF IInv, pubsubVars, publishVars
<1>6. Gives(k)'
  BY <1>2, <1>3, <1>4, <1>5 DEF Gives, pubsubVars
<1> QED  BY <1>1, <1>2, <1>6, StageFrame DEF QueueType

LEMMA SeekStartIsSound ==
  ASSUME IInv, NEW k \in Seeker, NEW s \in Sub,
         \/ \E t \in 0 .. MaxClock : SeekToTime(k, s, t)
         \/ \E n \in Snap : SeekToSnapshot(k, s, n)
  PROVE  IInv'
<1>1. ASSUME NEW t \in 0 .. MaxClock, SeekToTime(k, s, t) PROVE IInv'
  BY <1>1, BeginSeekIsSound DEF SeekToTime
<1>2. ASSUME NEW n \in Snap, SeekToSnapshot(k, s, n) PROVE IInv'
  BY <1>2, BeginSeekIsSound DEF SeekToSnapshot, IInv, QueueInv, Snaps
<1> QED  BY <1>1, <1>2

\* What a snapshot owes is among what a seek to it chooses.
LEMMA OwedIsChosen ==
  ASSUME IInv, NEW k \in Seeker, stage[k] # "start", seeking[k].snap # None,
         NEW m \in Owed(seeking[k].snap) \cap seeking[k].base
  PROVE  m \in seeking[k].unacked \/ stored[m] >= seeking[k].since
<1> DEFINE snap == seeking[k].snap
<1>1. /\ Taken(snap) /\ m \in Msg /\ stored[m] \in 0 .. now
      /\ seeking[k].since = snap.createdAt /\ seeking[k].unacked = snap.unacked
  BY DEF IInv, QueueInv, Seeks, Gives
<1>2. CASE m \in {e[1] : e \in sight[snap.by]}
  BY <1>1, <1>2 DEF Taken
<1>3. CASE \A p \in taking[snap.by].early : m \notin Messages(p)
  <2>1. stored[m] # None
    BY <1>1, PubSubAssumption DEF IInv, PubInv, PubType, Times
  <2>2. PICK p \in Publisher : pc[p] # "start" /\ m \in Messages(p) /\ stored[m] = stamp[p]
    BY <1>1, <2>1 DEF IInv, PubInv, Stamped
  <2>3. p \notin taking[snap.by].early
    BY <1>3, <2>2
  <2> QED  BY <1>1, <2>2, <2>3 DEF Taken
<1> QED  BY <1>2, <1>3 DEF Owed

LEMMA ChooseIsSound ==
  ASSUME IInv, NEW k \in Seeker, Choose(k)
  PROVE  IInv'
<1> DEFINE q == queue[seeking[k].sub]
<1> USE DEF Choose, Stage, takeVars
<1>1. k \in Walker /\ k \notin Taker /\ QueueType
  BY SnapshotsAssumption DEF Walker, IInv, QueueInv
<1>1a. \A y \in Walker \ {k} :
          stage'[y] = stage[y] /\ target'[y] = target[y] /\ sight'[y] = sight[y]
  BY <1>1 DEF QueueType
<1>2. Gives(k) /\ \A c \in Taker : stage[c] = "done" =>
           /\ stage'[c] = "done" /\ taking'[c] = taking[c] /\ sight'[c] \subseteq sight[c]
  BY <1>1, <1>1a DEF IInv, QueueInv, Seeks, Walker
<1>3. seeking[k].snap # None =>
        /\ Taken(seeking[k].snap) /\ Taken(seeking[k].snap)'
        /\ Owed(seeking[k].snap)' \subseteq Owed(seeking[k].snap)
  <2>1. seeking' = seeking /\ UNCHANGED <<now, pc, stamp>>
    BY DEF pubsubVars, publishVars
  <2> QED  BY <1>2, <2>1, TakenStays DEF Gives, IInv
<1>4. CASE q = None
  <2>1. UNCHANGED <<todo, target, sight>> /\ stage' = [stage EXCEPT ![k] = "done"]
    BY <1>4
  <2>2. QueueType' /\ stage'[k] = "done"
    BY <1>1, <2>1 DEF QueueType, pubsubVars, pullVars
  <2>3. Gives(k)'
    BY <1>2, <1>3, <2>2 DEF Gives, pubsubVars
  <2> QED  BY <1>1, <2>1, <2>2, <2>3, StageFrame DEF QueueType
<1>5. CASE q # None
  <2>1. PICK late \in SUBSET (StoredIn(seeking[k].topic) \ seeking[k].base) :
          todo' = [todo EXCEPT ![k] = Chosen(k, seeking[k].base \cup late)]
    BY <1>5
  <2>2. /\ target' = [target EXCEPT ![k] = q]
        /\ sight' = [sight EXCEPT ![k] = Backlog(q)]
        /\ stage' = [stage EXCEPT ![k] = "drain"]
    BY <1>5
  <2>3. q \in Creator
    BY <1>2, <1>5 DEF Gives, IInv, PubInv, PubType
  <2>4. Backlog(q) \subseteq Entry
    BY <1>1, <2>3 DEF Backlog, Waiting, QueueType
  <2>5. \A m \in seeking[k].base \cup late : m \in Msg /\ stored[m] \in 0 .. now
    BY <1>2, <2>1 DEF Gives, StoredIn, IInv, PubInv, Stamped
  <2>6. todo'[k] = Chosen(k, seeking[k].base \cup late) /\ stage'[k] = "drain"
    BY <1>1, <2>1, <2>2 DEF QueueType
  <2>7. \A m \in todo'[k] : m \in Msg /\ stored[m] \in 0 .. now
    BY <2>5, <2>6 DEF Chosen
  <2> HIDE DEF q
  <2>8. QueueType'
    <3>1. Chosen(k, seeking[k].base \cup late) \subseteq Msg
      BY <2>6, <2>7
    <3> QED  BY <1>1, <2>1, <2>2, <2>3, <2>4, <3>1 DEF QueueType, pubsubVars, pullVars
  <2>9. seeking[k].snap # None =>
          \A m \in Owed(seeking[k].snap) \cap seeking[k].base : m \in todo'[k]
    BY <2>6, OwedIsChosen DEF Chosen
  <2>10. Gives(k)'
    <3>1. seeking' = seeking /\ UNCHANGED <<now, stored>>
      BY DEF pubsubVars
    <3>2. (seeking[k].snap # None =>
             \A m \in Owed(seeking[k].snap) \cap seeking[k].base : m \in todo[k])'
      BY <1>3, <2>9, <3>1
    <3> QED  BY <1>2, <1>3, <2>7, <3>1, <3>2 DEF Gives
  <2>11. /\ stage[k] # "done" /\ \A j \in Seeker \ {k} : todo'[j] = todo[j]
         /\ UNCHANGED <<pubsubVars, pullVars, taking, drained, listed, snaps, seeking>>
    BY <1>1, <2>1 DEF QueueType
  <2>12. \A c \in Taker : target'[c] = target[c]
    BY <1>1, <1>1a DEF Walker
  <2> QED  BY <1>1, <1>1a, <2>6, <2>8, <2>10, <2>11, <2>12, StageFrame
<1> QED  BY <1>4, <1>5

LEMMA SeekDrainedIsSound ==
  ASSUME IInv, NEW k \in Seeker, SeekDrained(k)
  PROVE  IInv'
<1> USE DEF SeekDrained, Stage, takeVars, seekVars
<1>1. k \in Walker /\ k \notin Taker /\ QueueType
  BY SnapshotsAssumption DEF Walker, IInv, QueueInv
<1>2. QueueType' /\ stage'[k] = "clear"
  BY <1>1 DEF QueueType, pubsubVars, pullVars
<1>3. Gives(k) /\ \A c \in Taker : stage[c] = "done" =>
           /\ stage'[c] = "done" /\ taking'[c] = taking[c] /\ sight'[c] \subseteq sight[c]
  BY <1>1 DEF IInv, QueueInv, Seeks, QueueType
<1>4. seeking[k].snap # None =>
        /\ Taken(seeking[k].snap)'
        /\ Owed(seeking[k].snap)' \subseteq Owed(seeking[k].snap)
  BY <1>3, TakenStays DEF Gives, IInv, pubsubVars, publishVars
<1>5. Gives(k)'
  BY <1>2, <1>3, <1>4 DEF Gives, pubsubVars, history
<1> QED  BY <1>1, <1>2, <1>5, StageFrame DEF QueueType

LEMMA SeekClearIsSound ==
  ASSUME IInv, NEW k \in Seeker, SeekClear(k)
  PROVE  IInv'
<1> DEFINE q == target[k]
<1> USE DEF SeekClear, Stage, takeVars, seekVars, QueueInv, pubsubVars, publishVars,
            manageVars, history
<1>1. k \in Walker /\ k \notin Taker /\ QueueType /\ q \in Creator
  BY SnapshotsAssumption DEF Walker, IInv, QueueType
<1>2. PubInv'
  BY OthersFrame DEF IInv, others, PubInv, PubType
<1>3. /\ sight' \in [Walker -> SUBSET Entry]
      /\ \A x \in Walker : sight'[x] \subseteq sight[x]
      /\ sight'[k] = sight[k] \ (InHands(q) \cup Drained(q))
      /\ \A c \in Taker : target[c] = q => \A e \in inFlight[q] : e \notin sight'[c]
  BY <1>1 DEF QueueType, Walker
<1>4. /\ inFlight' \in [Creator -> SUBSET Entry] /\ inFlight'[q] = {}
      /\ \A x \in Creator : x # q => inFlight'[x] = inFlight[x]
  BY <1>1 DEF QueueType
<1>5. stage'[k] = "fill" /\ \A x \in Walker \ {k} : stage'[x] = stage[x]
  BY <1>1 DEF QueueType
<1>6. QueueType'
  BY <1>1, <1>3, <1>4 DEF QueueType
<1>7. ASSUME NEW x \in Creator
      PROVE  /\ Places(x)' \subseteq Places(x) /\ Waiting(x)' = Waiting(x)
             /\ \A e \in Places(x) : e \in Places(x)' \/ (x = q /\ e \in inFlight[q])
  <2>1. /\ InHands(x)' = InHands(x) /\ Drained(x)' = Drained(x)
        /\ Waiting(x)' = Waiting(x)
    BY DEF InHands, Drained, Waiting
  <2> QED  BY <1>4, <2>1 DEF Places, Backlog
<1>8. PendingIsStored'
  BY <1>7 DEF IInv, PendingIsStored
<1>9. Takes' /\ Returns'
  BY <1>1, <1>5 DEF IInv, Takes, TookTime, Returns, Walker
<1>10. Looks'
  <2> SUFFICES ASSUME NEW c \in Taker, stage[c] \in {"drain", "putback", "finish"},
                      NEW e \in sight'[c], e[1] \notin listed[c]
               PROVE  \/ stage[c] = "drain" /\ e \in Places(target[c])'
                      \/ stage[c] = "putback" /\ e \in Places(target[c])' \ Waiting(target[c])'
    BY <1>1, <1>5 DEF Looks, Meets, Walker
  <2>1. c \in Walker /\ e \in sight[c]
    BY <1>3 DEF Walker
  <2>2. /\ stage[c] \in {"drain", "putback"}
        /\ e \in Places(target[c])
        /\ stage[c] = "putback" => e \notin Waiting(target[c])
    BY <2>1 DEF IInv, Looks, Meets
  <2>3. target[c] \in Creator
    BY <2>1, <2>2 DEF IInv, QueueType
  <2> QED  BY <1>3, <1>7, <2>2, <2>3
<1>11. ASSUME NEW snap, Taken(snap) PROVE Taken(snap)' /\ Owed(snap)' \subseteq Owed(snap)
  <2>1. \A c \in Taker : stage[c] = "done" =>
           /\ stage'[c] = "done" /\ taking'[c] = taking[c] /\ sight'[c] \subseteq sight[c]
    BY <1>1, <1>3, <1>5 DEF Walker
  <2> QED  BY <1>11, <2>1, TakenStays DEF IInv
<1>12. Snaps'
  BY <1>11 DEF IInv, Snaps
<1>13. Seeks'
  <2> SUFFICES ASSUME NEW j \in Seeker, stage'[j] # "start" PROVE Gives(j)'
    BY DEF Seeks
  <2>1. /\ Gives(j)
        /\ stage'[j] \in {"drain", "clear", "fill"} => stage[j] \in {"drain", "clear", "fill"}
    BY <1>5 DEF IInv, Seeks, Walker
  <2> QED  BY <1>11, <2>1 DEF Gives
<1>14. Clears'
  <2> SUFFICES ASSUME NEW j \in Seeker, stage'[j] = "clear"
               PROVE  sight'[j] \cap Waiting(target[j])' = {}
    BY DEF Clears, Waiting
  <2>1. j \in Walker /\ j # k /\ stage[j] = "clear" /\ target[j] \in Creator
    BY <1>5 DEF Walker, QueueType, IInv
  <2> QED  BY <1>3, <1>7, <2>1 DEF IInv, Clears
<1>15. SeekReplaces'
  <2> SUFFICES ASSUME NEW j \in Seeker, stage'[j] = "fill"
               PROVE  sight'[j] \cap Places(target[j])' = {}
    BY DEF SeekReplaces, Places, Backlog, Waiting, InHands, Drained
  <2>1. CASE j = k
    <3>1. Places(q)' = Waiting(q) \cup InHands(q) \cup Drained(q)
      BY <1>4 DEF Places, Backlog, Waiting, InHands, Drained
    <3>2. sight[k] \cap Waiting(q) = {}
      BY DEF IInv, Clears
    <3> QED  BY <1>3, <2>1, <3>1, <3>2
  <2>2. CASE j # k
    <3>1. j \in Walker /\ stage[j] = "fill" /\ target[j] \in Creator
      BY <1>5, <2>2 DEF Walker, QueueType, IInv
    <3> QED  BY <1>3, <1>7, <3>1 DEF IInv, SeekReplaces
  <2> QED  BY <2>1, <2>2
<1> QED  BY <1>2, <1>6, <1>8, <1>9, <1>10, <1>12, <1>13, <1>14, <1>15 DEF IInv

-----------------------------------------------------------------------------
LEMMA NextIsSound == ASSUME IInv, [Next]_vars PROVE IInv'
<1>1. CASE PubSubStep /\ UNCHANGED snapshotVars
  BY <1>1, PubSubStepIsSound, QueueFrame
     DEF IInv, QueueInv, QueueType, snapshotVars, pullVars, takeVars
<1>2. ASSUME NEW p \in Publisher, NEW q \in Creator, NEW m \in Msg, Send(p, q, m)
      PROVE  IInv'
  BY <1>2, SendIsSound
<1>3. ASSUME NEW h \in Hand, Pull(h) PROVE IInv'
  BY <1>3, TakeIsSound, FindExpiredIsSound, StoreInFlightIsSound, DeleteExpiredIsSound,
     PutBackIsSound DEF Pull
<1>4. ASSUME NEW q \in Creator, NEW e \in Entry, Acknowledge(q, e) PROVE IInv'
  BY <1>4, AcknowledgeIsSound
<1>5. ASSUME NEW c \in Taker, TakeSnapshot(c) PROVE IInv'
  BY <1>5, BeginSnapshotIsSound, ListStartIsSound, ListDrainIsSound, ListPutBackIsSound,
     ListDrainedIsSound, ListWalkIsSound, StoreSnapshotIsSound DEF TakeSnapshot
<1>6. ASSUME NEW n \in Snap, DeleteSnapshot(n) PROVE IInv'
  BY <1>6, DeleteSnapshotIsSound
<1>7. ASSUME NEW k \in Seeker, Seek(k) PROVE IInv'
  BY <1>7, SeekStartIsSound, ChooseIsSound, SeekDrainIsSound, SeekDrainedIsSound,
     SeekClearIsSound, SeekFillIsSound DEF Seek
<1>8. CASE UNCHANGED vars
  <2>1. PubInv' /\ Onward
    BY <1>8, OthersFrame, SameTime
       DEF vars, IInv, others, pubsubVars, publishVars, manageVars, history, PubInv, PubType
  <2> QED  BY <1>8, <2>1, QueueFrame
           DEF vars, pubsubVars, history, snapshotVars, takeVars, IInv, QueueInv, QueueType
<1> QED  BY <1>1, <1>2, <1>3, <1>4, <1>5, <1>6, <1>7, <1>8 DEF Next

LEMMA AlwaysSound == Spec => []IInv
BY InitIsSound, NextIsSound, PTL DEF Spec

-----------------------------------------------------------------------------
\* The variables keep their types, a request that drains, clears or fills has
\* a queue, and no snapshot bears a time to come.
THEOREM TypeCorrect == Spec => []TypeOK
<1>1. ASSUME IInv PROVE TypeOK
  <2>1. \A n \in Snap : snaps[n] # None => snaps[n].by \in Taker /\ snaps[n].createdAt <= now
    BY <1>1 DEF IInv, QueueInv, Snaps, Taken
  <2> QED  BY <1>1, <2>1 DEF TypeOK, IInv, PubInv, PubType, QueueInv, QueueType
<1> QED  BY <1>1, AlwaysSound, PTL

\* Every pending message, in a queue or in somebody's hands, is stored with a
\* time that is past, whatever the requests do to topics, subscriptions and
\* queues meanwhile.
THEOREM StoredFirst == Spec => []PendingIsStored
<1>1. IInv => PendingIsStored
  BY DEF IInv, QueueInv
<1> QED  BY <1>1, AlwaysSound, PTL

\* A Publish whose goroutines have run has sent every message that passes the
\* filter to each subscription that had its queue when the listing began and
\* has not changed since.
THEOREM NoneIsMissed == Spec => []FanOutReaches
<1>1. ASSUME IInv PROVE FanOutReaches
  <2> SUFFICES ASSUME NEW p \in Publisher, pc[p] = "done", copies[p] = {},
                      sending[p] = {}, NEW d \in due[p],
                      NEW m \in Messages(p) \cap Passes[subs[d[1]].filter]
               PROVE  <<d[2], <<m, p>>>> \in reached
    BY DEF FanOutReaches
  <2>1. Owes(p, d)
    BY <1>1 DEF IInv, PubInv, Lists
  <2> QED  BY <2>1 DEF Owes
<1> QED  BY <1>1, AlwaysSound, PTL

\* A snapshot names what was pending when ListAll came to the queue, but for
\* what was acknowledged, what others moved behind it and what they still had
\* in hand when it walked the leases.
THEOREM NamesAll == Spec => []SnapshotIsComplete
<1>1. IInv => SnapshotIsComplete
  BY DEF IInv, QueueInv, Snaps, Taken, SnapshotIsComplete
<1> QED  BY <1>1, AlwaysSound, PTL

\* A seek to a snapshot has sent to the queue, when it ends, all that the
\* snapshot owes, of what was stored when the seek listed the topic's messages.
THEOREM GivesBack == Spec => []SeekGivesBack
<1>1. IInv => SeekGivesBack
  BY DEF IInv, QueueInv, Seeks, Gives, SeekGivesBack
<1> QED  BY <1>1, AlwaysSound, PTL

\* Nothing that was pending when a seek came to the queue comes back to it from
\* the moment inFlight is cleared, but what others moved behind the seek or had
\* in hand at that moment.
THEOREM Replaces == Spec => []SeekReplaces
<1>1. IInv => SeekReplaces
  BY DEF IInv, QueueInv
<1> QED  BY <1>1, AlwaysSound, PTL
=============================================================================
