------------------------------ MODULE Snapshots ------------------------------
(***************************************************************************)
(* Snapshots of subscriptions and seeks, beside everything PubSub does and *)
(* beside the Pulls and acks of subscribers.  CreateSnapshot takes the     *)
(* time and then the list of what is pending; a seek reads the stored      *)
(* messages of the subscription's topic, chooses those published since a   *)
(* time or named by the snapshot, and replaces the backlog with them.      *)
(* ListAll and ReplaceAll are sequences of operations on the channel and   *)
(* on inFlight, and nothing keeps the others away between two of them.     *)
(*                                                                         *)
(* A Hand is a Pull with one message taken off the channel or found        *)
(* expired; a Pull with several in hand is several of them.                *)
(***************************************************************************)
EXTENDS PubSub

CONSTANTS
  Snap,    \* names of snapshots
  Taker,   \* the CreateSnapshot requests
  Seeker,  \* the Seek requests
  Hand

\* A Pull's message, of which queue, and what becomes of it next.
InHand == [queue : Creator, entry : Entry, next : {"store", "delete", "putback"}]

ASSUME SnapshotsAssumption ==
  /\ Taker \cap Seeker = {}
  /\ Source = Publisher \cup Seeker
  /\ None \notin InHand

Walker == Taker \cup Seeker

VARIABLES
  inFlight,  \* the leased entries of each queue
  hand,      \* what each Hand has, of which queue, and what it does next
  snaps,     \* Snapshots: topic, createdAt, unacked, and the request that took it
  stage,     \* where each request is
  target,    \* the queue it works on
  taking,    \* what each CreateSnapshot has read; history: early, the Publishes
             \* that had taken their time before it
  drained,   \* how often a ListAll has each entry to put back
  listed,    \* the messages it has met
  seeking,   \* what each Seek has read
  todo,      \* messages it has yet to send
  sight      \* history: entries that were pending when a request came to the
             \* queue, and that nobody moved behind its back since

pullVars == <<inFlight, hand>>
takeVars == <<snaps, taking, drained, listed>>
seekVars == <<seeking, todo>>
snapshotVars == <<pullVars, takeVars, seekVars, stage, target, sight>>
vars == <<pubsubVars, snapshotVars>>

Init ==
  /\ PubSubInit
  /\ inFlight = [q \in Creator |-> {}]
  /\ hand = [h \in Hand |-> None]
  /\ snaps = [n \in Snap |-> None]
  /\ stage = [x \in Walker |-> "start"]
  /\ target = [x \in Walker |-> None]
  /\ taking = [c \in Taker |-> None]
  /\ drained = [c \in Taker |-> [e \in Entry |-> 0]]
  /\ listed = [c \in Taker |-> {}]
  /\ seeking = [k \in Seeker |-> None]
  /\ todo = [k \in Seeker |-> {}]
  /\ sight = [x \in Walker |-> {}]

\* Everything of PubSub but the channels and what was sent.
others == <<topics, manageVars, now, stored, publishVars, due>>

Backlog(q) == Waiting(q) \cup inFlight[q]

\* Entries of queue q that somebody has in hand.
InHands(q) ==
  {hand[h].entry : h \in {h \in Hand : hand[h] # None /\ hand[h].queue = q}}

Drained(q) ==
  {e \in Entry : \E c \in Taker : target[c] = q /\ drained[c][e] > 0}

\* Wherever an entry of q may be.
Places(q) == Backlog(q) \cup InHands(q) \cup Drained(q)

\* The entries E of q go where those of X that work on q may not look again.
HideFrom(X, q, E) ==
  sight' = [x \in Walker |-> IF x \in X /\ target[x] = q THEN sight[x] \ E
                             ELSE sight[x]]

Stage(x, label) == stage' = [stage EXCEPT ![x] = label]

-----------------------------------------------------------------------------
(* Publishes, Pulls and acks.  A Pull may have looked its queue up at any  *)
(* time before: it works on whatever queue that was.                       *)

Send(p, q, m) ==
  /\ SendNext(p, q, m)
  /\ HideFrom(Walker, q, {<<m, p>>})
  /\ UNCHANGED <<pullVars, takeVars, seekVars, stage, target>>

\* TryDequeue: the message is leased, or skipped for its ordering key.
Take(h, q, e) ==
  /\ hand[h] = None
  /\ ch[q][e] > 0
  /\ Get(q, e)
  /\ \E next \in {"store", "putback"} :
       hand' = [hand EXCEPT ![h] = [queue |-> q, entry |-> e, next |-> next]]
  /\ UNCHANGED <<others, reached, inFlight, takeVars, seekVars, stage, target, sight>>

StoreInFlight(h) ==
  /\ hand[h] # None /\ hand[h].next = "store"
  /\ inFlight' = [inFlight EXCEPT ![hand[h].queue] = @ \cup {hand[h].entry}]
  /\ hand' = [hand EXCEPT ![h] = None]
  /\ UNCHANGED <<pubsubVars, takeVars, seekVars, stage, target, sight>>

\* RequeueExpired comes by an entry whose lease has run out, ...
FindExpired(h, q, e) ==
  /\ hand[h] = None
  /\ e \in inFlight[q]
  /\ hand' = [hand EXCEPT ![h] = [queue |-> q, entry |-> e, next |-> "delete"]]
  /\ UNCHANGED <<pubsubVars, inFlight, takeVars, seekVars, stage, target, sight>>

\* ... deletes it, there or not by now, ...
DeleteExpired(h) ==
  /\ hand[h] # None /\ hand[h].next = "delete"
  /\ inFlight' = [inFlight EXCEPT ![hand[h].queue] = @ \ {hand[h].entry}]
  /\ hand' = [hand EXCEPT ![h].next = "putback"]
  /\ UNCHANGED <<pubsubVars, takeVars, seekVars, stage, target, sight>>

\* ... and sends it to the channel, as Pull does with what it has skipped.
PutBack(h) ==
  /\ hand[h] # None /\ hand[h].next = "putback"
  /\ Put(hand[h].queue, hand[h].entry)
  /\ HideFrom(Walker, hand[h].queue, {hand[h].entry})
  /\ hand' = [hand EXCEPT ![h] = None]
  /\ UNCHANGED <<others, reached, inFlight, takeVars, seekVars, stage, target>>

Acknowledge(q, e) ==
  /\ e \in inFlight[q]
  /\ inFlight' = [inFlight EXCEPT ![q] = @ \ {e}]
  /\ HideFrom(Taker, q, {e})
  /\ UNCHANGED <<pubsubVars, hand, takeVars, seekVars, stage, target>>

-----------------------------------------------------------------------------
(* CreateSnapshot.                                                         *)

\* Mutant: the snapshot bears a time to come, as its expiry does.
StampAhead(c, s) ==
  /\ stage[c] = "start"
  /\ subs[s] # None
  /\ taking' = [taking EXCEPT ![c] =
       [sub |-> s, topic |-> subs[s].topic, createdAt |-> now + 1,
        early |-> {p \in Publisher : pc[p] # "start"}]]
  /\ Stage(c, "list")
  /\ UNCHANGED <<pubsubVars, pullVars, snaps, drained, listed, seekVars, target, sight>>

BeginSnapshot(c, s) ==
  /\ stage[c] = "start"
  /\ subs[s] # None
  /\ taking' = [taking EXCEPT ![c] =
       [sub |-> s, topic |-> subs[s].topic, createdAt |-> now,
        early |-> {p \in Publisher : pc[p] # "start"}]]
  /\ Stage(c, "list")
  /\ UNCHANGED <<pubsubVars, pullVars, snaps, drained, listed, seekVars, target, sight>>

\* ListAll looks the queue up; without one the request ends.
ListStart(c) ==
  /\ stage[c] = "list"
  /\ LET q == queue[taking[c].sub] IN
       IF q = None
       THEN Stage(c, "done") /\ UNCHANGED <<target, sight>>
       ELSE /\ target' = [target EXCEPT ![c] = q]
            /\ sight' = [sight EXCEPT ![c] = Backlog(q)]
            /\ Stage(c, "drain")
  /\ UNCHANGED <<pubsubVars, pullVars, takeVars, seekVars>>

ListDrain(c, e) ==
  /\ stage[c] = "drain"
  /\ ch[target[c]][e] > 0
  /\ Get(target[c], e)
  /\ drained' = [drained EXCEPT ![c][e] = @ + 1]
  /\ listed' = [listed EXCEPT ![c] = @ \cup {e[1]}]
  /\ UNCHANGED <<others, reached, pullVars, snaps, taking, seekVars, stage, target, sight>>

ListDrained(c) ==
  /\ stage[c] = "drain"
  /\ Waiting(target[c]) = {}
  /\ Stage(c, "putback")
  /\ UNCHANGED <<pubsubVars, pullVars, takeVars, seekVars, target, sight>>

\* c has met e: the others may miss it.
ListPutBack(c, e) ==
  /\ stage[c] = "putback"
  /\ drained[c][e] > 0
  /\ drained' = [drained EXCEPT ![c][e] = @ - 1]
  /\ Put(target[c], e)
  /\ HideFrom(Walker \ {c}, target[c], {e})
  /\ UNCHANGED <<others, reached, pullVars, snaps, taking, listed, seekVars, stage, target>>

\* Mutant: the leased messages are forgotten.
ForgetLeased(c) ==
  /\ stage[c] = "putback"
  /\ \A e \in Entry : drained[c][e] = 0
  /\ sight' = [sight EXCEPT ![c] = @ \ (InHands(target[c]) \cup Drained(target[c]))]
  /\ target' = [target EXCEPT ![c] = None]
  /\ Stage(c, "finish")
  /\ UNCHANGED <<pubsubVars, pullVars, takeVars, seekVars>>

\* ListInFlight meets what is leased by now, and nothing in others' hands.
ListWalk(c) ==
  /\ stage[c] = "putback"
  /\ \A e \in Entry : drained[c][e] = 0
  /\ LET q == target[c] IN
       /\ listed' = [listed EXCEPT ![c] = @ \cup {e[1] : e \in inFlight[q]}]
       /\ sight' = [sight EXCEPT ![c] = @ \ (InHands(q) \cup Drained(q))]
  /\ target' = [target EXCEPT ![c] = None]
  /\ Stage(c, "finish")
  /\ UNCHANGED <<pubsubVars, pullVars, snaps, taking, drained, seekVars>>

LoadOrStore(n, snap) ==
  snaps' = IF snaps[n] = None THEN [snaps EXCEPT ![n] = snap] ELSE snaps

\* Mutant: the time is taken when the list is complete.
StampLate(c, n) ==
  /\ stage[c] = "finish"
  /\ LoadOrStore(n, [topic |-> taking[c].topic, createdAt |-> now,
                     unacked |-> listed[c], by |-> c])
  /\ Stage(c, "done")
  /\ UNCHANGED <<pubsubVars, pullVars, taking, drained, listed, seekVars, target, sight>>

StoreSnapshot(c, n) ==
  /\ stage[c] = "finish"
  /\ LoadOrStore(n, [topic |-> taking[c].topic, createdAt |-> taking[c].createdAt,
                     unacked |-> listed[c], by |-> c])
  /\ Stage(c, "done")
  /\ UNCHANGED <<pubsubVars, pullVars, taking, drained, listed, seekVars, target, sight>>

DeleteSnapshot(n) ==
  /\ snaps[n] # None
  /\ snaps' = [snaps EXCEPT ![n] = None]
  /\ UNCHANGED <<pubsubVars, pullVars, taking, drained, listed, seekVars, stage,
                 target, sight>>

-----------------------------------------------------------------------------
(* Seek.                                                                   *)

StoredIn(t) == {m \in Msg : stored[m] # None /\ TopicOf(m) = t}

\* The topic is read from the subscription, never from the snapshot; since
\* and unacked say which messages to take.
BeginSeek(k, s, since, unacked, snap) ==
  /\ stage[k] = "start"
  /\ subs[s] # None
  /\ seeking' = [seeking EXCEPT ![k] =
       [sub |-> s, topic |-> subs[s].topic, since |-> since, unacked |-> unacked,
        snap |-> snap, base |-> StoredIn(subs[s].topic)]]
  /\ Stage(k, "choose")
  /\ UNCHANGED <<pubsubVars, pullVars, takeVars, todo, target, sight>>

SeekToTime(k, s, t) == BeginSeek(k, s, t, {}, None)

SeekToSnapshot(k, s, n) ==
  /\ snaps[n] # None
  /\ BeginSeek(k, s, snaps[n].createdAt, snaps[n].unacked, snaps[n])

Chosen(k, found) ==
  {m \in found : m \in seeking[k].unacked \/ stored[m] >= seeking[k].since}

\* The listing holds what was stored when it began, and any of what was
\* stored since.  ReplaceAll looks the queue up; without one the request ends.
Choose(k) ==
  /\ stage[k] = "choose"
  /\ LET q == queue[seeking[k].sub] IN
       IF q = None
       THEN Stage(k, "done") /\ UNCHANGED <<todo, target, sight>>
       ELSE /\ \E late \in SUBSET (StoredIn(seeking[k].topic) \ seeking[k].base) :
                 todo' = [todo EXCEPT ![k] = Chosen(k, seeking[k].base \cup late)]
            /\ target' = [target EXCEPT ![k] = q]
            /\ sight' = [sight EXCEPT ![k] = Backlog(q)]
            /\ Stage(k, "drain")
  /\ UNCHANGED <<pubsubVars, pullVars, takeVars, seeking>>

SeekDrain(k, e) ==
  /\ stage[k] = "drain"
  /\ ch[target[k]][e] > 0
  /\ Get(target[k], e)
  /\ HideFrom(Taker, target[k], {e})
  /\ UNCHANGED <<others, reached, pullVars, takeVars, seekVars, stage, target>>

\* Mutant: inFlight is cleared before the channel is empty.
DrainedEarly(k) ==
  /\ stage[k] = "drain"
  /\ Stage(k, "clear")
  /\ UNCHANGED <<pubsubVars, pullVars, takeVars, seekVars, target, sight>>

SeekDrained(k) ==
  /\ stage[k] = "drain"
  /\ Waiting(target[k]) = {}
  /\ Stage(k, "clear")
  /\ UNCHANGED <<pubsubVars, pullVars, takeVars, seekVars, target, sight>>

\* ClearInFlight; what others have in hand escapes it.
SeekClear(k) ==
  /\ stage[k] = "clear"
  /\ LET q == target[k] IN
       /\ inFlight' = [inFlight EXCEPT ![q] = {}]
       /\ sight' = [x \in Walker |->
            IF x = k THEN sight[x] \ (InHands(q) \cup Drained(q))
            ELSE IF x \in Taker /\ target[x] = q THEN sight[x] \ inFlight[q]
            ELSE sight[x]]
  /\ Stage(k, "fill")
  /\ UNCHANGED <<pubsubVars, hand, takeVars, seekVars, target>>

SeekFill(k, m) ==
  /\ stage[k] = "fill"
  /\ m \in todo[k]
  /\ todo' = [todo EXCEPT ![k] = @ \ {m}]
  /\ Put(target[k], <<m, k>>)
  /\ HideFrom(Walker, target[k], {<<m, k>>})
  /\ reached' = reached \cup {<<target[k], <<m, k>>>>}
  /\ UNCHANGED <<others, pullVars, takeVars, seeking, stage, target>>

-----------------------------------------------------------------------------
Pull(h) ==
  \/ \E q \in Creator, e \in Entry : Take(h, q, e) \/ FindExpired(h, q, e)
  \/ StoreInFlight(h) \/ DeleteExpired(h) \/ PutBack(h)

TakeSnapshot(c) ==
  \/ \E s \in Sub : BeginSnapshot(c, s)
  \/ ListStart(c)
  \/ \E e \in Entry : ListDrain(c, e) \/ ListPutBack(c, e)
  \/ ListDrained(c) \/ ListWalk(c)
  \/ \E n \in Snap : StoreSnapshot(c, n)

Seek(k) ==
  \/ \E s \in Sub, t \in 0..MaxClock : SeekToTime(k, s, t)
  \/ \E s \in Sub, n \in Snap : SeekToSnapshot(k, s, n)
  \/ Choose(k)
  \/ \E e \in Entry : SeekDrain(k, e)
  \/ SeekDrained(k) \/ SeekClear(k)
  \/ \E m \in Msg : SeekFill(k, m)

Next ==
  \/ PubSubStep /\ UNCHANGED snapshotVars
  \/ \E p \in Publisher, q \in Creator, m \in Msg : Send(p, q, m)
  \/ \E h \in Hand : Pull(h)
  \/ \E q \in Creator, e \in Entry : Acknowledge(q, e)
  \/ \E c \in Taker : TakeSnapshot(c)
  \/ \E n \in Snap : DeleteSnapshot(n)
  \/ \E k \in Seeker : Seek(k)

Spec == Init /\ [][Next]_vars

-----------------------------------------------------------------------------
Times == 0..MaxClock
Subscription == [topic : Topic \cup {Deleted}, filter : Filter, by : Creator]

\* The types of the variables; a request that drains, clears or fills has a
\* queue, and no snapshot bears a time to come.
TypeOK ==
  /\ topics \subseteq Topic
  /\ subs \in [Sub -> Subscription \cup {None}]
  /\ queue \in [Sub -> Creator \cup {None}]
  /\ at \in [Request -> {"start", "store", "init", "remove", "drop", "check",
                         "write", "done"}]
  /\ loaded \in [Updater -> Subscription \cup {None}]
  /\ now \in Times
  /\ stored \in [Msg -> Times \cup {None}]
  /\ ch \in [Creator -> [Entry -> Nat]]
  /\ pc \in [Publisher -> {"start", "store", "list", "done"}]
  /\ \A p \in Publisher :
       /\ sent[p] \in 0..Len(Batch[p]) /\ stamp[p] \in Times
       /\ unlisted[p] \subseteq Sub
       /\ copies[p] \subseteq [name : Sub, filter : Filter]
       /\ sending[p] \subseteq Creator \X Messages(p)
  /\ reached \subseteq Creator \X Entry
  /\ inFlight \in [Creator -> SUBSET Entry]
  /\ hand \in [Hand -> InHand \cup {None}]
  /\ stage \in [Walker -> {"start", "list", "putback", "finish", "choose", "drain",
                           "clear", "fill", "done"}]
  /\ target \in [Walker -> Creator \cup {None}]
  /\ \A x \in Walker : stage[x] \in {"drain", "putback", "clear", "fill"} => target[x] # None
  /\ drained \in [Taker -> [Entry -> Nat]]
  /\ listed \in [Taker -> SUBSET Msg]
  /\ todo \in [Seeker -> SUBSET Msg]
  /\ sight \in [Walker -> SUBSET Entry]
  /\ \A n \in Snap : snaps[n] # None =>
       snaps[n].by \in Taker /\ snaps[n].createdAt <= now

\* Every pending message, wherever it is by now, is stored, with a time that is
\* past: a seek finds what a queue holds, because storing precedes the fan-out.
PendingIsStored ==
  \A q \in Creator : \A e \in Places(q) : stored[e[1]] \in 0..now

\* A snapshot names every message that was pending when ListAll began to drain
\* the channel, unless it was acknowledged, or another goroutine put it back
\* behind ListAll or had it in hand to the end: a Pull that leases a message
\* meanwhile hides it from neither of the two walks.
SnapshotIsComplete ==
  \A n \in Snap : snaps[n] # None =>
    {e[1] : e \in sight[snaps[n].by]} \subseteq snaps[n].unacked

\* What the snapshot a seek restores must give back: what it names, and what
\* was published to its topic after it began.
Owed(snap) ==
  {e[1] : e \in sight[snap.by]} \cup
    {m \in Msg : /\ TopicOf(m) = snap.topic
                 /\ \A p \in taking[snap.by].early : m \notin Messages(p)}

\* A seek to a snapshot has, when it ends, sent to the queue what the snapshot
\* owes, of the messages that its listing of the subscription's topic could not
\* miss: those stored when it began.
SeekGivesBack ==
  \A k \in Seeker :
    stage[k] = "fill" /\ todo[k] = {} /\ seeking[k].snap # None =>
      \A m \in Owed(seeking[k].snap) \cap seeking[k].base :
        <<target[k], <<m, k>>>> \in reached

\* From ClearInFlight on, what was pending when ReplaceAll began is neither in
\* the queue nor on its way back, unless another goroutine put it back behind
\* the seek or had it in hand when inFlight was cleared: a Pull that leases a
\* message meanwhile does not save it from the seek.
SeekReplaces ==
  \A k \in Seeker : stage[k] = "fill" => sight[k] \cap Places(target[k]) = {}
=============================================================================
