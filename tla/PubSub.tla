------------------------------- MODULE PubSub -------------------------------
(***************************************************************************)
(* Topics, subscriptions and the path of a message from Publish to the     *)
(* queues of the subscriptions.  A Publish stamps and stores its messages, *)
(* lists the subscriptions of the topic while other requests change them,  *)
(* returns, and leaves one goroutine per listed subscription behind, which *)
(* looks the queue up by name and sends what passes the filter it holds a  *)
(* copy of.                                                                *)
(*                                                                         *)
(* A subscription and its queue are in two maps, which the requests change *)
(* one operation at a time; they and the queue bear the name of the        *)
(* request that created them.  A queue is looked at as a bag: the order of *)
(* its channel and its capacity are SubscriptionQueue's, the third map,    *)
(* of the dispatchers, is SubscriptionLifecycle's.                         *)
(***************************************************************************)
EXTENDS Integers, Sequences, FiniteSets

CONSTANTS
  Topic, Msg,
  Filter,      \* filter expressions
  Passes,      \* [Filter -> SUBSET Msg], the messages matchesFilter accepts
  Publisher,   \* the Publish requests
  Batch,       \* [Publisher -> Seq(Msg)]
  PublishTo,   \* [Publisher -> Topic]
  Source,      \* what enqueues messages: the Publishes, and others' requests
  Creator,     \* the CreateSubscription requests
  Asks,        \* [Creator -> [topic, filter]], what they ask for
  Deleter,     \* the DeleteSubscription requests
  Updater,     \* UpdateSubscription, ModifyPushConfig and DetachSubscription
  Sub,         \* names of subscriptions
  Name,        \* the name each of these requests is for
  Deleted,     \* "_deleted-topic_"
  MaxClock,    \* bound on the clock
  None

Messages(p) == {Batch[p][i] : i \in 1..Len(Batch[p])}

Request == Creator \cup Deleter \cup Updater

ASSUME PubSubAssumption ==
  /\ Deleted \notin Topic
  /\ Passes \in [Filter -> SUBSET Msg]
  /\ Batch \in [Publisher -> Seq(Msg)]
  /\ PublishTo \in [Publisher -> Topic]
  /\ \A p, q \in Publisher : p # q => Messages(p) \cap Messages(q) = {}
  /\ \A m \in Msg : \E p \in Publisher : m \in Messages(p)
  /\ Publisher \subseteq Source
  /\ Asks \in [Creator -> [topic : Topic, filter : Filter]]
  /\ Creator \cap (Deleter \cup Updater) = {} /\ Deleter \cap Updater = {}
  /\ Name \in [Request -> Sub]
  /\ MaxClock \in Nat
  /\ None \notin 0 .. MaxClock /\ None \notin Creator
  /\ None \notin [topic : Topic \cup {Deleted}, filter : Filter, by : Creator]

\* A pending message: the message, and the request that enqueued it.
Entry == Msg \X Source

VARIABLES
  topics,    \* the topics that exist
  subs,      \* Subscriptions: topic, filter and the request that created it
  queue,     \* Queues: the request that created the queue
  at,        \* where each request on a subscription is
  loaded,    \* the copy of the subscription an update has read
  now,       \* the clock
  stored,    \* Messages: the publish time of a message, under its topic's key
  ch,        \* how often each queue's channel holds an entry
  pc,        \* where each Publish is
  sent,      \* how many messages of its batch a Publish has stored
  stamp,     \* the time a Publish took
  unlisted,  \* subscriptions its listing has yet to come by
  copies,    \* the listed copies whose goroutines have yet to run
  sending,   \* what its goroutines have yet to send, and to which queue
  due,       \* history: names and queues that the listing must not miss
  reached    \* history: what was sent to which queue

manageVars == <<subs, queue, at, loaded>>
publishVars == <<pc, sent, stamp, unlisted, copies, sending>>
history == <<due, reached>>
pubsubVars == <<topics, manageVars, now, stored, ch, publishVars, history>>

TopicOf(m) == PublishTo[CHOOSE p \in Publisher : m \in Messages(p)]

PubSubInit ==
  /\ topics = {}
  /\ subs = [s \in Sub |-> None]
  /\ queue = [s \in Sub |-> None]
  /\ at = [r \in Request |-> "start"]
  /\ loaded = [r \in Updater |-> None]
  /\ now = 0
  /\ stored = [m \in Msg |-> None]
  /\ ch = [q \in Creator |-> [e \in Entry |-> 0]]
  /\ pc = [p \in Publisher |-> "start"]
  /\ sent = [p \in Publisher |-> 0]
  /\ stamp = [p \in Publisher |-> 0]
  /\ unlisted = [p \in Publisher |-> {}]
  /\ copies = [p \in Publisher |-> {}]
  /\ sending = [p \in Publisher |-> {}]
  /\ due = [p \in Publisher |-> {}]
  /\ reached = {}

Put(q, e) == ch' = [ch EXCEPT ![q][e] = @ + 1]
Get(q, e) == ch' = [ch EXCEPT ![q][e] = @ - 1]
Waiting(q) == {e \in Entry : ch[q][e] > 0}

Tick ==
  /\ now < MaxClock
  /\ now' = now + 1
  /\ UNCHANGED <<topics, manageVars, stored, ch, publishVars, history>>

-----------------------------------------------------------------------------
(* Topics.  Here and below, a request that is refused at its first step    *)
(* changes nothing and is left out.                                        *)

CreateTopic(t) ==
  /\ t \notin topics
  /\ topics' = topics \cup {t}
  /\ UNCHANGED <<manageVars, now, stored, ch, publishVars, history>>

\* The subscriptions of a deleted topic, and its messages, stay as they are.
DeleteTopic(t) ==
  /\ t \in topics
  /\ topics' = topics \ {t}
  /\ UNCHANGED <<manageVars, now, stored, ch, publishVars, history>>

-----------------------------------------------------------------------------
(* Subscriptions.                                                          *)

At(r, label) == at' = [at EXCEPT ![r] = label]

\* A listing owes nothing more under a name that changes.
KeepDue ==
  due' = [p \in Publisher |->
            {d \in due[p] : subs'[d[1]] = subs[d[1]] /\ queue'[d[1]] = queue[d[1]]}]

\* CreateSubscription looks the topic up, ...
BeginCreate(r) ==
  /\ at[r] = "start"
  /\ Asks[r].topic \in topics
  /\ At(r, "store")
  /\ UNCHANGED <<topics, subs, queue, loaded, now, stored, ch, publishVars, history>>

\* ... stores the subscription, by LoadOrStore, ...
StoreSubscription(r) ==
  /\ at[r] = "store"
  /\ IF subs[Name[r]] = None
     THEN /\ subs' = [subs EXCEPT ![Name[r]] =
                 [topic |-> Asks[r].topic, filter |-> Asks[r].filter, by |-> r]]
          /\ At(r, "init")
     ELSE At(r, "done") /\ UNCHANGED subs
  /\ UNCHANGED <<topics, queue, loaded, now, stored, ch, publishVars>>
  /\ UNCHANGED reached /\ KeepDue

\* ... and then an empty queue, over whatever has the name.
InitSubscription(r) ==
  /\ at[r] = "init"
  /\ queue' = [queue EXCEPT ![Name[r]] = r]
  /\ At(r, "done")
  /\ UNCHANGED <<topics, subs, loaded, now, stored, ch, publishVars>>
  /\ UNCHANGED reached /\ KeepDue

\* DeleteSubscription: Load and Delete in the repository, then the queue.
CheckDelete(r) ==
  /\ at[r] = "start"
  /\ subs[Name[r]] # None
  /\ At(r, "remove")
  /\ UNCHANGED <<topics, subs, queue, loaded, now, stored, ch, publishVars, history>>

RemoveSubscription(r) ==
  /\ at[r] = "remove"
  /\ subs' = [subs EXCEPT ![Name[r]] = None]
  /\ At(r, "drop")
  /\ UNCHANGED <<topics, queue, loaded, now, stored, ch, publishVars>>
  /\ UNCHANGED reached /\ KeepDue

DropQueue(r) ==
  /\ at[r] = "drop"
  /\ queue' = [queue EXCEPT ![Name[r]] = None]
  /\ At(r, "done")
  /\ UNCHANGED <<topics, subs, loaded, now, stored, ch, publishVars>>
  /\ UNCHANGED reached /\ KeepDue

\* The requests that write a copy back: it is read, ...
LoadSubscription(r) ==
  /\ at[r] = "start"
  /\ subs[Name[r]] # None
  /\ loaded' = [loaded EXCEPT ![r] = subs[Name[r]]]
  /\ At(r, "check")
  /\ UNCHANGED <<topics, subs, queue, now, stored, ch, publishVars, history>>

\* ... the name is looked up again, ...
CheckUpdate(r) ==
  /\ at[r] = "check"
  /\ At(r, IF subs[Name[r]] = None THEN "done" ELSE "write")
  /\ UNCHANGED <<topics, subs, queue, loaded, now, stored, ch, publishVars, history>>

\* ... and the copy is stored whole.  Only a detach changes its topic, and
\* nothing its filter.
WriteSubscription(r) ==
  /\ at[r] = "write"
  /\ \E t \in {loaded[r].topic, Deleted} :
       subs' = [subs EXCEPT ![Name[r]] =
         [topic |-> t, filter |-> loaded[r].filter, by |-> loaded[r].by]]
  /\ At(r, "done")
  /\ UNCHANGED <<topics, queue, loaded, now, stored, ch, publishVars>>
  /\ UNCHANGED reached /\ KeepDue

-----------------------------------------------------------------------------
(* Publish.                                                                *)

Goto(p, label) == pc' = [pc EXCEPT ![p] = label]

\* The topic is looked up once, and the whole batch bears one time.
StartPublish(p) ==
  /\ pc[p] = "start"
  /\ PublishTo[p] \in topics
  /\ stamp' = [stamp EXCEPT ![p] = now]
  /\ Goto(p, "store")
  /\ UNCHANGED <<topics, manageVars, now, stored, ch, sent, unlisted, copies,
                 sending, history>>

StoreMessage(p) ==
  /\ pc[p] = "store"
  /\ sent[p] < Len(Batch[p])
  /\ sent' = [sent EXCEPT ![p] = @ + 1]
  /\ stored' = [stored EXCEPT ![Batch[p][sent[p] + 1]] = stamp[p]]
  /\ UNCHANGED <<topics, manageVars, now, ch, pc, stamp, unlisted, copies,
                 sending, history>>

\* The subscriptions of topic t whose creation has got as far as the queue.
Attached(t) == {s \in Sub : subs[s] # None /\ queue[s] # None /\ subs[s].topic = t}

List(p) ==
  /\ unlisted' = [unlisted EXCEPT ![p] = Sub]
  /\ due' = [due EXCEPT ![p] = {<<s, queue[s]>> : s \in Attached(PublishTo[p])}]
  /\ Goto(p, "list")
  /\ UNCHANGED <<topics, manageVars, now, stored, ch, sent, stamp, copies,
                 sending, reached>>

\* Mutant: the subscriptions are listed before the messages are stored.
ListEarly(p) == pc[p] = "store" /\ List(p)

StartListing(p) == pc[p] = "store" /\ sent[p] = Len(Batch[p]) /\ List(p)

\* Range comes by each name once, at some time while the call lasts.
ListSubscription(p, s) ==
  /\ pc[p] = "list"
  /\ s \in unlisted[p]
  /\ unlisted' = [unlisted EXCEPT ![p] = @ \ {s}]
  /\ copies' = [copies EXCEPT ![p] =
       IF subs[s] # None /\ subs[s].topic = PublishTo[p]
       THEN @ \cup {[name |-> s, filter |-> subs[s].filter]} ELSE @]
  /\ UNCHANGED <<topics, manageVars, now, stored, ch, pc, sent, stamp, sending,
                 history>>

\* The answer is sent; the goroutines of copies[p] run on.
Return(p) ==
  /\ pc[p] = "list"
  /\ unlisted[p] = {}
  /\ Goto(p, "done")
  /\ UNCHANGED <<topics, manageVars, now, stored, ch, sent, stamp, unlisted,
                 copies, sending, history>>

\* Mutant: the first message that does not match ends the loop.
MatchingPrefix(p, c) ==
  {Batch[p][i] : i \in {i \in 1..Len(Batch[p]) :
                           \A j \in 1..i : Batch[p][j] \in Passes[c.filter]}}

\* Messages the copy's filter accepts.
Matching(p, c) == Messages(p) \cap Passes[c.filter]

\* Enqueue looks the queue up when the goroutine runs; without one it fails,
\* and the error is dropped.
FindQueue(p, c) ==
  /\ pc[p] = "done"
  /\ c \in copies[p]
  /\ copies' = [copies EXCEPT ![p] = @ \ {c}]
  /\ sending' = IF queue[c.name] = None THEN sending
                ELSE [sending EXCEPT ![p] =
                        @ \cup ({queue[c.name]} \X Matching(p, c))]
  /\ UNCHANGED <<topics, manageVars, now, stored, ch, pc, sent, stamp, unlisted,
                 history>>

\* One message of a goroutine's batch; in a bag their order is nothing.
SendNext(p, q, m) ==
  /\ <<q, m>> \in sending[p]
  /\ sending' = [sending EXCEPT ![p] = @ \ {<<q, m>>}]
  /\ Put(q, <<m, p>>)
  /\ reached' = reached \cup {<<q, <<m, p>>>>}
  /\ UNCHANGED <<topics, manageVars, now, stored, pc, sent, stamp, unlisted,
                 copies, due>>

-----------------------------------------------------------------------------
Manage ==
  \/ \E t \in Topic : CreateTopic(t) \/ DeleteTopic(t)
  \/ \E r \in Creator : BeginCreate(r) \/ StoreSubscription(r) \/ InitSubscription(r)
  \/ \E r \in Deleter : CheckDelete(r) \/ RemoveSubscription(r) \/ DropQueue(r)
  \/ \E r \in Updater : LoadSubscription(r) \/ CheckUpdate(r) \/ WriteSubscription(r)

Publish(p) ==
  \/ StartPublish(p) \/ StoreMessage(p) \/ StartListing(p) \/ Return(p)
  \/ \E s \in Sub : ListSubscription(p, s)
  \/ \E c \in copies[p] : FindQueue(p, c)

\* Every step but the sends, which reach into the queues.
PubSubStep == Tick \/ Manage \/ \E p \in Publisher : Publish(p)

-----------------------------------------------------------------------------
\* Once the goroutines of a Publish have run, every subscription that was
\* attached with a queue when it began to list, and has not changed since, was
\* sent each message that passes its filter, into that queue, whatever
\* requests for the same name and others overlapped.
FanOutReaches ==
  \A p \in Publisher :
    pc[p] = "done" /\ copies[p] = {} /\ sending[p] = {} =>
      \A d \in due[p] :
        {d[2]} \X ((Messages(p) \cap Passes[subs[d[1]].filter]) \X {p}) \subseteq reached
=============================================================================
