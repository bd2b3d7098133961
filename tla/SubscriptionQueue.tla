-------------------------- MODULE SubscriptionQueue --------------------------
(***************************************************************************)
(* One subscription's message queue: memory.SubscriptionQueue and the      *)
(* methods of PendingMessageRepository that work on it.                    *)
(*                                                                         *)
(* The code takes no lock around a whole method.  What is atomic is one    *)
(* operation on the buffered channel `ch` or on the sync.Map `inFlight`,   *)
(* so a method is a sequence of steps of the goroutine that runs it and    *)
(* steps of different goroutines interleave.  A pending message stands for *)
(* the pointer *models.PendingMessage and for its ack ID, which are one to *)
(* one.  A deadline is abstracted to what the code asks of it: none (the   *)
(* zero time), live, or past.                                              *)
(***************************************************************************)
EXTENDS Naturals, Sequences, FiniteSets, Functions

CONSTANTS
  PM,           \* the pending messages ever enqueued
  Publishers,   \* goroutines of Publish's fan-out, one batch each
  Pullers,      \* goroutines that call Pull: the dispatcher, unary Pull handlers
  Listers,      \* goroutines that call ListAll (CreateSnapshot)
  Seekers,      \* goroutines that call ReplaceAll (SeekToTime, SeekToSnapshot)
  Batch,        \* what each publisher and each seeker enqueues, in order
  MaxMessages,  \* the limit of each puller
  QueueSize,    \* capacity of ch
  Ordered,      \* the subscription's enable_message_ordering
  Key,          \* ordering key of each message
  NoKey,        \* the empty ordering key
  Extendable,   \* messages whose deadline clients modify (bounds the model)
  MaxExpiry,    \* how often one message's lease runs out (bounds the model)
  Nil           \* "no message"

Senders == Publishers \cup Seekers
Holders == Pullers \cup Listers
Threads == Senders \cup Holders

ASSUME QueueAssumption ==
  /\ Publishers \cap (Seekers \cup Holders) = {}
  /\ Seekers \cap Holders = {}
  /\ Pullers \cap Listers = {}
  /\ Batch \in [Senders -> Seq(PM)]
  /\ PM = UNION {Range(Batch[t]) : t \in Senders}
  /\ IsFiniteSet(PM)
  /\ \A t \in Senders : IsInjective(Batch[t])
  /\ \A t, u \in Senders : t # u => Range(Batch[t]) \cap Range(Batch[u]) = {}
  /\ MaxMessages \in [Pullers -> Nat \ {0}]
  /\ QueueSize \in Nat \ {0}
  /\ Ordered \in BOOLEAN
  /\ DOMAIN Key = PM
  /\ Extendable \subseteq PM
  /\ MaxExpiry \in Nat
  /\ Nil \notin PM

VARIABLES
  ch,          \* the buffered channel, head first
  inFlight,    \* the sync.Map: messages under lease
  notify,      \* a token is in the notify channel
  deadline,    \* AckDeadline of each message
  attempt,     \* DeliveryAttempt of each message
  pc,          \* where each goroutine is in its method
  seen,        \* what a goroutine's walk over the queue still has to meet
  leasedKeys,  \* Pull's leasedKeys
  cur,         \* the message a Pull has in hand
  todo,        \* messages a goroutine will send on ch: batch, skipped or queued
  out,         \* result of a Pull or of a ListAll
  updating,    \* messages loaded by a ModifyAckDeadline that has not written yet
  \* History, read by guards of the clients and by properties only.
  handed,      \* returned by some Pull: clients know the ack ID
  expiries,    \* how often each message's lease ran out
  acked,       \* removed from inFlight by an Acknowledge
  dropped,     \* refused by a full channel, with nobody left to send it again
  replaced,    \* removed by ReplaceAll and not leased since
  overtaken    \* deadline modified after a Pull found the lease expired and
               \* before the same Pull deletes it

queueVars == <<ch, inFlight, notify>>
msgVars   == <<deadline, attempt, updating>>
localVars == <<pc, seen, leasedKeys, cur, todo, out>>
history   == <<handed, expiries, acked, dropped, replaced, overtaken>>
vars      == <<queueVars, msgVars, localVars, history>>

-----------------------------------------------------------------------------
Goto(t, label) == pc' = [pc EXCEPT ![t] = label]

Keys(S) == {Key[m] : m \in S} \ {NoKey}

\* Enqueue: one non-blocking send, then a non-blocking token on notify.
HasRoomAndOne == Len(ch) <= QueueSize      \* mutant: capacity one too large
HasRoomLessOne == Len(ch) + 1 < QueueSize  \* mutant: capacity one too small
HasRoom == Len(ch) < QueueSize
Send(m) == ch' = Append(ch, m) /\ notify' = TRUE

\* The messages a goroutine has taken off ch or inFlight and not put back.
InHand(t) ==
  IF t \in Pullers /\ pc[t] \in {"requeue", "store"} THEN {cur[t]} ELSE {}
Held(t) == Range(todo[t]) \cup InHand(t)

\* Everything that still waits for delivery or for an ack.
Backlog == Range(ch) \cup inFlight \cup UNION {Held(t) : t \in Holders}

Init ==
  /\ ch = <<>>
  /\ inFlight = {}
  /\ notify = FALSE
  /\ deadline = [m \in PM |-> "none"]
  /\ attempt = [m \in PM |-> 0]
  /\ pc = [t \in Threads |-> IF t \in Seekers THEN "drain"
                             ELSE IF t \in Publishers THEN "fill" ELSE "idle"]
  /\ seen = [t \in Holders |-> {}]
  /\ leasedKeys = [t \in Pullers |-> {}]
  /\ cur = [t \in Pullers |-> Nil]
  /\ todo = [t \in Threads |-> IF t \in Senders THEN Batch[t] ELSE <<>>]
  /\ out = [t \in Holders |-> <<>>]
  /\ updating = {}
  /\ handed = {}
  /\ expiries = [m \in PM |-> 0]
  /\ acked = {}
  /\ dropped = {}
  /\ replaced = {}
  /\ overtaken = {}

-----------------------------------------------------------------------------
(* Enqueue of a batch: PendingMessageRepository.Enqueue for a publisher,   *)
(* the last loop of ReplaceAll for a seeker.  The first message that finds *)
(* the channel full ends the loop: the rest of the batch is lost with it.  *)

SendNext(t) ==
  /\ pc[t] = "fill"
  /\ todo[t] # <<>>
  /\ HasRoom
  /\ Send(Head(todo[t]))
  /\ todo' = [todo EXCEPT ![t] = Tail(@)]
  /\ UNCHANGED <<inFlight, pc, seen, leasedKeys, cur, out, msgVars, history>>

SendRefused(t) ==
  /\ pc[t] = "fill"
  /\ todo[t] # <<>>
  /\ ~HasRoom
  /\ dropped' = dropped \cup Range(todo[t])
  /\ todo' = [todo EXCEPT ![t] = <<>>]
  /\ UNCHANGED <<queueVars, msgVars, pc, seen, leasedKeys, cur, out, handed,
                 expiries, acked, replaced, overtaken>>

-----------------------------------------------------------------------------
(* Pull.  RequeueExpired comes first: `now` is read once, so only leases   *)
(* that are past at this point are due.  The dispatcher may have been      *)
(* woken by the token on notify, which it has then consumed.               *)

PullStart(p) ==
  /\ pc[p] = "idle"
  /\ seen' = [seen EXCEPT ![p] = {m \in inFlight : deadline[m] = "past"}]
  /\ notify' \in {notify, FALSE}
  /\ Goto(p, "scan")
  /\ UNCHANGED <<ch, inFlight, msgVars, leasedKeys, cur, todo, out, history>>

\* The entries Range still meets and finds expired.
DueIfLeased(p) == {m \in inFlight : deadline[m] # "none"}  \* mutant: no clock
Due(p) == {m \in seen[p] \cap inFlight : deadline[m] = "past"}

FindExpired(p, m) ==
  /\ pc[p] = "scan"
  /\ m \in Due(p)
  /\ seen' = [seen EXCEPT ![p] = @ \ {m}]
  /\ cur' = [cur EXCEPT ![p] = m]
  /\ Goto(p, "delete")
  /\ UNCHANGED <<queueVars, msgVars, leasedKeys, todo, out, history>>

\* Mutant: the entry stays in the map.
ResetExpired(p) ==
  /\ pc[p] = "delete"
  /\ deadline' = [deadline EXCEPT ![cur[p]] = "none"]
  /\ Goto(p, "requeue")
  /\ UNCHANGED <<queueVars, attempt, updating, seen, leasedKeys, cur, todo, out,
                 history>>

DeleteExpired(p) ==
  /\ pc[p] = "delete"
  /\ inFlight' = inFlight \ {cur[p]}
  /\ deadline' = [deadline EXCEPT ![cur[p]] = "none"]
  /\ overtaken' = overtaken \ {cur[p]}
  /\ Goto(p, "requeue")
  /\ UNCHANGED <<ch, notify, attempt, updating, seen, leasedKeys, cur, todo,
                 out, handed, expiries, acked, dropped, replaced>>

\* Mutant: the expired message is deleted and never sent.
ForgetExpired(p) ==
  /\ pc[p] = "requeue"
  /\ cur' = [cur EXCEPT ![p] = Nil]
  /\ Goto(p, "scan")
  /\ UNCHANGED <<queueVars, msgVars, seen, leasedKeys, todo, out, history>>

\* The result of Enqueue is ignored: a full channel loses the message.
RequeueExpired(p) ==
  /\ pc[p] = "requeue"
  /\ \/ /\ HasRoom
        /\ Send(cur[p])
        /\ UNCHANGED dropped
     \/ /\ ~HasRoom
        /\ dropped' = dropped \cup {cur[p]}
        /\ UNCHANGED <<ch, notify>>
  /\ cur' = [cur EXCEPT ![p] = Nil]
  /\ Goto(p, "scan")
  /\ UNCHANGED <<inFlight, msgVars, seen, leasedKeys, todo, out, handed,
                 expiries, acked, replaced, overtaken>>

\* Mutant: the keys of queued messages count as leased too.
CollectAllKeys(p) ==
  /\ pc[p] = "scan"
  /\ Due(p) = {}
  /\ seen' = [seen EXCEPT ![p] = {}]
  /\ leasedKeys' = [leasedKeys EXCEPT ![p] =
                      IF Ordered THEN Keys(inFlight \cup Range(ch)) ELSE {}]
  /\ Goto(p, "loop")
  /\ UNCHANGED <<queueVars, msgVars, cur, todo, out, history>>

CollectLeasedKeys(p) ==
  /\ pc[p] = "scan"
  /\ Due(p) = {}
  /\ seen' = [seen EXCEPT ![p] = {}]
  /\ leasedKeys' = [leasedKeys EXCEPT ![p] =
                      IF Ordered THEN Keys(inFlight) ELSE {}]
  /\ Goto(p, "loop")
  /\ UNCHANGED <<queueVars, msgVars, cur, todo, out, history>>

\* The loop goes on: the limit is not reached and TryDequeue gets a message.
CanDequeue(p) == pc[p] = "loop" /\ Len(out[p]) < MaxMessages[p] /\ ch # <<>>

KeyLeased(p, m) == Ordered /\ Key[m] # NoKey /\ Key[m] \in leasedKeys[p]

\* Mutant: a skipped message counts as a delivery attempt.
SkipAndCount(p) ==
  /\ CanDequeue(p)
  /\ KeyLeased(p, Head(ch))
  /\ ch' = Tail(ch)
  /\ todo' = [todo EXCEPT ![p] = Append(@, Head(ch))]
  /\ attempt' = [attempt EXCEPT ![Head(ch)] = @ + 1]
  /\ UNCHANGED <<inFlight, notify, deadline, updating, pc, seen, leasedKeys, cur,
                 out, history>>

SkipMessage(p) ==
  /\ CanDequeue(p)
  /\ KeyLeased(p, Head(ch))
  /\ ch' = Tail(ch)
  /\ todo' = [todo EXCEPT ![p] = Append(@, Head(ch))]
  /\ UNCHANGED <<inFlight, notify, msgVars, pc, seen, leasedKeys, cur, out,
                 history>>

\* Mutant: the key of a message taken in this Pull is not remembered.
TakeAndForgetKey(p) ==
  /\ CanDequeue(p)
  /\ ~KeyLeased(p, Head(ch))
  /\ deadline' = [deadline EXCEPT ![Head(ch)] = "live"]
  /\ attempt' = [attempt EXCEPT ![Head(ch)] = @ + 1]
  /\ cur' = [cur EXCEPT ![p] = Head(ch)]
  /\ ch' = Tail(ch)
  /\ Goto(p, "store")
  /\ replaced' = replaced \ {Head(ch)}
  /\ UNCHANGED <<inFlight, notify, updating, seen, leasedKeys, todo, out,
                 handed, expiries, acked, dropped, overtaken>>

TakeMessage(p) ==
  /\ CanDequeue(p)
  /\ LET m == Head(ch) IN
       /\ ~KeyLeased(p, m)
       /\ leasedKeys' = [leasedKeys EXCEPT ![p] =
                           IF Ordered THEN @ \cup Keys({m}) ELSE @]
       /\ deadline' = [deadline EXCEPT ![m] = "live"]
       /\ attempt' = [attempt EXCEPT ![m] = @ + 1]
       /\ cur' = [cur EXCEPT ![p] = m]
  /\ ch' = Tail(ch)
  /\ Goto(p, "store")
  /\ replaced' = replaced \ {Head(ch)}
  /\ UNCHANGED <<inFlight, notify, updating, seen, todo, out, handed, expiries,
                 acked, dropped, overtaken>>

StoreInFlight(p) ==
  /\ pc[p] = "store"
  /\ inFlight' = inFlight \cup {cur[p]}
  /\ out' = [out EXCEPT ![p] = Append(@, cur[p])]
  /\ cur' = [cur EXCEPT ![p] = Nil]
  /\ Goto(p, "loop")
  /\ UNCHANGED <<ch, notify, msgVars, seen, leasedKeys, todo, history>>

EndLoop(p) ==
  /\ pc[p] = "loop"
  /\ ~CanDequeue(p)
  /\ Goto(p, "putback")
  /\ UNCHANGED <<queueVars, msgVars, seen, leasedKeys, cur, todo, out, history>>

\* Mutant: Pull returns without sending the skipped messages.
ReturnAndForget(p) ==
  /\ pc[p] = "putback"
  /\ handed' = handed \cup Range(out[p])
  /\ out' = [out EXCEPT ![p] = <<>>]
  /\ todo' = [todo EXCEPT ![p] = <<>>]
  /\ leasedKeys' = [leasedKeys EXCEPT ![p] = {}]
  /\ Goto(p, "idle")
  /\ UNCHANGED <<queueVars, msgVars, seen, cur, expiries, acked, dropped,
                 replaced, overtaken>>

PullReturn(p) ==
  /\ pc[p] = "putback"
  /\ todo[p] = <<>>
  /\ handed' = handed \cup Range(out[p])
  /\ out' = [out EXCEPT ![p] = <<>>]
  /\ leasedKeys' = [leasedKeys EXCEPT ![p] = {}]
  /\ Goto(p, "idle")
  /\ UNCHANGED <<queueVars, msgVars, seen, cur, todo, expiries, acked, dropped,
                 replaced, overtaken>>

\* Pull's skipped messages and ListAll's drained ones go back to the channel
\* one by one; the result of Enqueue is ignored here as well.
PutBack(t) ==
  /\ pc[t] = "putback"
  /\ todo[t] # <<>>
  /\ \/ /\ HasRoom
        /\ Send(Head(todo[t]))
        /\ UNCHANGED dropped
     \/ /\ ~HasRoom
        /\ dropped' = dropped \cup {Head(todo[t])}
        /\ UNCHANGED <<ch, notify>>
  /\ todo' = [todo EXCEPT ![t] = Tail(@)]
  /\ UNCHANGED <<inFlight, msgVars, pc, seen, leasedKeys, cur, out, handed,
                 expiries, acked, replaced, overtaken>>

-----------------------------------------------------------------------------
(* ListAll.  `seen` holds what the call owes its caller.                   *)

ListStart(l) ==
  /\ pc[l] = "idle"
  /\ seen' = [seen EXCEPT ![l] = Backlog]
  /\ Goto(l, "drain")
  /\ UNCHANGED <<queueVars, msgVars, leasedKeys, cur, todo, out, history>>

\* Mutant: the drained messages overwrite each other.
ListDrainLast(l) ==
  /\ pc[l] = "drain"
  /\ \/ /\ ch # <<>>
        /\ ch' = Tail(ch)
        /\ todo' = [todo EXCEPT ![l] = <<Head(ch)>>]
        /\ out' = [out EXCEPT ![l] = Append(@, Head(ch))]
        /\ UNCHANGED pc
     \/ /\ ch = <<>>
        /\ Goto(l, "putback")
        /\ UNCHANGED <<ch, todo, out>>
  /\ UNCHANGED <<inFlight, notify, msgVars, seen, leasedKeys, cur, history>>

ListDrain(l) ==
  /\ pc[l] = "drain"
  /\ \/ /\ ch # <<>>
        /\ ch' = Tail(ch)
        /\ todo' = [todo EXCEPT ![l] = Append(@, Head(ch))]
        /\ out' = [out EXCEPT ![l] = Append(@, Head(ch))]
        /\ UNCHANGED pc
     \/ /\ ch = <<>>
        /\ Goto(l, "putback")
        /\ UNCHANGED <<ch, todo, out>>
  /\ UNCHANGED <<inFlight, notify, msgVars, seen, leasedKeys, cur, history>>

\* ListInFlight meets the entries of the map in any order.
ListReturn(l) ==
  /\ pc[l] = "putback"
  /\ todo[l] = <<>>
  /\ \E order \in Bijection(1 .. Cardinality(inFlight), inFlight) :
       out' = [out EXCEPT ![l] = @ \o order]
  /\ Goto(l, "listed")
  /\ UNCHANGED <<queueVars, msgVars, seen, leasedKeys, cur, todo, history>>

-----------------------------------------------------------------------------
(* ReplaceAll drains the channel, clears inFlight and sends its batch.     *)

SeekDrain(s) ==
  /\ pc[s] = "drain"
  /\ ch # <<>>
  /\ ch' = Tail(ch)
  /\ replaced' = replaced \cup {Head(ch)}
  /\ UNCHANGED <<inFlight, notify, msgVars, localVars, handed, expiries, acked,
                 dropped, overtaken>>

SeekClear(s) ==
  /\ pc[s] = "drain"
  /\ ch = <<>>
  /\ inFlight' = {}
  /\ replaced' = replaced \cup inFlight
  /\ Goto(s, "fill")
  /\ UNCHANGED <<ch, notify, msgVars, seen, leasedKeys, cur, todo, out, handed,
                 expiries, acked, dropped, overtaken>>

-----------------------------------------------------------------------------
(* The clients, and time.                                                  *)

\* AcknowledgeByAckID, for one of the ack IDs of the request.
Acknowledge(m) ==
  /\ m \in handed \cap inFlight
  /\ inFlight' = inFlight \ {m}
  /\ acked' = acked \cup {m}
  /\ UNCHANGED <<ch, notify, msgVars, localVars, handed, expiries, dropped,
                 replaced, overtaken>>

\* Found expired by a Pull that has yet to delete their entries.
Condemned == {cur[p] : p \in {q \in Pullers : pc[q] = "delete"}}

\* UpdateDeadline, for one ack ID: the entry is loaded, then the message's
\* deadline is written through the pointer, in flight or not by then.  A nack
\* is the same write with a deadline that runs out at once.
LoadForUpdate(m) ==
  /\ m \in handed \cap inFlight \cap Extendable
  /\ updating' = updating \cup {m}
  /\ UNCHANGED <<queueVars, deadline, attempt, localVars, history>>

WriteDeadline(m) ==
  /\ m \in updating
  /\ deadline' = [deadline EXCEPT ![m] = "live"]
  /\ updating' = updating \ {m}
  /\ overtaken' = IF m \in Condemned THEN overtaken \cup {m} ELSE overtaken
  /\ UNCHANGED <<queueVars, attempt, localVars, handed, expiries, acked, dropped,
                 replaced>>

\* The clock passes the ack deadline of a leased message.
LeaseRunsOut(m) ==
  /\ m \in inFlight
  /\ deadline[m] = "live"
  /\ expiries[m] < MaxExpiry
  /\ deadline' = [deadline EXCEPT ![m] = "past"]
  /\ expiries' = [expiries EXCEPT ![m] = @ + 1]
  /\ UNCHANGED <<queueVars, attempt, updating, localVars, handed, acked,
                 dropped, replaced, overtaken>>

-----------------------------------------------------------------------------
SendStep(t) == SendNext(t) \/ SendRefused(t)

PullStep(p) ==
  \/ \E m \in PM : FindExpired(p, m)
  \/ DeleteExpired(p) \/ RequeueExpired(p) \/ CollectLeasedKeys(p)
  \/ SkipMessage(p) \/ TakeMessage(p) \/ StoreInFlight(p) \/ EndLoop(p)
  \/ PutBack(p) \/ PullReturn(p)

ListStep(l) == ListDrain(l) \/ PutBack(l) \/ ListReturn(l)

SeekStep(s) == SeekDrain(s) \/ SeekClear(s)

ClientStep(m) == Acknowledge(m) \/ LoadForUpdate(m) \/ WriteDeadline(m)

Next ==
  \/ \E t \in Senders : SendStep(t)
  \/ \E p \in Pullers : PullStart(p) \/ PullStep(p)
  \/ \E l \in Listers : ListStart(l) \/ ListStep(l)
  \/ \E s \in Seekers : SeekStep(s)
  \/ \E m \in PM : ClientStep(m) \/ LeaseRunsOut(m)

Spec == Init /\ [][Next]_vars

(* Every goroutine goes on running; Pull is called again and again (the    *)
(* dispatcher's 500 ms ticker, a client that keeps polling); a lease does  *)
(* not last for ever: the client acks it or the clock passes its deadline. *)
Fairness ==
  /\ \A t \in Senders : WF_vars(SendStep(t))
  /\ \A p \in Pullers : WF_vars(PullStart(p) \/ PullStep(p))
  /\ \A l \in Listers : WF_vars(ListStep(l))
  /\ \A s \in Seekers : WF_vars(SeekStep(s))
  /\ \A m \in PM : WF_vars(WriteDeadline(m))
  /\ \A m \in PM : WF_vars(Acknowledge(m) \/ LeaseRunsOut(m))

FairSpec == Spec /\ Fairness

-----------------------------------------------------------------------------
\* The types of the variables; a Pull that deletes, requeues or stores has a
\* message in hand (the pointers queue.go and pending_message.go follow there).
TypeOK ==
  /\ ch \in Seq(PM) /\ Len(ch) <= QueueSize
  /\ inFlight \subseteq PM
  /\ notify \in BOOLEAN
  /\ deadline \in [PM -> {"none", "live", "past"}]
  /\ attempt \in [PM -> Nat]
  /\ pc \in [Threads -> {"idle", "scan", "delete", "requeue", "loop", "store",
                         "putback", "drain", "fill", "listed"}]
  /\ seen \in [Holders -> SUBSET PM]
  /\ leasedKeys \in [Pullers -> SUBSET Keys(PM)]
  /\ cur \in [Pullers -> PM \cup {Nil}]
  /\ \A p \in Pullers : pc[p] \in {"delete", "requeue", "store"} => cur[p] \in PM
  /\ todo \in [Threads -> Seq(PM)]
  /\ out \in [Holders -> Seq(PM)]
  /\ updating \subseteq PM
  /\ handed \subseteq PM
  /\ expiries \in [PM -> Nat]
  /\ acked \subseteq PM
  /\ dropped \subseteq PM
  /\ replaced \subseteq PM
  /\ overtaken \subseteq PM

(***************************************************************************)
(* Properties.                                                             *)
(***************************************************************************)
\* Nobody still has the message in a batch to enqueue.
Entered == PM \ UNION {Range(todo[t]) : t \in Senders}

Gone == acked \cup dropped \cup replaced

\* No message is lost: whatever was enqueued is queued, leased or in the hand
\* of a running Pull or ListAll until an Acknowledge, a ReplaceAll or a full
\* channel takes it away, however Pull, ListAll, ReplaceAll, Acknowledge and
\* ModifyAckDeadline calls interleave.
Conservation == Entered \subseteq Backlog \cup Gone

\* A message is in one place: once in the channel, or in inFlight, or held by
\* one goroutine ("undelivered messages live in the buffered channel; leased
\* messages live in inFlight").  This needs at most one goroutine in Pull.
Exclusive ==
  /\ IsInjective(ch)
  /\ Range(ch) \cap inFlight = {}
  /\ \A t \in Threads :
       /\ IsInjective(todo[t])
       /\ InHand(t) \cap Range(todo[t]) = {}
       /\ Held(t) \cap (Range(ch) \cup inFlight) = {}
       /\ \A u \in Threads \ {t} : Held(t) \cap Held(u) = {}

\* Of the messages with one ordering key at most one is leased or about to
\* be (Pull's leasedKeys), while Pull calls do not overlap.
OneLeasePerKey ==
  Ordered =>
    \A m, n \in inFlight \cup UNION {InHand(p) : p \in Pullers} :
      (Key[m] = Key[n] /\ Key[m] # NoKey) => m = n

\* With room for every message at once, no send ever finds the channel full,
\* since no call leaves a second copy of a message behind.
NoLossBelowCapacity == Cardinality(PM) <= QueueSize => dropped = {}

\* DeliveryAttempt is at most 1 + the number of nacks and expired deadlines,
\* as the API documents delivery_attempt.
AttemptsCountLeases == \A m \in PM : attempt[m] <= expiries[m] + 1

\* A step takes a message out of inFlight only if the client acked it, its
\* deadline is past, or a seek replaced the whole backlog.  Clients modify
\* deadlines meanwhile: an extension is lost only if it is written between the
\* test and the delete of one Pull's RequeueExpired.
NoLeaseCutShort ==
  [][\A m \in inFlight \ inFlight' :
       m \in acked' \cup replaced' \cup overtaken \/ deadline[m] = "past"]_vars

\* Every wait ends: a message in the channel is leased sooner or later, unless
\* a full channel loses it or a seek replaces it, each time its lease runs out
\* anew, in spite of skipped ordering keys and of pulls that take less than
\* the channel holds.
EveryWaitEnds ==
  \A m \in PM : m \in Range(ch) ~> m \in inFlight \cup dropped \cup replaced
=============================================================================
