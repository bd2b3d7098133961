------------------------- MODULE MCSubscriptionQueue -------------------------
(***************************************************************************)
(* Small instances of SubscriptionQueue.  Messages a1 and a2 share an      *)
(* ordering key, b1 has none.  What the documents say of the queue and the *)
(* code does not do is at the end.                                         *)
(***************************************************************************)
EXTENDS QueueImplementsBacklog

CONSTANTS a1, a2, a3, b1, pub1, pub2, keyA

MCKey == [m \in PM |-> IF m \in {a1, a2, a3} THEN keyA ELSE NoKey]

\* Two publishes: one of a key in order, one without a key.
TwoBatches ==
  [t \in Senders |-> IF t = pub1 THEN <<a1, a2>>
                     ELSE IF t = pub2 THEN <<b1>> ELSE <<>>]

\* One publish of two messages of one key.
OneBatch == [t \in Senders |-> IF t = pub1 THEN <<a1, a2>> ELSE <<>>]

\* A publish of one message and a seek to another of the same key.
OneEach == [t \in Senders |-> IF t = pub1 THEN <<a1>> ELSE <<a2>>]

\* a1 and its successors wait behind a message of no key.
MixedBatch == [t \in Senders |-> IF t = pub1 THEN <<a1, a2, b1, a3>> ELSE <<>>]

PullOne == [p \in Pullers |-> 1]
PullTwo == [p \in Pullers |-> 2]

-----------------------------------------------------------------------------
\* README.md:212: acking "removes those messages from the in-flight map so
\* they are never redelivered".  RequeueExpired tests the deadline first and
\* deletes and re-enqueues later: an ack in between is undone.
AckIsFinal == acked \cap inFlight = {}

\* pubsub.proto:1523: with one ordering key messages are delivered in the
\* order in which they are received.  A skipped message goes back to the tail
\* of the channel, behind a later one of its key.
FirstLeasesInOrder ==
  \A t \in Publishers : \A j \in DOMAIN Batch[t] : \A i \in 1 .. j - 1 :
    LET m == Batch[t][i]
        n == Batch[t][j]
    IN Ordered /\ Key[m] = Key[n] /\ Key[m] # NoKey /\ attempt[n] > 0
         => attempt[m] > 0 \/ m \in dropped
=============================================================================
