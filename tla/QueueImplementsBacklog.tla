----------------------- MODULE QueueImplementsBacklog ------------------------
(***************************************************************************)
(* SubscriptionQueue with one goroutine at a time in Pull behaves like     *)
(* Backlog.  A lease is released when RequeueExpired finds it past its     *)
(* deadline, and not when it deletes the entry: an ack that comes between  *)
(* the two finds a message that already waits again, and is ignored,       *)
(* although it does remove the entry of the map.  For the same reason a    *)
(* seek that clears the map in between does not end that message's wait.   *)
(***************************************************************************)
EXTENDS SubscriptionQueue

releasing == Condemned

waiting == Range(ch) \cup releasing \cup UNION {Held(t) : t \in Holders}
leased == inFlight \ releasing
lost == (dropped \cup replaced) \ (waiting \cup leased)
acknowledged == acked \ (waiting \cup leased \cup lost)

Promise == INSTANCE Backlog WITH Message <- PM

\* The queue keeps the promise of Backlog: a message waits, is leased, waits
\* again when the lease runs out, and only an ack during its lease, a full
\* channel or a seek ends that, in whatever order sends, Pull, ListAll,
\* ReplaceAll, Acknowledge and ModifyAckDeadline take their steps.
KeepsPromise == Promise!Spec
=============================================================================
