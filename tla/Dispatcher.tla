----------------------------- MODULE Dispatcher ------------------------------
(***************************************************************************)
(* The dispatcher of one subscription and the streaming-pull handlers that *)
(* register with it.  The subscription's queue is taken as Backlog         *)
(* describes it: messages wait or are leased, and Pull is one step.  What  *)
(* is atomic here is a critical section under the dispatcher's mutex, a    *)
(* select, and an operation on a channel.  The clock is left out: a lease  *)
(* may run out, and the 500 ms ticker may fire, at any time.               *)
(***************************************************************************)
EXTENDS Naturals, FiniteSets, SequencesExt

CONSTANTS
  Msg,        \* the messages published to the subscription
  Stream,     \* the streaming-pull handlers
  ChanCap,    \* capacity of a consumer channel, in batches (16 in the code)
  PullMax,    \* how many messages one delivery pulls (1000 in the code)
  Wrap        \* a multiple of every number of consumers there can be: nextIdx
              \* is only used modulo that number

ASSUME DispatcherAssumption ==
  /\ IsFiniteSet(Stream) /\ IsFiniteSet(Msg)
  /\ ChanCap \in Nat \ {0}
  /\ PullMax \in Nat \ {0}
  /\ Wrap \in Nat \ {0}
  /\ \A n \in 1 .. Cardinality(Stream) : Wrap % n = 0

VARIABLES
  waiting,    \* messages in the queue's channel
  leased,     \* messages in the queue's inFlight map
  past,       \* the leased messages whose ack deadline has passed
  acked,      \* messages acknowledged
  notify,     \* a token is in the queue's notify channel
  trigger,    \* a token is in the dispatcher's trigger channel
  sub,        \* "live"; "cancelled": dispatcher entry deleted, context
              \* cancelled; "deleted": subscription and queue gone as well
  consumers,  \* the dispatcher's list of registered streams
  nextIdx,    \* modulo Wrap
  dpc,        \* where the dispatcher's goroutine is
  batch,      \* what deliver has pulled and not pushed yet
  spc,        \* where each streaming-pull handler is
  chan,       \* each stream's consumer channel: a sequence of batches
  closed,     \* the streams whose channel has been closed
  received    \* messages some stream has taken from its channel

queueVars  == <<waiting, leased, past, acked, notify>>
dispVars   == <<trigger, consumers, nextIdx, dpc, batch>>
streamVars == <<spc, chan, closed, received>>
vars       == <<queueVars, dispVars, streamVars, sub>>

Init ==
  /\ waiting = {} /\ leased = {} /\ past = {} /\ acked = {}
  /\ notify = FALSE /\ trigger = FALSE
  /\ sub = "live"
  /\ consumers = <<>> /\ nextIdx = 0
  /\ dpc = "select" /\ batch = {}
  /\ spc = [c \in Stream |-> "idle"]
  /\ chan = [c \in Stream |-> <<>>]
  /\ closed = {} /\ received = {}

-----------------------------------------------------------------------------
(* The queue's side: publishes, acks, leases that run out, deletion.       *)

Publish(m) ==
  /\ sub # "deleted"
  /\ m \notin waiting \cup leased \cup acked
  /\ waiting' = waiting \cup {m}
  /\ notify' = TRUE
  /\ UNCHANGED <<leased, past, acked, dispVars, streamVars, sub>>

\* By an ack ID the client has received; without an entry in the in-flight map
\* nothing happens.
Acknowledge(m) ==
  /\ sub # "deleted"
  /\ m \in leased \cap received
  /\ leased' = leased \ {m}
  /\ past' = past \ {m}
  /\ acked' = acked \cup {m}
  /\ UNCHANGED <<waiting, notify, dispVars, streamVars, sub>>

LeaseRunsOut(m) ==
  /\ m \in leased \ past
  /\ past' = past \cup {m}
  /\ UNCHANGED <<waiting, leased, acked, notify, dispVars, streamVars, sub>>

\* DeleteSubscription: the dispatcher's entry goes and its context is
\* cancelled, then the subscription and its queue go.
CancelDispatcher ==
  /\ sub = "live"
  /\ sub' = "cancelled"
  /\ UNCHANGED <<queueVars, dispVars, streamVars>>

DropQueue ==
  /\ sub = "cancelled"
  /\ sub' = "deleted"
  /\ waiting' = {} /\ leased' = {} /\ past' = {}
  /\ UNCHANGED <<acked, notify, dispVars, streamVars>>

-----------------------------------------------------------------------------
(* run: the select of the main loop.                                       *)

WakeOnNotify ==
  /\ dpc = "select" /\ notify
  /\ notify' = FALSE
  /\ dpc' = "count"
  /\ UNCHANGED <<waiting, leased, past, acked, trigger, consumers, nextIdx,
                 batch, streamVars, sub>>

WakeOnTrigger ==
  /\ dpc = "select" /\ trigger
  /\ trigger' = FALSE
  /\ dpc' = "count"
  /\ UNCHANGED <<queueVars, consumers, nextIdx, batch, streamVars, sub>>

WakeOnTick ==
  /\ dpc = "select"
  /\ dpc' = "count"
  /\ UNCHANGED <<queueVars, trigger, consumers, nextIdx, batch, streamVars, sub>>

\* Mutant: the channels are closed and stay registered.
StopKeepingConsumers ==
  /\ dpc = "select" /\ sub # "live"
  /\ closed' = closed \cup Range(consumers)
  /\ dpc' = "stopped"
  /\ UNCHANGED <<queueVars, trigger, consumers, nextIdx, batch, spc, chan,
                 received, sub>>


Stop ==
  /\ dpc = "select" /\ sub # "live"
  /\ closed' = closed \cup Range(consumers)
  /\ consumers' = <<>>
  /\ dpc' = "stopped"
  /\ UNCHANGED <<queueVars, trigger, nextIdx, batch, spc, chan, received, sub>>

-----------------------------------------------------------------------------
(* deliver: the consumers are counted under the mutex, the messages pulled *)
(* outside it, the batch pushed under it again.                            *)

CountConsumers ==
  /\ dpc = "count"
  /\ dpc' = IF consumers = <<>> THEN "select" ELSE "pull"
  /\ UNCHANGED <<queueVars, trigger, consumers, nextIdx, batch, streamVars, sub>>

\* Mutant: Pull does not requeue the expired leases.
PullWaiting ==
  /\ dpc = "pull"
  /\ LET n == Min({PullMax, Cardinality(waiting)})
     IN IF sub = "deleted" \/ waiting = {}
        THEN dpc' = "select" /\ UNCHANGED <<waiting, leased, batch>>
        ELSE /\ \E pulled \in kSubset(n, waiting) :
                  /\ batch' = pulled
                  /\ waiting' = waiting \ pulled
                  /\ leased' = leased \cup pulled
             /\ dpc' = "push"
  /\ UNCHANGED <<past, acked, notify, trigger, consumers, nextIdx, streamVars, sub>>

\* GetSubscription and Pull.  Pull requeues the expired leases first, which
\* leaves a token in notify, and leases up to PullMax of what then waits.
PullBatch ==
  /\ dpc = "pull"
  /\ LET available == waiting \cup past
         n == Min({PullMax, Cardinality(available)})
     IN IF sub = "deleted" \/ available = {}
        THEN /\ dpc' = "select"
             /\ UNCHANGED <<waiting, leased, past, notify, batch>>
        ELSE /\ \E pulled \in kSubset(n, available) :
                  /\ batch' = pulled
                  /\ waiting' = available \ pulled
                  /\ leased' = (leased \ past) \cup pulled
             /\ past' = {}
             /\ notify' = (notify \/ past # {})
             /\ dpc' = "push"
  /\ UNCHANGED <<acked, trigger, consumers, nextIdx, streamVars, sub>>

\* The i-th consumer the loop tries, i = 0, 1, ...
Tried(i) == consumers[((nextIdx + i) % Len(consumers)) + 1]

HasSpaceAndOne(c) == Len(chan[c]) <= ChanCap  \* mutant: one batch too many
HasSpace(c) == Len(chan[c]) < ChanCap

\* Mutant: the loop gives up at the first full channel.
TryFirst == {i \in {0} \cap (0 .. Len(consumers) - 1) : HasSpace(Tried(i))}

\* The tries that find room for the batch.
Tries == {i \in 0 .. Len(consumers) - 1 : HasSpace(Tried(i))}

PushBatch ==
  /\ dpc = "push"
  /\ Tries # {}
  /\ LET i == Min(Tries)
         c == Tried(i)
     IN /\ chan' = [chan EXCEPT ![c] = Append(@, batch)]
        /\ nextIdx' = (nextIdx + i + 1) % Wrap
  /\ batch' = {}
  /\ dpc' = "select"
  /\ UNCHANGED <<queueVars, trigger, consumers, spc, closed, received, sub>>

\* No consumer is left, or all their channels are full: the messages stay
\* leased.
ParkBatch ==
  /\ dpc = "push"
  /\ Tries = {}
  /\ nextIdx' = (nextIdx + Len(consumers)) % Wrap
  /\ batch' = {}
  /\ dpc' = "select"
  /\ UNCHANGED <<queueVars, trigger, consumers, streamVars, sub>>

-----------------------------------------------------------------------------
(* The streaming-pull handlers.                                            *)

\* StreamMessages loads the dispatcher's entry, if it is still there.
FindDispatcher(c) ==
  /\ spc[c] = "idle"
  /\ sub = "live"
  /\ spc' = [spc EXCEPT ![c] = "found"]
  /\ UNCHANGED <<queueVars, dispVars, chan, closed, received, sub>>

\* register: append under the mutex, then a non-blocking token on trigger.
Register(c) ==
  /\ spc[c] = "found"
  /\ consumers' = Append(consumers, c)
  /\ spc' = [spc EXCEPT ![c] = "registered"]
  /\ UNCHANGED <<queueVars, trigger, nextIdx, dpc, batch, chan, closed, received,
                 sub>>

\* Mutant: register fires no trigger.
SkipTrigger(c) ==
  /\ spc[c] = "registered"
  /\ spc' = [spc EXCEPT ![c] = "streaming"]
  /\ UNCHANGED <<queueVars, dispVars, chan, closed, received, sub>>

FireTrigger(c) ==
  /\ spc[c] = "registered"
  /\ trigger' = TRUE
  /\ spc' = [spc EXCEPT ![c] = "streaming"]
  /\ UNCHANGED <<queueVars, consumers, nextIdx, dpc, batch, chan, closed,
                 received, sub>>

Receive(c) ==
  /\ spc[c] = "streaming"
  /\ chan[c] # <<>>
  /\ received' = received \cup Head(chan[c])
  /\ chan' = [chan EXCEPT ![c] = Tail(@)]
  /\ UNCHANGED <<queueVars, dispVars, spc, closed, sub>>

\* A receive on a closed and empty channel: Unavailable, dispatcher stopped.
SeeClosed(c) ==
  /\ spc[c] = "streaming"
  /\ chan[c] = <<>> /\ c \in closed
  /\ spc' = [spc EXCEPT ![c] = "leaving"]
  /\ UNCHANGED <<queueVars, dispVars, chan, closed, received, sub>>

\* The client goes away, or a request or a send on its stream fails.
HangUp(c) ==
  /\ spc[c] = "streaming"
  /\ spc' = [spc EXCEPT ![c] = "leaving"]
  /\ UNCHANGED <<queueVars, dispVars, chan, closed, received, sub>>

\* The deferred unregister.  The handler's channel is garbage after it: a
\* later stream of the same client makes a new one.
Unregister(c) ==
  /\ spc[c] = "leaving"
  /\ consumers' = RemoveFirst(consumers, c)
  /\ chan' = [chan EXCEPT ![c] = <<>>]
  /\ closed' = closed \ {c}
  /\ spc' = [spc EXCEPT ![c] = "idle"]
  /\ UNCHANGED <<queueVars, trigger, nextIdx, dpc, batch, received, sub>>

-----------------------------------------------------------------------------
Wake == WakeOnNotify \/ WakeOnTrigger \/ WakeOnTick
Deliver == CountConsumers \/ PullBatch \/ PushBatch \/ ParkBatch
Serve(c) == Register(c) \/ FireTrigger(c) \/ Receive(c) \/ SeeClosed(c)
            \/ Unregister(c)
Delete == CancelDispatcher \/ DropQueue

Next ==
  \/ \E m \in Msg : Publish(m) \/ Acknowledge(m) \/ LeaseRunsOut(m)
  \/ Delete \/ Wake \/ Stop \/ Deliver
  \/ \E c \in Stream : FindDispatcher(c) \/ Serve(c) \/ HangUp(c)

Spec == Init /\ [][Next]_vars

(* The dispatcher's goroutine and the handlers run; select chooses among   *)
(* the ready cases at random, so it does not pass over the cancelled       *)
(* context for ever (strong fairness: the case is ready each time the loop *)
(* is back at the select); the ack deadline of a lease passes.             *)
Fairness ==
  /\ WF_vars(Wake) /\ WF_vars(Deliver) /\ SF_vars(Stop)
  /\ \A c \in Stream : WF_vars(Serve(c))
  /\ \A m \in Msg : WF_vars(LeaseRunsOut(m))

FairSpec == Spec /\ Fairness

-----------------------------------------------------------------------------
\* The types of the variables; a batch in hand is not empty and is all there
\* is between Pull and the push.
TypeOK ==
  /\ waiting \subseteq Msg /\ leased \subseteq Msg /\ past \subseteq leased
  /\ acked \subseteq Msg /\ received \subseteq Msg /\ batch \subseteq Msg
  /\ notify \in BOOLEAN /\ trigger \in BOOLEAN
  /\ sub \in {"live", "cancelled", "deleted"}
  /\ consumers \in Seq(Stream)
  /\ nextIdx \in 0 .. Wrap - 1
  /\ dpc \in {"select", "count", "pull", "push", "stopped"}
  /\ (dpc = "push") = (batch # {})
  /\ spc \in [Stream -> {"idle", "found", "registered", "streaming", "leaving"}]
  /\ chan \in [Stream -> Seq(SUBSET Msg)]
  /\ \A c \in Stream : Len(chan[c]) <= ChanCap
  /\ closed \subseteq Stream

\* No registered channel is closed: deliver sends on, and run closes, every
\* channel of the list, and either would panic on a closed one.
NoClosedConsumer == Range(consumers) \cap closed = {}

\* No wake-up is lost: while a stream is registered and a message waits, the
\* dispatcher is on its way to a Pull, or a token will take it there, or a
\* register is about to leave one; it does not have to wait for the ticker.
\* This needs deliveries that pull all there is (a backlog within PullMax).
NoLostWakeup ==
  (waiting # {} /\ consumers # <<>> /\ dpc = "select" /\ sub = "live")
    => notify \/ trigger \/ \E c \in Stream : spc[c] = "registered"

\* What the end of a delivery does to the channels: one of the list, with
\* room, gets the batch whole, or there is none such and no channel changes.
GoesToOneWithRoom ==
  (dpc = "push" /\ dpc' = "select") =>
    LET served == {c \in Stream : chan'[c] # chan[c]}
    IN IF \E c \in Range(consumers) : HasSpace(c)
       THEN \E c \in Range(consumers) :
              served = {c} /\ chan'[c] = Append(chan[c], batch)
       ELSE served = {}

\* A delivery leaves its messages leased without a reader only if every
\* channel that is registered at that point is full; otherwise exactly one
\* consumer gets the batch, whole.
BatchGoesToOneWithRoom == [][GoesToOneWithRoom]_vars


\* If some stream stays connected, those that do not stay away, and the
\* readers keep up (from some time on no delivery finds every channel full),
\* every message published is received unless the subscription is deleted:
\* parked batches and batches pushed to streams that left come back when their
\* leases run out.  When leases run out faster than channels are drained, a
\* message may be in parked batches for ever.
MessagesReachAStream ==
  ( /\ \E c \in Stream : <>[](spc[c] = "streaming")
    /\ \A c \in Stream : <>[](spc[c] = "streaming") \/ <>[](spc[c] = "idle")
    /\ <>[](dpc = "push" => Tries # {}) )
  => \A m \in Msg : m \in waiting ~> m \in received \/ sub # "live"
=============================================================================
