----------------------------- MODULE MCSnapshots -----------------------------
(***************************************************************************)
(* A small instance of PubSub with Snapshots, and what the API's document  *)
(* says that the code does not do when a publish overlaps.                 *)
(***************************************************************************)
EXTENDS Snapshots

CONSTANTS A, m1, m2, m3, some, p1, p2, s1, c1, c2

\* A filter that the first message does not pass.
MCPasses == [f \in Filter |-> Msg \ {m1}]

\* Two messages at once, and a third on its own.
MCBatch == [p \in Publisher |-> IF p = p1 THEN <<m1, m2>> ELSE <<m3>>]

MCPublishTo == [p \in Publisher |-> A]
MCAsks == [r \in Creator |-> [topic |-> A, filter |-> some]]
MCName == [r \in Request |-> s1]
MCSource == Publisher \cup Seeker

\* The name is deleted, written back and created anew beside both Publishes; or
\* the first Publish is over, and Pulls and the second work on the one queue the
\* name has beside a snapshot, or beside a seek to a time; or a seek to a
\* snapshot follows when no Pull is under way.  Nothing comes after a seek.  The
\* theorems have all of it at once.
Managed == \E r \in Request \ {c1} : at[r] # "start"
Pulled == \E h \in Hand : hand[h] # None
Taken == \E c \in Taker : stage[c] # "start"
Taking == \E c \in Taker : stage[c] \notin {"start", "done"}
Seeking == \E k \in Seeker : stage[k] # "start"
Sought == \E k \in Seeker : stage[k] = "fill" /\ todo[k] = {}
Worked == Taken \/ Seeking \/ Pulled \/ \E q \in Creator : inFlight[q] # {}
Over(p) == pc[p] = "done" /\ copies[p] = {} /\ sending[p] = {}

Narrow ==
  /\ ~Sought
  /\ Worked' => ~Managed' /\ Over(p1)' /\ topics' # {}
  /\ Taken' /\ Seeking' => ~Taking' /\ ~Pulled'

NarrowSpec == Init /\ [][Next /\ Narrow]_vars

\* pubsub.proto:2563-2566: a seek to a time leaves the messages of the
\* subscription "that were published after this time" unacknowledged.  One
\* that was stored behind the seek's back and enqueued before ReplaceAll
\* drains the queue is dropped.
SeekKeepsLater ==
  [][\A k \in Seeker, e \in Entry :
       SeekDrain(k, e) /\ seeking[k].snap = None
         /\ stored[e[1]] >= seeking[k].since /\ TopicOf(e[1]) = seeking[k].topic
           => e[1] \in todo[k]]_vars
=============================================================================
