------------------------------- MODULE Backlog -------------------------------
(***************************************************************************)
(* What one subscription promises its clients about its messages, with     *)
(* nothing said of channels, maps or goroutines: a message that was        *)
(* published waits, is leased, waits again when the lease is released, and *)
(* leaves for good when it is acknowledged under a lease, or is lost.  A   *)
(* lease is cut short only together with all others, by a seek or by the   *)
(* deletion of the subscription.                                           *)
(***************************************************************************)
CONSTANT Message

VARIABLES waiting, leased, acknowledged, lost

vars == <<waiting, leased, acknowledged, lost>>

Init == waiting = {} /\ leased = {} /\ acknowledged = {} /\ lost = {}

Publish(m) ==
  /\ m \notin waiting \cup leased \cup acknowledged \cup lost
  /\ waiting' = waiting \cup {m}
  /\ UNCHANGED <<leased, acknowledged, lost>>

\* The leases of R are released, and L is leased of what then waits.
Deliver(R, L) ==
  /\ R \subseteq leased
  /\ L \subseteq waiting \cup R
  /\ waiting' = (waiting \cup R) \ L
  /\ leased' = (leased \ R) \cup L
  /\ UNCHANGED <<acknowledged, lost>>

Acknowledge(m) ==
  /\ m \in leased
  /\ leased' = leased \ {m}
  /\ acknowledged' = acknowledged \cup {m}
  /\ UNCHANGED <<waiting, lost>>

Losable == Message \ (leased \cup acknowledged \cup lost)

\* Messages that wait are lost, or refused before they do.
Lose(S) ==
  /\ S \subseteq Losable
  /\ waiting' = waiting \ S
  /\ lost' = lost \cup S
  /\ UNCHANGED <<leased, acknowledged>>

\* Every lease ends at once, and S goes with them.
Discard(S) ==
  /\ S \subseteq Losable
  /\ waiting' = waiting \ S
  /\ leased' = {}
  /\ lost' = lost \cup S \cup leased
  /\ UNCHANGED acknowledged

Next ==
  \/ \E m \in Message : Publish(m) \/ Acknowledge(m)
  \/ \E R \in SUBSET leased : \E L \in SUBSET (waiting \cup R) : Deliver(R, L)
  \/ \E S \in SUBSET Losable : Lose(S) \/ Discard(S)

Spec == Init /\ [][Next]_vars
=============================================================================
