---------------------------- MODULE MCDispatcher -----------------------------
(***************************************************************************)
(* Small instances of Dispatcher, and what the documents say of it that    *)
(* the code does not do.                                                   *)
(***************************************************************************)
EXTENDS Dispatcher, TLC

CONSTANTS m2, s2

\* A second stream comes and goes, and a second message is published, but not
\* both at once: from the publish of m2 on, s2 stays away.  Neither a publish
\* nor a connection is under fairness, so this only leaves behaviours out.
Narrow == m2 \in waiting' \cup leased' \cup acked' => spc'[s2] = "idle"

NarrowSpec == Init /\ [][Next /\ Narrow]_vars /\ Fairness

\* Messages are interchangeable, and so are streams; only runs without a
\* liveness property use this.
Symmetry == Permutations(Msg) \cup Permutations(Stream)

\* pubsub.proto:1286: "The server will close the stream and return the status on
\* any error", which the handler does when its channel is closed.  A stream that
\* loaded the dispatcher's entry before the deletion and registers after run
\* has returned is in a list that nobody closes any more.
EveryStreamEnds ==
  \A c \in Stream :
    (sub # "live" /\ spc[c] = "streaming") ~> spc[c] \in {"leaving", "idle"}
=============================================================================
