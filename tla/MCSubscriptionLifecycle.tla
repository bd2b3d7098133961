----------------------- MODULE MCSubscriptionLifecycle -----------------------
(***************************************************************************)
(* A small instance of SubscriptionLifecycle.  The requests of one kind    *)
(* are interchangeable; the run has a liveness property and does not use   *)
(* that.                                                                   *)
(***************************************************************************)
EXTENDS SubscriptionLifecycle

CONSTANTS c1, c2, d1, d2, u1

MCKind ==
  [r \in Request |-> IF r \in {c1, c2} THEN "create"
                     ELSE IF r \in {d1, d2} THEN "delete" ELSE "update"]
=============================================================================
