---------------------------- MODULE MCDeadLetters ----------------------------
(***************************************************************************)
(* A small instance of DeadLetters.  Messages, handlers and dead-letter    *)
(* subscriptions are interchangeable.                                      *)
(***************************************************************************)
EXTENDS DeadLetters, TLC

Symmetry == Permutations(Msg) \cup Permutations(Handler) \cup Permutations(DeadSub)
=============================================================================
