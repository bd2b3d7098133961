------------------------ MODULE SubscriptionLifecycle ------------------------
(***************************************************************************)
(* The requests that create, delete and update one subscription, each in a *)
(* goroutine of its own, and the dispatcher goroutines they start and      *)
(* cancel.  Three maps hold the subscription: Subscriptions and Queues of  *)
(* memory.State and the usecase's dispatchers.  What is atomic is one      *)
(* operation on one map; nothing covers the three together, and requests   *)
(* overlap in any way.                                                     *)
(*                                                                         *)
(* The objects a request creates (the subscription, its queue, its         *)
(* dispatcher) bear the name of that request.  A subscription's fields are *)
(* left to Resources: here an update, a change of the push config and a    *)
(* detach are one kind of request, that writes back a copy it has read.    *)
(***************************************************************************)
EXTENDS FiniteSets

CONSTANTS
  Request,    \* the requests, all for the same subscription name
  Kind,       \* [Request -> {"create", "delete", "update"}]
  None

Kinds == {"create", "delete", "update"}

ASSUME LifecycleAssumption ==
  /\ None \notin Request
  /\ None \notin {"started", "running", "ok"}
  /\ Kind \in [Request -> Kinds]

VARIABLES
  sub,        \* Subscriptions[name]: the request that created it
  queue,      \* Queues[name]: the request that created the queue
  entry,      \* dispatchers[name]: the request that started the dispatcher
  disp,       \* state of the dispatcher goroutine each request started
  watched,    \* the queue whose notify channel a dispatcher receives from
  cancelled,  \* the dispatchers whose context is cancelled
  pc,         \* where each request is
  loaded,     \* the copy of the subscription a request has read
  result,     \* how each request ended
  \* History, read by properties only.
  met,        \* the kinds of the requests under way together with each request
  entangled   \* a deletion was under way together with another kind of request,
              \* and no creation or deletion has succeeded alone since

history == <<met, entangled>>
vars == <<sub, queue, entry, disp, watched, cancelled, pc, loaded, result, history>>

Started(r) == pc[r] \notin {"start", "done"}

Init ==
  /\ sub = None /\ queue = None /\ entry = None
  /\ disp = [r \in Request |-> None]
  /\ watched = [r \in Request |-> None]
  /\ cancelled = {}
  /\ pc = [r \in Request |-> "start"]
  /\ loaded = [r \in Request |-> None]
  /\ result = [r \in Request |-> None]
  /\ met = [r \in Request |-> {}]
  /\ entangled = FALSE

Goto(r, label) == pc' = [pc EXCEPT ![r] = label]

Return(r, res) == Goto(r, "done") /\ result' = [result EXCEPT ![r] = res]

\* The first of several steps of r: it meets whoever is under way.
Begin(r, label) ==
  /\ Goto(r, label)
  /\ met' = [s \in Request |-> IF s = r THEN {Kind[t] : t \in {u \in Request : Started(u)}}
                               ELSE IF Started(s) THEN met[s] \cup {Kind[r]}
                               ELSE met[s]]
  /\ entangled' = ( entangled \/ \E s \in Request :
                      Started(s) /\ (Kind[s] = "delete") # (Kind[r] = "delete") )

\* The last step of a creation or deletion that succeeds: it mends the maps if
\* it was alone.
Succeed(r) ==
  /\ Return(r, "ok")
  /\ entangled' = (entangled /\ met[r] # {})
  /\ UNCHANGED met

-----------------------------------------------------------------------------
(* CreateSubscription.  The topic exists throughout.                       *)

\* Mutant: Load, then Store in a later step, in place of LoadOrStore.
StoreUnchecked(r) ==
  /\ Kind[r] = "create"
  /\ pc[r] = "start"
  /\ sub' = r
  /\ Begin(r, "init")
  /\ UNCHANGED <<queue, entry, disp, watched, cancelled, loaded, result>>

\* LoadOrStore decides which of several creations wins.
StoreSubscription(r) ==
  /\ Kind[r] = "create"
  /\ pc[r] = "start"
  /\ \/ /\ sub = None
        /\ sub' = r
        /\ Begin(r, "init")
        /\ UNCHANGED result
     \/ /\ sub # None
        /\ Return(r, "already_exists")
        /\ UNCHANGED <<sub, history>>
  /\ UNCHANGED <<queue, entry, disp, watched, cancelled, loaded>>

InitSubscription(r) ==
  /\ pc[r] = "init"
  /\ queue' = r
  /\ Goto(r, "dispatch")
  /\ UNCHANGED <<sub, entry, disp, watched, cancelled, loaded, result, history>>

\* startDispatcher overwrites an entry that is still there.
StartDispatcher(r) ==
  /\ pc[r] = "dispatch"
  /\ entry' = r
  /\ disp' = [disp EXCEPT ![r] = "started"]
  /\ Succeed(r)
  /\ UNCHANGED <<sub, queue, watched, cancelled, loaded>>

-----------------------------------------------------------------------------
(* The dispatcher goroutine: Watch when it first runs, then the main loop. *)

\* Mutant: Watch waits for a missing queue in place of failing.
WaitForQueue(r) ==
  /\ disp[r] = "started"
  /\ queue # None
  /\ watched' = [watched EXCEPT ![r] = queue]
  /\ disp' = [disp EXCEPT ![r] = "running"]
  /\ UNCHANGED <<sub, queue, entry, cancelled, pc, loaded, result,
                 history>>

WatchQueue(r) ==
  /\ disp[r] = "started"
  /\ watched' = [watched EXCEPT ![r] = queue]
  /\ disp' = [disp EXCEPT ![r] = IF queue = None THEN "stopped" ELSE "running"]
  /\ UNCHANGED <<sub, queue, entry, cancelled, pc, loaded, result,
                 history>>

StopDispatcher(r) ==
  /\ disp[r] = "running"
  /\ r \in cancelled
  /\ disp' = [disp EXCEPT ![r] = "stopped"]
  /\ UNCHANGED <<sub, queue, entry, watched, cancelled, pc, loaded, result,
                 history>>

-----------------------------------------------------------------------------
(* DeleteSubscription.                                                     *)

\* Mutant: the dispatcher is forgotten and not cancelled.
ForgetDispatcher(r) ==
  /\ Kind[r] = "delete"
  /\ pc[r] = "start"
  /\ entry' = None
  /\ Begin(r, "check_delete")
  /\ UNCHANGED <<sub, queue, disp, watched, cancelled, loaded, result>>

CancelDispatcher(r) ==
  /\ Kind[r] = "delete"
  /\ pc[r] = "start"
  /\ cancelled' = cancelled \cup ({entry} \ {None})
  /\ entry' = None
  /\ Begin(r, "check_delete")
  /\ UNCHANGED <<sub, queue, disp, watched, loaded, result>>

\* The repository loads first and deletes in a second operation.
CheckDelete(r) ==
  /\ pc[r] = "check_delete"
  /\ IF sub = None
     THEN Return(r, "not_found")
     ELSE Goto(r, "delete") /\ UNCHANGED result
  /\ UNCHANGED <<sub, queue, entry, disp, watched, cancelled, loaded, history>>

RemoveSubscription(r) ==
  /\ pc[r] = "delete"
  /\ sub' = None
  /\ Goto(r, "drop")
  /\ UNCHANGED <<queue, entry, disp, watched, cancelled, loaded, result, history>>

\* Mutant: the queue stays.
KeepQueue(r) ==
  /\ pc[r] = "drop"
  /\ Succeed(r)
  /\ UNCHANGED <<sub, queue, entry, disp, watched, cancelled, loaded>>

\* DropSubscription drops whatever queue has the name by now.
DropQueue(r) ==
  /\ pc[r] = "drop"
  /\ queue' = None
  /\ Succeed(r)
  /\ UNCHANGED <<sub, entry, disp, watched, cancelled, loaded>>

-----------------------------------------------------------------------------
(* UpdateSubscription, ModifyPushConfig and DetachSubscription read a copy *)
(* of the subscription, change it and write it all back.                   *)

\* Mutant: a subscription that is not found is not answered at once.
LoadUnchecked(r) ==
  /\ Kind[r] = "update"
  /\ pc[r] = "start"
  /\ loaded' = [loaded EXCEPT ![r] = sub]
  /\ Begin(r, "check_update")
  /\ UNCHANGED <<sub, queue, entry, disp, watched, cancelled, result>>

LoadSubscription(r) ==
  /\ Kind[r] = "update"
  /\ pc[r] = "start"
  /\ IF sub = None
     THEN Return(r, "not_found") /\ UNCHANGED <<loaded, history>>
     ELSE /\ loaded' = [loaded EXCEPT ![r] = sub]
          /\ Begin(r, "check_update")
          /\ UNCHANGED result
  /\ UNCHANGED <<sub, queue, entry, disp, watched, cancelled>>

CheckUpdate(r) ==
  /\ pc[r] = "check_update"
  /\ IF sub = None
     THEN Return(r, "not_found")
     ELSE Goto(r, "update") /\ UNCHANGED result
  /\ UNCHANGED <<sub, queue, entry, disp, watched, cancelled, loaded, history>>

\* A subscription deleted since CheckUpdate is there again.
WriteSubscription(r) ==
  /\ pc[r] = "update"
  /\ sub' = loaded[r]
  /\ Return(r, "ok")
  /\ UNCHANGED <<queue, entry, disp, watched, cancelled, loaded, history>>

-----------------------------------------------------------------------------
Create(r) == StoreSubscription(r) \/ InitSubscription(r) \/ StartDispatcher(r)
Delete(r) == CancelDispatcher(r) \/ CheckDelete(r) \/ RemoveSubscription(r)
             \/ DropQueue(r)
Update(r) == LoadSubscription(r) \/ CheckUpdate(r) \/ WriteSubscription(r)
Dispatch(r) == WatchQueue(r) \/ StopDispatcher(r)

Next == \E r \in Request : Create(r) \/ Delete(r) \/ Update(r) \/ Dispatch(r)

Spec == Init /\ [][Next]_vars

(* The dispatchers' goroutines run; a cancelled one leaves its select.     *)
FairSpec == Spec /\ \A r \in Request : WF_vars(Dispatch(r))

-----------------------------------------------------------------------------
\* The types of the variables; a request that writes a subscription back has
\* read one.
TypeOK ==
  /\ {sub, queue, entry} \subseteq Request \cup {None}
  /\ disp \in [Request -> {None, "started", "running", "stopped"}]
  /\ watched \in [Request -> Request \cup {None}]
  /\ cancelled \subseteq Request
  /\ pc \in [Request -> {"start", "init", "dispatch", "check_delete", "delete",
                         "drop", "check_update", "update", "done"}]
  /\ loaded \in [Request -> Request \cup {None}]
  /\ \A r \in Request : pc[r] = "update" => loaded[r] # None
  /\ result \in [Request -> {None, "ok", "already_exists", "not_found"}]
  /\ met \in [Request -> SUBSET Kinds]
  /\ entangled \in BOOLEAN

Quiet == \A r \in Request : ~Started(r)

\* When no request is under way the three maps agree: a subscription has a
\* queue and a dispatcher, made by the creation that made it, and nothing of a
\* deleted subscription is left.  They part only when a deletion overlaps a
\* creation or an update (whose write undoes the removal, whose new queue the
\* deletion drops), and the next creation or deletion that succeeds with
\* nobody beside it puts them right, whatever was left before.
MapsAgree ==
  Quiet /\ ~entangled =>
    IF sub = None THEN queue = None /\ entry = None
                  ELSE queue = sub /\ entry = sub

\* A dispatcher that has not been told to stop can still be told: it is in the
\* dispatchers map, where the next deletion finds it, unless the creation that
\* started it overlapped a deletion or another creation that had stored the
\* subscription.  What comes after its creation leads no dispatcher astray.
NoStrayDispatcher ==
  \A r \in Request :
    disp[r] \in {"started", "running"} /\ r \notin cancelled
      => entry = r \/ met[r] \cap {"create", "delete"} # {}

\* Of the creations that start before any answer only one succeeds, unless a
\* deletion comes between.
OneCreationWins ==
  \A r, s \in Request :
    ( /\ Kind[r] = "create" /\ Kind[s] = "create" /\ r # s
      /\ result[r] = "ok" /\ result[s] = "ok" )
    => \E d \in Request : Kind[d] = "delete" /\ pc[d] # "start"

\* A dispatcher that a deletion cancelled stops.
CancelledStops == \A r \in Request : r \in cancelled ~> disp[r] = "stopped"
=============================================================================
