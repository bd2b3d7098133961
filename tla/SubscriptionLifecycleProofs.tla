--------------------- MODULE SubscriptionLifecycleProofs ---------------------
(***************************************************************************)
(* Theorems about SubscriptionLifecycle for any number of requests of each *)
(* kind, that overlap in any way.                                          *)
(***************************************************************************)
EXTENDS SubscriptionLifecycle, TLAPS

-----------------------------------------------------------------------------
(* The inductive invariant, in parts.                                      *)

Creates(r) == pc[r] \in {"init", "dispatch"}
Deletes(r) == pc[r] \in {"check_delete", "delete", "drop"}
Updates(r) == pc[r] \in {"check_update", "update"}
Lives(r) == disp[r] \in {"started", "running"} /\ r \notin cancelled

\* Every request runs its own kind's steps, and starts its dispatcher last.
Roles ==
  \A r \in Request :
    /\ Creates(r) => Kind[r] = "create"
    /\ Deletes(r) => Kind[r] = "delete"
    /\ Updates(r) => Kind[r] = "update" /\ loaded[r] # None
    /\ disp[r] \in {"started", "running"} => pc[r] = "done"

\* Requests under way together have met.
Met ==
  \A r, s \in Request : r # s /\ Started(r) /\ Started(s) => Kind[s] \in met[r]

\* What a request that is alone finds is what it has done.
Lone ==
  \A r \in Request : Started(r) /\ met[r] = {} =>
    /\ Creates(r) => sub = r /\ (pc[r] = "dispatch" => queue = r)
    /\ Deletes(r) => entry = None /\ (pc[r] = "drop" => sub = None)

\* While a creation that has met no other, and no deletion, goes on, and while
\* its dispatcher lives, the subscription is there and nobody creates or
\* deletes it.
Clean ==
  \A r \in Request :
    (Creates(r) \/ Lives(r)) /\ met[r] \cap {"create", "delete"} = {} =>
      /\ sub # None
      /\ \A s \in Request \ {r} : ~Creates(s) /\ ~Deletes(s)
      /\ Lives(r) => entry = r

\* Only deletions entangle.
Pristine ==
  entangled => \E d \in Request : Kind[d] = "delete" /\ pc[d] # "start"

\* No deletion is under way together with a creation or an update.
Apart ==
  \A r, s \in Request : Deletes(r) => ~Creates(s) /\ ~Updates(s)

\* The creation under way owns the subscription and fills the other maps.
Creating ==
  \A r \in Request : Creates(r) =>
    sub = r /\ entry = None /\ queue = IF pc[r] = "init" THEN None ELSE r

\* A deletion under way has emptied the dispatchers map.
Deleting ==
  \A r \in Request : Deletes(r) => entry = None /\ (pc[r] = "drop" => sub = None)

\* What a request writes back is of the same subscription.
Updating == \A r \in Request : Updates(r) => sub # None /\ loaded[r] = sub

\* Without a subscription the other maps are empty or about to be.
Gone ==
  sub = None => /\ entry = None
                /\ queue = None \/ \E d \in Request : pc[d] = "drop"

\* With one, they are filled or about to be, or a deletion has begun.
Kept ==
  sub # None =>
    /\ queue = sub \/ pc[sub] = "init"
    /\ \/ entry = sub
       \/ Creates(sub)
       \/ \E d \in Request : pc[d] \in {"check_delete", "delete"}

Maps == Apart /\ Creating /\ Deleting /\ Updating /\ Gone /\ Kept
Kempt == ~entangled => Maps

\* A creation that wins owns the subscription until a deletion starts.
Won ==
  \A r \in Request :
    Kind[r] = "create" /\ (Creates(r) \/ result[r] = "ok") =>
      \/ sub # None /\ sub = r
      \/ \E d \in Request : Kind[d] = "delete" /\ pc[d] # "start"

IInv == TypeOK /\ Roles /\ Met /\ Lone /\ Clean /\ Pristine /\ Kempt /\ Won

-----------------------------------------------------------------------------
(* Steps.                                                                  *)

LEMMA InitIsSound == ASSUME Init PROVE IInv
<1> USE DEF Init, Creates, Deletes, Updates, Started
<1>1. TypeOK /\ Roles /\ Met /\ Pristine
  BY LifecycleAssumption DEF TypeOK, Roles, Met, Pristine
<1>2. Lone /\ Clean /\ Won
  BY LifecycleAssumption DEF Lone, Clean, Lives, Won
<1>3. Kempt
  BY LifecycleAssumption
     DEF Kempt, Maps, Apart, Creating, Deleting, Updating, Gone, Kept
<1> QED  BY <1>1, <1>2, <1>3 DEF IInv

LEMMA Distinct ==
  /\ \A r \in Request : r # None
  /\ Kind \in [Request -> Kinds]
  /\ None \notin {"started", "running", "ok"}
BY LifecycleAssumption

\* A request is under way exactly if it is at one of its kind's steps.
LEMMA Stages ==
  ASSUME TypeOK, NEW r \in Request
  PROVE  Started(r) <=> Creates(r) \/ Deletes(r) \/ Updates(r)
BY DEF TypeOK, Started, Creates, Deletes, Updates

\* The start of a request, which everyone under way meets.
LEMMA BeginIsSound ==
  ASSUME TypeOK, Roles, Met, NEW r \in Request, pc[r] = "start", NEW label,
         label \in {"init", "check_delete", "check_update"}, Begin(r, label)
  PROVE  /\ pc' \in [Request -> {"start", "init", "dispatch", "check_delete",
                      "delete", "drop", "check_update", "update", "done"}]
         /\ met' \in [Request -> SUBSET Kinds] /\ entangled' \in BOOLEAN
         /\ pc'[r] = label /\ \A s \in Request \ {r} : pc'[s] = pc[s]
         /\ \A s \in Request \ {r} : Started(s) =>
              Kind[s] \in met'[r] /\ Kind[r] \in met'[s] /\ met[s] \subseteq met'[s]
         /\ \A s \in Request \ {r} : ~Started(s) => met'[s] = met[s]
         /\ Met'
         /\ entangled => entangled'
         /\ ~entangled' => \A s \in Request : Started(s) =>
                             ((Kind[s] = "delete") <=> (Kind[r] = "delete"))
         /\ entangled' => \/ entangled
                          \/ Kind[r] = "delete"
                          \/ \E s \in Request : Started(s) /\ Kind[s] = "delete"
<1>1. /\ pc' = [pc EXCEPT ![r] = label]
      /\ pc'[r] = label /\ \A s \in Request \ {r} : pc'[s] = pc[s]
  BY DEF Begin, Goto, TypeOK
<1>2. /\ met' \in [Request -> SUBSET Kinds]
      /\ met'[r] = {Kind[t] : t \in {u \in Request : Started(u)}}
      /\ \A s \in Request \ {r} :
           met'[s] = IF Started(s) THEN met[s] \cup {Kind[r]} ELSE met[s]
  BY Distinct DEF Begin, TypeOK
<1>3. ~Started(r) /\ \A s \in Request \ {r} : Started(s)' <=> Started(s)
  BY <1>1 DEF Started
<1>4. Met'
  BY <1>2, <1>3 DEF Met
<1>5. entangled' \in BOOLEAN
  BY DEF Begin, TypeOK
<1>6. /\ entangled => entangled'
      /\ ~entangled' => \A s \in Request : Started(s) =>
                          ((Kind[s] = "delete") <=> (Kind[r] = "delete"))
      /\ entangled' => entangled \/ \E s \in Request : Started(s) /\
                         ((Kind[s] = "delete") # (Kind[r] = "delete"))
  BY DEF Begin
<1> QED  BY <1>1, <1>2, <1>4, <1>5, <1>6 DEF TypeOK

LEMMA StoreSubscriptionIsSound ==
  ASSUME IInv, NEW r \in Request, StoreSubscription(r)
  PROVE  IInv'
<1> USE DEF StoreSubscription
<1>0. /\ Kind[r] = "create" /\ pc[r] = "start" /\ TypeOK /\ Roles /\ Met
      /\ UNCHANGED <<queue, entry, disp, watched, cancelled, loaded>>
      /\ ~Lives(r)
  BY DEF IInv, Roles, Lives
<1>1. CASE sub = None
  <2>1. sub' = r /\ r # None /\ Begin(r, "init") /\ UNCHANGED result
    BY <1>1, Distinct
  <2>2. /\ TypeOK' /\ Met' /\ pc'[r] = "init"
        /\ \A s \in Request \ {r} : pc'[s] = pc[s]
        /\ \A s \in Request \ {r} : Started(s) =>
             Kind[s] \in met'[r] /\ Kind[r] \in met'[s] /\ met[s] \subseteq met'[s]
        /\ \A s \in Request \ {r} : ~Started(s) => met'[s] = met[s]
        /\ entangled => entangled'
        /\ ~entangled' => \A s \in Request : Started(s) => Kind[s] # "delete"
        /\ entangled' => entangled \/ \E s \in Request : Started(s) /\ Kind[s] = "delete"
    BY <1>0, <2>1, BeginIsSound DEF TypeOK
  <2>3. Roles'
    BY <1>0, <2>2 DEF Roles, Creates, Deletes, Updates
  <2>4. Pristine'
    BY <2>2 DEF IInv, Pristine, Started
  <2>5. Lone'
    <3>1. \A s \in Request \ {r} : Started(s) => met'[s] # {}
      BY <2>2
    <3> QED  BY <2>1, <2>2, <3>1 DEF Lone, Started, Creates, Deletes
  <2>6. Clean'
    <3> SUFFICES ASSUME NEW s \in Request, (Creates(s) \/ Lives(s))',
                        met'[s] \cap {"create", "delete"} = {}
                 PROVE  /\ sub' # None
                        /\ \A t \in Request \ {s} : ~Creates(t)' /\ ~Deletes(t)'
                        /\ Lives(s)' => entry' = s
      BY DEF Clean
    <3>1. CASE s = r
      <4>1. \A t \in Request \ {r} : Creates(t) \/ Deletes(t) => Kind[t] \in met'[r]
        BY <1>0, <2>2, Stages
      <4>2. \A t \in Request \ {r} : ~Creates(t) /\ ~Deletes(t)
        BY <1>0, <3>1, <4>1 DEF Roles
      <4> QED  BY <1>0, <2>1, <2>2, <3>1, <4>2 DEF Lives, Creates, Deletes
    <3>2. CASE s # r
      <4>1. ~Creates(s)'
        BY <1>0, <2>2, <3>2, Stages DEF Creates
      <4>2. Lives(s) /\ pc[s] = "done" /\ met'[s] = met[s]
        BY <1>0, <2>2, <3>2, <4>1 DEF Lives, Roles, Started
      <4> QED  BY <1>1, <4>2 DEF IInv, Clean
    <3> QED  BY <3>1, <3>2
  <2>7. Kempt'
    <3> SUFFICES ASSUME ~entangled'  PROVE Maps'
      BY DEF Kempt
    <3>1. Maps /\ \A s \in Request : ~Deletes(s)
      BY <1>0, <2>2, Stages DEF IInv, Kempt, Roles
    <3>2. queue = None /\ entry = None /\ \A s \in Request : ~Creates(s) /\ ~Updates(s)
      BY <1>1, <3>1, Distinct DEF Maps, Gone, Creating, Updating, Deletes
    <3> QED
      BY <1>0, <2>1, <2>2, <3>1, <3>2
         DEF Maps, Apart, Creating, Deleting, Updating, Gone, Kept, Creates, Deletes, Updates
  <2>8. Won'
    <3> SUFFICES ASSUME NEW s \in Request, Kind[s] = "create",
                        Creates(s)' \/ result'[s] = "ok", s # r
                 PROVE  \E d \in Request : Kind[d] = "delete" /\ pc'[d] # "start"
      BY <2>1, <2>2 DEF Won
    <3>1. Creates(s) \/ result[s] = "ok"
      BY <2>1, <2>2 DEF Creates
    <3> QED  BY <1>0, <1>1, <2>2, <3>1 DEF IInv, Won
  <2> QED  BY <2>2, <2>3, <2>4, <2>5, <2>6, <2>7, <2>8 DEF IInv
<1>2. CASE sub # None
  <2>1. /\ pc' = [pc EXCEPT ![r] = "done"]
        /\ result' = [result EXCEPT ![r] = "already_exists"]
        /\ UNCHANGED <<sub, met, entangled>>
    BY <1>2 DEF Return, Goto, history
  <2>2. /\ pc'[r] = "done" /\ result'[r] = "already_exists"
        /\ \A s \in Request \ {r} : pc'[s] = pc[s] /\ result'[s] = result[s]
    BY <1>0, <2>1 DEF TypeOK
  <2>3. TypeOK' /\ Roles' /\ Met' /\ Lone' /\ Pristine'
    BY <1>0, <2>1, <2>2
       DEF IInv, TypeOK, Roles, Met, Lone, Pristine, Started, Creates, Deletes, Updates
  <2>4. Clean' /\ Won'
    BY <1>0, <2>1, <2>2 DEF IInv, Clean, Lives, Won, Creates, Deletes
  <2>5. Kempt'
    BY <1>0, <1>2, <2>1, <2>2 DEF IInv, Kempt, Maps, Apart, Creating, Deleting,
       Updating, Gone, Kept, Creates, Deletes, Updates
  <2> QED  BY <2>3, <2>4, <2>5 DEF IInv
<1> QED  BY <1>1, <1>2

LEMMA InitSubscriptionIsSound ==
  ASSUME IInv, NEW r \in Request, InitSubscription(r)
  PROVE  IInv'
<1> USE DEF InitSubscription, Goto, history
<1>1. /\ Creates(r) /\ pc[r] = "init" /\ queue' = r /\ Started(r) /\ Started(r)'
      /\ pc'[r] = "dispatch" /\ \A s \in Request \ {r} : pc'[s] = pc[s]
      /\ UNCHANGED <<sub, entry, disp, watched, cancelled, loaded, result, met, entangled>>
  BY DEF IInv, TypeOK, Creates, Started
<1>2. TypeOK' /\ Roles' /\ Met' /\ Pristine'
  BY <1>1 DEF IInv, TypeOK, Roles, Met, Pristine, Started, Creates, Deletes, Updates
<1>3. Lone'
  <2>1. \A s \in Request \ {r} : Started(s) => met[s] # {}
    BY <1>1 DEF IInv, Met
  <2> QED  BY <1>1, <2>1 DEF IInv, Lone, Started, Creates, Deletes
<1>4. Clean' /\ Won'
  BY <1>1 DEF IInv, Clean, Lives, Won, Creates, Deletes
<1>5. Kempt'
  <2> SUFFICES ASSUME ~entangled  PROVE Maps'
    BY <1>1 DEF Kempt
  <2>1. Maps /\ sub = r /\ entry = None /\ \A s \in Request \ {r} : ~Creates(s)
    BY <1>1 DEF IInv, Kempt, Maps, Creating
  <2> QED
    BY <1>1, <2>1, Distinct
       DEF Maps, Apart, Creating, Deleting, Updating, Gone, Kept, Creates, Deletes, Updates
<1> QED  BY <1>2, <1>3, <1>4, <1>5 DEF IInv

LEMMA StartDispatcherIsSound ==
  ASSUME IInv, NEW r \in Request, StartDispatcher(r)
  PROVE  IInv'
<1> USE DEF StartDispatcher, Succeed, Goto, Return
<1>1. /\ Creates(r) /\ Started(r) /\ entry' = r /\ pc[r] = "dispatch"
      /\ pc'[r] = "done" /\ \A s \in Request \ {r} : pc'[s] = pc[s]
      /\ \A s \in Request \ {r} : disp'[s] = disp[s] /\ result'[s] = result[s]
      /\ UNCHANGED <<sub, queue, watched, cancelled, loaded, met>>
      /\ entangled' = (entangled /\ met[r] # {})
      /\ Kind[r] = "create"
  BY DEF IInv, TypeOK, Roles, Creates, Started
<1>2. TypeOK' /\ Roles' /\ Met' /\ Pristine'
  BY <1>1 DEF IInv, TypeOK, Roles, Met, Pristine, Started, Creates, Deletes, Updates
<1>3. Lone'
  <2>1. \A s \in Request \ {r} : Started(s) => met[s] # {}
    BY <1>1 DEF IInv, Met
  <2> QED  BY <1>1, <2>1 DEF IInv, Lone, Started, Creates, Deletes
<1>4. Clean'
  <2> SUFFICES ASSUME NEW s \in Request, (Creates(s) \/ Lives(s))',
                      met[s] \cap {"create", "delete"} = {}
               PROVE  /\ sub # None
                      /\ \A t \in Request \ {s} : ~Creates(t)' /\ ~Deletes(t)'
                      /\ Lives(s)' => entry' = s
    BY <1>1 DEF Clean
  <2>1. s # r => ~(Creates(s) \/ Lives(s))
    BY <1>1 DEF IInv, Clean
  <2>2. s = r
    BY <1>1, <2>1 DEF Creates, Lives
  <2> QED  BY <1>1, <2>2 DEF IInv, Clean, Creates, Deletes
<1>5. Won'
  BY <1>1 DEF IInv, Won, Creates
<1>6. Kempt'
  <2> SUFFICES ASSUME ~entangled'  PROVE Maps'
    BY DEF Kempt
  <2>1. CASE ~entangled
    <3>1. Maps /\ sub = r /\ queue = r /\ \A s \in Request : ~Deletes(s) /\ (s # r => ~Creates(s))
      BY <1>1, <2>1 DEF IInv, Kempt, Maps, Creating, Apart
    <3> QED
      BY <1>1, <3>1, Distinct
         DEF Maps, Apart, Creating, Deleting, Updating, Gone, Kept, Creates, Deletes, Updates
  <2>2. CASE met[r] = {}
    <3>1. sub = r /\ queue = r /\ \A s \in Request \ {r} : ~Started(s)
      BY <1>1, <2>2 DEF IInv, Lone, Met
    <3>2. \A s \in Request : ~Creates(s)' /\ ~Deletes(s)' /\ ~Updates(s)'
      BY <1>1, <3>1 DEF Started, Creates, Deletes, Updates
    <3> QED
      BY <1>1, <3>1, <3>2, Distinct
         DEF Maps, Apart, Creating, Deleting, Updating, Gone, Kept
  <2> QED  BY <1>1, <2>1, <2>2
<1> QED  BY <1>2, <1>3, <1>4, <1>5, <1>6 DEF IInv

LEMMA DispatchIsSound ==
  ASSUME IInv, NEW r \in Request, Dispatch(r)
  PROVE  IInv'
<1> USE DEF Dispatch, WatchQueue, StopDispatcher, history
<1>1. /\ UNCHANGED <<sub, queue, entry, cancelled, pc, loaded, result, met, entangled>>
      /\ disp[r] \in {"started", "running"}
      /\ \A s \in Request \ {r} : disp'[s] = disp[s]
  BY DEF IInv, TypeOK
<1>2. TypeOK'
  BY DEF IInv, TypeOK
<1>3. Roles' /\ Met' /\ Lone' /\ Pristine' /\ Won'
  BY <1>1 DEF IInv, Roles, Met, Lone, Pristine, Won, Started, Creates, Deletes, Updates
<1>4. Clean'
  BY <1>1 DEF IInv, Clean, Lives, Creates, Deletes
<1>5. Kempt'
  BY <1>1 DEF IInv, Kempt, Maps, Apart, Creating, Deleting, Updating, Gone, Kept,
     Creates, Deletes, Updates
<1> QED  BY <1>2, <1>3, <1>4, <1>5 DEF IInv

LEMMA CancelDispatcherIsSound ==
  ASSUME IInv, NEW r \in Request, CancelDispatcher(r)
  PROVE  IInv'
<1> USE DEF CancelDispatcher
<1>0. /\ Kind[r] = "delete" /\ pc[r] = "start" /\ entry' = None
      /\ cancelled' = cancelled \cup ({entry} \ {None})
      /\ TypeOK /\ Roles /\ Met
      /\ UNCHANGED <<sub, queue, disp, watched, loaded, result>>
      /\ Begin(r, "check_delete")
      /\ disp[r] \notin {"started", "running"}
  BY DEF IInv, Roles
<1>1. /\ pc' \in [Request -> {"start", "init", "dispatch", "check_delete",
                      "delete", "drop", "check_update", "update", "done"}]
      /\ met' \in [Request -> SUBSET Kinds] /\ entangled' \in BOOLEAN
      /\ Met' /\ pc'[r] = "check_delete"
      /\ \A s \in Request \ {r} : pc'[s] = pc[s]
      /\ \A s \in Request \ {r} : Started(s) =>
           Kind[s] \in met'[r] /\ Kind[r] \in met'[s] /\ met[s] \subseteq met'[s]
      /\ \A s \in Request \ {r} : ~Started(s) => met'[s] = met[s]
      /\ entangled => entangled'
      /\ ~entangled' => \A s \in Request : Started(s) => Kind[s] = "delete"
  BY <1>0, BeginIsSound
<1>2. TypeOK'
  BY <1>0, <1>1 DEF TypeOK
<1>3. Roles' /\ Pristine'
  BY <1>0, <1>1 DEF Roles, Pristine, Creates, Deletes, Updates
<1>4. Lone'
  <2>1. \A s \in Request \ {r} : Started(s) => met'[s] # {}
    BY <1>1
  <2> QED  BY <1>0, <1>1, <2>1 DEF Lone, Started, Creates, Deletes
<1>5. Clean'
  <2> SUFFICES ASSUME NEW s \in Request, (Creates(s) \/ Lives(s))',
                      met'[s] \cap {"create", "delete"} = {}
               PROVE  FALSE
    BY DEF Clean
  <2>1. s # r
    BY <1>0, <1>1 DEF Creates, Lives
  <2>2. ~Creates(s)
    BY <1>0, <1>1, <2>1, Stages
  <2>3. Lives(s) /\ entry # s
    BY <1>0, <1>1, <2>1, <2>2, Distinct DEF Creates, Lives
  <2>4. met'[s] = met[s]
    BY <1>0, <1>1, <2>1, <2>3 DEF Lives, Roles, Started
  <2> QED  BY <2>3, <2>4 DEF IInv, Clean
<1>6. Won'
  BY <1>0, <1>1 DEF Won
<1>7. Kempt'
  <2> SUFFICES ASSUME ~entangled'  PROVE Maps'
    BY DEF Kempt
  <2>1. Maps /\ \A s \in Request : ~Creates(s) /\ ~Updates(s)
    BY <1>0, <1>1, Stages DEF IInv, Kempt, Roles
  <2>2. Apart' /\ Creating' /\ Deleting' /\ Updating'
    BY <1>0, <1>1, <2>1
       DEF Maps, Apart, Creating, Deleting, Updating, Creates, Deletes, Updates
  <2>3. Gone'
    BY <1>0, <1>1, <2>1 DEF Maps, Gone
  <2>4. Kept'
    BY <1>0, <1>1, <2>1 DEF TypeOK, Maps, Kept, Creates
  <2> QED  BY <2>2, <2>3, <2>4 DEF Maps
<1> QED  BY <1>1, <1>2, <1>3, <1>4, <1>5, <1>6, <1>7 DEF IInv

LEMMA CheckDeleteIsSound ==
  ASSUME IInv, NEW r \in Request, CheckDelete(r)
  PROVE  IInv'
<1> USE DEF CheckDelete, Goto, Return, history
<1>1. /\ Deletes(r) /\ Kind[r] = "delete" /\ pc[r] = "check_delete"
      /\ pc'[r] = IF sub = None THEN "done" ELSE "delete"
      /\ \A s \in Request \ {r} : pc'[s] = pc[s] /\ result'[s] = result[s]
      /\ UNCHANGED <<sub, queue, entry, disp, cancelled, loaded, met, entangled>>
  BY DEF IInv, TypeOK, Roles, Deletes
<1>2. TypeOK'
  BY DEF IInv, TypeOK
<1>3. Roles' /\ Met' /\ Lone' /\ Pristine'
  BY <1>1 DEF IInv, Roles, Met, Lone, Pristine, Started, Creates, Deletes, Updates
<1>4. Clean' /\ Won'
  BY <1>1 DEF IInv, Clean, Lives, Won, Creates, Deletes
<1>5. Kempt'
  <2> SUFFICES ASSUME ~entangled  PROVE Maps'
    BY <1>1 DEF Kempt
  <2>1. Maps
    BY DEF IInv, Kempt
  <2>2. Apart' /\ Creating' /\ Deleting' /\ Updating' /\ Gone'
    BY <1>1, <2>1
       DEF Maps, Apart, Creating, Deleting, Updating, Gone, Creates, Deletes, Updates
  <2>3. Kept'
    BY <1>1, <2>1 DEF IInv, TypeOK, Maps, Kept, Apart, Creates, Deletes
  <2> QED  BY <2>2, <2>3 DEF Maps
<1> QED  BY <1>2, <1>3, <1>4, <1>5 DEF IInv

LEMMA RemoveSubscriptionIsSound ==
  ASSUME IInv, NEW r \in Request, RemoveSubscription(r)
  PROVE  IInv'
<1> USE DEF RemoveSubscription, Goto, history
<1>1. /\ Deletes(r) /\ Kind[r] = "delete" /\ sub' = None /\ pc[r] = "delete"
      /\ pc'[r] = "drop" /\ \A s \in Request \ {r} : pc'[s] = pc[s]
      /\ UNCHANGED <<queue, entry, disp, cancelled, loaded, result, met, entangled>>
      /\ Started(r)
  BY DEF IInv, TypeOK, Roles, Deletes, Started
<1>2. TypeOK'
  BY <1>1 DEF IInv, TypeOK, RemoveSubscription
<1>3. Roles' /\ Met' /\ Pristine'
  BY <1>1 DEF IInv, Roles, Met, Pristine, Started, Creates, Deletes, Updates
<1>4. Lone'
  <2>1. \A s \in Request \ {r} : Started(s) => met[s] # {}
    BY <1>1 DEF IInv, Met
  <2> QED  BY <1>1, <2>1 DEF IInv, Lone, Started, Creates, Deletes
<1>5. Clean'
  <2>1. \A s \in Request : Creates(s) \/ Lives(s) => met[s] \cap {"create", "delete"} # {}
    <3> SUFFICES ASSUME NEW s \in Request, Creates(s) \/ Lives(s),
                        met[s] \cap {"create", "delete"} = {}
                 PROVE  FALSE
      OBVIOUS
    <3>1. s = r
      BY <1>1 DEF IInv, Clean
    <3> QED  BY <1>1, <3>1 DEF IInv, Roles, Lives, Creates, Deletes
  <2> QED  BY <1>1, <2>1 DEF Clean, Lives, Creates
<1>6. Won'
  BY <1>1 DEF IInv, Won, Creates
<1>7. Kempt'
  <2> SUFFICES ASSUME ~entangled  PROVE Maps'
    BY <1>1 DEF Kempt
  <2>1. Maps /\ entry = None /\ \A s \in Request : ~Creates(s) /\ ~Updates(s)
    BY <1>1 DEF IInv, Kempt, Maps, Apart, Deleting
  <2> QED
    BY <1>1, <2>1
       DEF Maps, Apart, Creating, Deleting, Updating, Gone, Kept, Creates, Deletes, Updates
<1> QED  BY <1>2, <1>3, <1>4, <1>5, <1>6, <1>7 DEF IInv

LEMMA DropQueueIsSound ==
  ASSUME IInv, NEW r \in Request, DropQueue(r)
  PROVE  IInv'
<1> USE DEF DropQueue, Succeed, Goto, Return
<1>1. /\ Deletes(r) /\ Kind[r] = "delete" /\ queue' = None /\ pc[r] = "drop" /\ Started(r)
      /\ pc'[r] = "done"
      /\ \A s \in Request \ {r} : pc'[s] = pc[s] /\ result'[s] = result[s]
      /\ UNCHANGED <<sub, entry, disp, cancelled, loaded, met>>
      /\ entangled' = (entangled /\ met[r] # {})
  BY DEF IInv, TypeOK, Roles, Deletes, Started
<1>2. TypeOK'
  BY DEF IInv, TypeOK
<1>3. Roles' /\ Met' /\ Pristine'
  BY <1>1 DEF IInv, Roles, Met, Pristine, Started, Creates, Deletes, Updates
<1>4. Lone'
  <2>1. \A s \in Request \ {r} : Started(s) => met[s] # {}
    BY <1>1 DEF IInv, Met
  <2> QED  BY <1>1, <2>1 DEF IInv, Lone, Started, Creates, Deletes
<1>5. Clean' /\ Won'
  BY <1>1 DEF IInv, Clean, Lives, Won, Creates, Deletes
<1>6. Kempt'
  <2> SUFFICES ASSUME ~entangled'  PROVE Maps'
    BY DEF Kempt
  <2>1. CASE ~entangled
    <3>1. Maps /\ sub = None /\ entry = None /\ \A s \in Request : ~Creates(s) /\ ~Updates(s)
      BY <1>1, <2>1 DEF IInv, Kempt, Maps, Apart, Deleting
    <3> QED
      BY <1>1, <3>1
         DEF Maps, Apart, Creating, Deleting, Updating, Gone, Kept, Creates, Deletes, Updates
  <2>2. CASE met[r] = {}
    <3>1. sub = None /\ entry = None /\ \A s \in Request \ {r} : ~Started(s)
      BY <1>1, <2>2 DEF IInv, Lone, Met
    <3>2. \A s \in Request : ~Creates(s)' /\ ~Deletes(s)' /\ ~Updates(s)'
      BY <1>1, <3>1 DEF Started, Creates, Deletes, Updates
    <3> QED
      BY <1>1, <3>1, <3>2 DEF Maps, Apart, Creating, Deleting, Updating, Gone, Kept
  <2> QED  BY <1>1, <2>1, <2>2
<1> QED  BY <1>2, <1>3, <1>4, <1>5, <1>6 DEF IInv

LEMMA LoadSubscriptionIsSound ==
  ASSUME IInv, NEW r \in Request, LoadSubscription(r)
  PROVE  IInv'
<1> USE DEF LoadSubscription
<1>0. /\ Kind[r] = "update" /\ pc[r] = "start" /\ TypeOK /\ Roles /\ Met
      /\ UNCHANGED <<sub, queue, entry, disp, watched, cancelled>>
      /\ disp[r] \notin {"started", "running"}
  BY DEF IInv, Roles
<1>1. CASE sub = None
  <2>1. /\ pc' = [pc EXCEPT ![r] = "done"]
        /\ result' = [result EXCEPT ![r] = "not_found"]
        /\ UNCHANGED <<loaded, met, entangled>>
    BY <1>1 DEF Return, Goto, history
  <2>2. /\ pc'[r] = "done"
        /\ \A s \in Request \ {r} : pc'[s] = pc[s] /\ result'[s] = result[s]
    BY <1>0, <2>1 DEF TypeOK
  <2>3. TypeOK' /\ Roles' /\ Met' /\ Lone' /\ Pristine'
    BY <1>0, <2>1, <2>2
       DEF IInv, TypeOK, Roles, Met, Lone, Pristine, Started, Creates, Deletes, Updates
  <2>4. Clean' /\ Won'
    BY <1>0, <2>1, <2>2 DEF IInv, Clean, Lives, Won, Creates, Deletes
  <2>5. Kempt'
    BY <1>0, <1>1, <2>1, <2>2 DEF IInv, Kempt, Maps, Apart, Creating, Deleting,
       Updating, Gone, Kept, Creates, Deletes, Updates
  <2> QED  BY <2>3, <2>4, <2>5 DEF IInv
<1>2. CASE sub # None
  <2>1. /\ loaded' = [loaded EXCEPT ![r] = sub] /\ sub \in Request
        /\ Begin(r, "check_update") /\ UNCHANGED result
    BY <1>0, <1>2 DEF TypeOK
  <2>2. /\ TypeOK' /\ Met' /\ pc'[r] = "check_update" /\ loaded'[r] = sub
        /\ \A s \in Request \ {r} : pc'[s] = pc[s] /\ loaded'[s] = loaded[s]
        /\ \A s \in Request \ {r} : Started(s) =>
             Kind[s] \in met'[r] /\ Kind[r] \in met'[s] /\ met[s] \subseteq met'[s]
        /\ \A s \in Request \ {r} : ~Started(s) => met'[s] = met[s]
        /\ entangled => entangled'
        /\ ~entangled' => \A s \in Request : Started(s) => Kind[s] # "delete"
        /\ entangled' => entangled \/ \E s \in Request : Started(s) /\ Kind[s] = "delete"
    BY <1>0, <2>1, BeginIsSound DEF TypeOK
  <2>3. Roles'
    BY <1>0, <1>2, <2>2 DEF Roles, Creates, Deletes, Updates
  <2>4. Pristine'
    BY <2>2 DEF IInv, Pristine, Started
  <2>5. Lone'
    <3>1. \A s \in Request \ {r} : Started(s) => met'[s] # {}
      BY <2>2
    <3> QED  BY <2>1, <2>2, <3>1 DEF Lone, Started, Creates, Deletes
  <2>6. Clean'
    <3> SUFFICES ASSUME NEW s \in Request, (Creates(s) \/ Lives(s))',
                        met'[s] \cap {"create", "delete"} = {}
                 PROVE  /\ sub # None
                        /\ \A t \in Request \ {s} : ~Creates(t)' /\ ~Deletes(t)'
                        /\ Lives(s)' => entry = s
      BY <1>0 DEF Clean
    <3>1. s # r /\ (Creates(s) \/ Lives(s)) /\ (Lives(s)' => Lives(s))
      BY <1>0, <2>2 DEF Creates, Lives
    <3>2. met[s] \subseteq met'[s]
      BY <2>2, <3>1
    <3> QED  BY <1>0, <2>2, <3>1, <3>2 DEF IInv, Clean, Creates, Deletes
  <2>7. Won'
    BY <1>0, <2>1, <2>2 DEF IInv, Won, Creates
  <2>8. Kempt'
    <3> SUFFICES ASSUME ~entangled'  PROVE Maps'
      BY DEF Kempt
    <3>1. Maps /\ \A s \in Request : ~Deletes(s)
      BY <1>0, <2>2, Stages DEF IInv, Kempt, Roles
    <3> QED
      BY <1>0, <1>2, <2>1, <2>2, <3>1
         DEF Maps, Apart, Creating, Deleting, Updating, Gone, Kept, Creates, Deletes, Updates
  <2> QED  BY <2>2, <2>3, <2>4, <2>5, <2>6, <2>7, <2>8 DEF IInv
<1> QED  BY <1>1, <1>2

LEMMA CheckUpdateIsSound ==
  ASSUME IInv, NEW r \in Request, CheckUpdate(r)
  PROVE  IInv'
<1> USE DEF CheckUpdate, Goto, Return, history
<1>1. /\ Updates(r) /\ loaded[r] # None /\ Kind[r] = "update"
      /\ pc'[r] = IF sub = None THEN "done" ELSE "update"
      /\ \A s \in Request \ {r} : pc'[s] = pc[s] /\ result'[s] = result[s]
      /\ UNCHANGED <<sub, queue, entry, disp, cancelled, loaded, met, entangled>>
  BY DEF IInv, TypeOK, Roles, Updates
<1>2. TypeOK'
  BY <1>1 DEF IInv, TypeOK
<1>3. Roles' /\ Met' /\ Lone' /\ Pristine'
  BY <1>1 DEF IInv, Roles, Met, Lone, Pristine, Started, Creates, Deletes, Updates
<1>4. Clean' /\ Won'
  BY <1>1 DEF IInv, Clean, Lives, Won, Creates, Deletes
<1>5. Kempt'
  <2> SUFFICES ASSUME ~entangled  PROVE Maps'
    BY <1>1 DEF Kempt
  <2>1. Maps /\ sub # None /\ sub \in Request
    BY <1>1 DEF IInv, TypeOK, Kempt, Maps, Updating
  <2>2. pc'[r] = "update"
    BY <1>1, <2>1
  <2>3. Apart' /\ Creating' /\ Deleting' /\ Updating' /\ Gone'
    BY <1>1, <2>1, <2>2
       DEF Maps, Apart, Creating, Deleting, Updating, Gone, Creates, Deletes, Updates
  <2>4. Kept'
    BY <1>1, <2>1, <2>2 DEF Maps, Kept, Creates, Updates
  <2> QED  BY <2>3, <2>4 DEF Maps
<1> QED  BY <1>2, <1>3, <1>4, <1>5 DEF IInv

LEMMA WriteSubscriptionIsSound ==
  ASSUME IInv, NEW r \in Request, WriteSubscription(r)
  PROVE  IInv'
<1> USE DEF WriteSubscription, Goto, Return, history
<1>1. /\ Updates(r) /\ Kind[r] = "update" /\ pc[r] = "update" /\ Started(r)
      /\ sub' = loaded[r] /\ sub' # None
      /\ pc'[r] = "done"
      /\ \A s \in Request \ {r} : pc'[s] = pc[s] /\ result'[s] = result[s]
      /\ UNCHANGED <<queue, entry, disp, cancelled, loaded, met, entangled>>
  BY DEF IInv, TypeOK, Roles, Updates, Started
<1>2. TypeOK'
  BY <1>1 DEF IInv, TypeOK
<1>3. Roles' /\ Met' /\ Pristine'
  BY <1>1 DEF IInv, Roles, Met, Pristine, Started, Creates, Deletes, Updates
<1>4. Lone'
  <2>1. \A s \in Request \ {r} : Started(s) => met[s] # {}
    BY <1>1 DEF IInv, Met
  <2> QED  BY <1>1, <2>1 DEF IInv, Lone, Started, Creates, Deletes
<1>5. Clean'
  BY <1>1 DEF IInv, Clean, Lives, Creates, Deletes
<1>6. ~entangled => Maps /\ sub' = sub
  BY <1>1 DEF IInv, Kempt, Maps, Updating
<1>7. Won'
  BY <1>1, <1>6 DEF IInv, Won, Pristine, Creates
<1>8. Kempt'
  BY <1>1, <1>6 DEF Kempt, Maps, Apart, Creating, Deleting, Updating, Gone, Kept,
     Creates, Deletes, Updates
<1> QED  BY <1>2, <1>3, <1>4, <1>5, <1>7, <1>8 DEF IInv

-----------------------------------------------------------------------------
LEMMA NextIsSound == ASSUME IInv, [Next]_vars PROVE IInv'
<1>1. ASSUME NEW r \in Request, Create(r) \/ Delete(r) \/ Update(r) \/ Dispatch(r)
      PROVE  IInv'
  BY <1>1, StoreSubscriptionIsSound, InitSubscriptionIsSound, StartDispatcherIsSound,
     CancelDispatcherIsSound, CheckDeleteIsSound, RemoveSubscriptionIsSound,
     DropQueueIsSound, LoadSubscriptionIsSound, CheckUpdateIsSound,
     WriteSubscriptionIsSound, DispatchIsSound DEF Create, Delete, Update
<1>2. CASE UNCHANGED vars
  <2> USE <1>2 DEF vars, history, IInv, Creates, Deletes, Updates, Started
  <2>1. TypeOK' /\ Roles' /\ Met' /\ Lone' /\ Pristine'
    BY DEF TypeOK, Roles, Met, Lone, Pristine
  <2>2. Clean' /\ Won'
    BY DEF Clean, Lives, Won
  <2>3. Kempt'
    BY DEF Kempt, Maps, Apart, Creating, Deleting, Updating, Gone, Kept
  <2> QED  BY <2>1, <2>2, <2>3
<1> QED  BY <1>1, <1>2 DEF Next

LEMMA AlwaysSound == Spec => []IInv
<1>1. IInv /\ [Next]_vars => IInv'
  BY NextIsSound
<1> QED  BY <1>1, InitIsSound, PTL DEF Spec

-----------------------------------------------------------------------------
(* The theorems.                                                           *)

\* However requests overlap, the maps, the dispatchers and the requests keep
\* their types; what an update writes back is a subscription it has read.
THEOREM TypeCorrect == Spec => []TypeOK
<1>1. IInv => TypeOK
  BY DEF IInv
<1> QED  BY <1>1, AlwaysSound, PTL

\* Subscription, queue and dispatcher are there together or not at all between
\* requests, unless a deletion has overlapped a creation or an update; and then
\* again, whatever state that has left, from the next creation or deletion on
\* that succeeds alone.
THEOREM MapsStayTogether == Spec => []MapsAgree
<1>1. ASSUME IInv PROVE MapsAgree
  <2> SUFFICES ASSUME Quiet, ~entangled
               PROVE  IF sub = None THEN queue = None /\ entry = None
                                    ELSE queue = sub /\ entry = sub
    BY DEF MapsAgree
  <2>1. \A r \in Request : pc[r] \in {"start", "done"}
    BY DEF Quiet, Started
  <2>2. sub # None => sub \in Request
    BY <1>1 DEF IInv, TypeOK
  <2> QED  BY <1>1, <2>1, <2>2 DEF IInv, Kempt, Maps, Gone, Kept, Creates
<1> QED  BY <1>1, AlwaysSound, PTL

\* The entry of a dispatcher that runs is overwritten, or put there after the
\* deletion it belongs to, only if its own creation overlapped a deletion or
\* another creation; else a deletion finds it and cancels it.
THEOREM NoneIsStray == Spec => []NoStrayDispatcher
<1>1. ASSUME IInv PROVE NoStrayDispatcher
  BY <1>1 DEF IInv, Clean, Lives, NoStrayDispatcher
<1> QED  BY <1>1, AlwaysSound, PTL

\* Of any number of creations that race, with updates beside them, LoadOrStore
\* lets one succeed until a deletion has started.
THEOREM OneWins == Spec => []OneCreationWins
<1>1. ASSUME IInv PROVE OneCreationWins
  BY <1>1 DEF IInv, Won, OneCreationWins
<1> QED  BY <1>1, AlwaysSound, PTL
=============================================================================
