------------------------ MODULE PRStackObject_proofs ------------------------
(***************************************************************************)
(* Proofs, for every value of the constants, about the object of the stack *)
(* and its copies: the cache may be several versions behind, and the       *)
(* reconcile that reads it acts on the cluster before its next write is    *)
(* refused.  ObjectInv says what such a copy still guarantees.             *)
(***************************************************************************)
EXTENDS PRStackOperator_proofs

-----------------------------------------------------------------------------
(* The invariant *)

\* A version of the object that the operator may take hold of things for.
Working(c) == c.exists /\ ~c.deleting /\ c.finalizer

Parked(c) == c.status.phase = "Inactive" \/ ~c.active

DeletionCalls == CleanupCalls \union {"markCleaning"}

ProvisionCalls ==
  {"createNamespace", "dropUser", "createUser", "createCollections",
   "saveCredentials", "createMongoDBSecret", "finishProvisioning"}

ServeCalls == {"checkReplicas", "scaleUp", "checkHealth"}

\* Calls for versions that may be without the finalizer.
EarlyCalls == {"idle", "addFinalizer", "updateStatusWithError"}

\* Calls that only the dispatch of an active stack leads to.
ActiveCalls ==
  {"listForRollout", "rollout", "initialize", "reactivate"}
    \union ProvisionCalls \union DeployCalls \union ServeCalls

\* What the copy c must be for the worker to make the call.
Entitled(call, c) ==
  /\ call \in DeletionCalls => c.exists /\ c.deleting
  /\ call \notin DeletionCalls \union EarlyCalls => Working(c)
  /\ call = "addFinalizer" => c.exists /\ ~c.deleting
  /\ call = "updateStatusWithError" => c.exists /\ (c.deleting \/ c.finalizer)
  /\ call \in {"listForScaleDown", "scaleDown"} => ~c.active
  /\ call \in ActiveCalls => c.active
  /\ call = "initialize" => c.status.phase = ""
  /\ call = "reactivate" => c.status.phase = "Inactive"
  /\ call \in ProvisionCalls => c.status.phase = "Provisioning"
  /\ call \in DeployCalls => c.status.phase = "Deploying"
  /\ call \in ServeCalls => c.status.phase \in {"Running", "Degraded"}
  /\ call \in CleanupCalls \ {"removeFinalizer"} => c.status.phase = "Cleaning"
  /\ call = "removeFinalizer" => c.status.phase = "Cleaned"

\* The phases of the cleanup are only given to a stack that is being deleted.
Doomed(c) == c.status.phase \in {"Cleaning", "Cleaned"} => c.deleting

\* What a version that may be old still says of the stack s.
AsOld(c, s) ==
  /\ c.exists /\ c.deleting => s.deleting \/ ~s.finalizer
  /\ Working(c) => s.exists /\ s.finalizer
  /\ s.status.phase = "Inactive" => Parked(c)

\* Two versions that only differ in records of the status.
Alike(c, s) ==
  /\ c.exists = s.exists /\ c.deleting = s.deleting
  /\ c.finalizer = s.finalizer /\ c.active = s.active
  /\ c.deployedAt = s.deployedAt
  /\ c.status.phase = s.status.phase
  /\ c.status.lastDeployedAt = s.status.lastDeployedAt

\* What the cache has when the worker's copy is the latest version.
NotFarBehind(c, s) ==
  /\ c.exists = s.exists /\ c.deleting = s.deleting
  /\ ~s.active => ~c.active

\* Nothing has happened to a stack without the finalizer.
Untouched(c) == ~c.finalizer => ~c.deleting /\ c.status.phase = ""

ObjectInv ==
  /\ ~stack.exists => stack = NoStack
  /\ Untouched(stack)
  /\ Doomed(stack) /\ Doomed(cached) /\ Doomed(copy)
  /\ AsOld(cached, stack) /\ AsOld(copy, stack)
  /\ cacheCurrent => cached = stack
  /\ copyCurrent => Alike(copy, stack) /\ NotFarBehind(cached, stack)
  /\ Entitled(pc, copy)

-----------------------------------------------------------------------------
(* Values *)

\* The zero value is none of anything.
LEMMA NoStackFacts ==
  /\ ~NoStack.exists /\ ~NoStack.deleting /\ ~NoStack.finalizer
  /\ ~NoStack.active /\ NoStack.status = NoStatus /\ NoStatus.phase = ""
BY DEF NoStack, NoStatus

\* It says nothing of the stack.
LEMMA NoStackAsOld ==
  ASSUME NEW s
  PROVE  AsOld(NoStack, s) /\ Doomed(NoStack)
BY NoStackFacts DEF AsOld, Doomed, Working, Parked

\* A worker without a reconcile needs nothing.
LEMMA EntitledIdle == \A c : Entitled("idle", c)
BY DEF Entitled, DeletionCalls, CleanupCalls, EarlyCalls, ActiveCalls,
       ProvisionCalls, DeployCalls, ServeCalls

\* Only the flags and the phase of a version entitle to a call.
LEMMA EntitledAlike ==
  ASSUME NEW call, NEW c, NEW s,
         c.exists = s.exists, c.deleting = s.deleting, c.finalizer = s.finalizer,
         c.active = s.active, c.status.phase = s.status.phase
  PROVE  Entitled(call, c) <=> Entitled(call, s)
BY DEF Entitled, Working

\* A call of a handler entitles to the others of the same handler, and to the
\* report of an error.
LEMMA EntitledHandler ==
  ASSUME NEW c, NEW call, Entitled(call, c), NEW next,
         \/ call \in ProvisionCalls /\ next \in ProvisionCalls
         \/ call \in DeployCalls /\ next \in DeployCalls
         \/ call \in ServeCalls /\ next \in ServeCalls
         \/ /\ call \in CleanupCalls \ {"removeFinalizer"}
            /\ next \in CleanupCalls \ {"removeFinalizer"}
         \/ call = "listForScaleDown" /\ next = "scaleDown"
         \/ call = "listForRollout" /\ next \in {"rollout", "recordRolloutError"}
         \/ call = "rollout" /\ next = "recordRolloutError"
         \/ call \notin {"idle", "addFinalizer"} /\ next = "updateStatusWithError"
         \/ next \in {"idle", call}
  PROVE  Entitled(next, c)
BY DEF Entitled, Working, DeletionCalls, CleanupCalls, EarlyCalls, ActiveCalls,
       ProvisionCalls, DeployCalls, ServeCalls

\* Every case of the switch is entitled to by the version switched on.
LEMMA EntitledPhase ==
  ASSUME NEW c, Working(c), Doomed(c), c.active
  PROVE  Entitled(PhaseHandler(c.status.phase), c)
BY DEF PhaseHandler, Entitled, Working, Doomed, DeletionCalls, CleanupCalls,
       EarlyCalls, ActiveCalls, ProvisionCalls, DeployCalls, ServeCalls

\* So is what Reconcile does after the expiration check.
LEMMA EntitledDispatch ==
  ASSUME NEW c, Working(c), Doomed(c)
  PROVE  Entitled(Dispatch(c), c)
<1>1. Entitled("listForScaleDown", c) \/ c.active
  BY DEF Entitled, DeletionCalls, CleanupCalls, EarlyCalls, ActiveCalls,
         ProvisionCalls, DeployCalls, ServeCalls
<1>2. c.active => Entitled("listForRollout", c)
  BY DEF Entitled, DeletionCalls, CleanupCalls, EarlyCalls, ActiveCalls,
         ProvisionCalls, DeployCalls, ServeCalls
<1> QED
  BY <1>1, <1>2, EntitledPhase DEF Dispatch

\* And what it does with the object it has read.
LEMMA EntitledAfterGet ==
  ASSUME NEW c
  PROVE  Entitled(AfterGet(c), c)
BY DEF AfterGet, DeletionHandler, Entitled, Working, DeletionCalls,
       CleanupCalls, EarlyCalls, ActiveCalls, ProvisionCalls, DeployCalls, ServeCalls

\* The parts of an object a status write replaces and keeps.
LEMMA WithStatusFacts ==
  ASSUME NEW s \in PRStack, NEW status
  PROVE  LET t == [s EXCEPT !.status = status]
         IN  /\ t.exists = s.exists /\ t.deleting = s.deleting
             /\ t.finalizer = s.finalizer /\ t.active = s.active
             /\ t.deployedAt = s.deployedAt /\ t.status = status
BY DEF PRStack

\* What the next copy is to the next versions s, stored, and o, cached.
HeldWell(s, o) ==
  /\ Doomed(copy)' /\ AsOld(copy', s) /\ Entitled(pc', copy')
  /\ copyCurrent' => Alike(copy', s) /\ NotFarBehind(o, s)

\* Hold, when the call it goes on to is one the new copy entitles to.
LEMMA HoldObject ==
  ASSUME NEW next, NEW c, NEW current, Hold(next, c, current), NEW s, NEW o,
         next # "idle" =>
           /\ Doomed(c) /\ AsOld(c, s) /\ Entitled(next, c)
           /\ current => Alike(c, s) /\ NotFarBehind(o, s)
  PROVE  HeldWell(s, o)
<1>1. CASE next = "idle"
  <2>1. pc' = "idle" /\ copy' = NoStack /\ copyCurrent' = FALSE
    BY <1>1 DEF Hold, EndReconcile, HoldNothing
  <2> QED
    BY <2>1, NoStackAsOld, EntitledIdle DEF HeldWell, Doomed
<1>2. CASE next # "idle"
  <2>1. pc' = next /\ copy' = c /\ copyCurrent' = current
    BY <1>2 DEF Hold
  <2> QED
    BY <2>1, <1>2 DEF HeldWell, Doomed
<1> QED
  BY <1>1, <1>2

-----------------------------------------------------------------------------
(* Steps that do not write the object *)

\* A call that does not write the object, or the end of a reconcile.
LEMMA GotoObject ==
  ASSUME ObjectInv, NEW next, Goto(next), UNCHANGED apiVars, Entitled(next, copy)
  PROVE  ObjectInv'
<1>1. HeldWell(stack, cached)
  BY HoldObject DEF Goto, ObjectInv
<1> QED
  BY <1>1 DEF ObjectInv, HeldWell, apiVars, Doomed, AsOld, Untouched

\* A step of a loop.
LEMMA LoopObject ==
  ASSUME ObjectInv, UNCHANGED <<apiVars, copy, copyCurrent>>, Entitled(pc', copy)
  PROVE  ObjectInv'
BY DEF ObjectInv, apiVars

-----------------------------------------------------------------------------
(* Steps that write the object *)

\* A status write: the cleanup phases go to stacks that are being deleted,
\* Inactive to stacks that are parked, and the next call is one the copy with
\* the new status entitles to.
LEMMA StatusUpdateObject ==
  ASSUME TypeOK, ObjectInv, NEW status, NEW next, NEW otherwise,
         StatusUpdate(status, next, otherwise), copy.exists,
         status.phase \in {"Cleaning", "Cleaned"} => copy.deleting,
         status.phase = "Inactive" => Parked(copy),
         copy.finalizer \/ copy.deleting \/ status.phase = copy.status.phase,
         Entitled(next, [copy EXCEPT !.status = status]),
         Entitled(otherwise, [copy EXCEPT !.status = status]),
         \/ otherwise = "idle"
         \/ /\ status.phase = copy.status.phase
            /\ status.lastDeployedAt = copy.status.lastDeployedAt
  PROVE  ObjectInv'
<1> DEFINE new == [copy EXCEPT !.status = status]
           put == [stack EXCEPT !.status = status]
<1>a. /\ new.exists = copy.exists /\ new.deleting = copy.deleting
      /\ new.finalizer = copy.finalizer /\ new.active = copy.active
      /\ new.deployedAt = copy.deployedAt /\ new.status = status
      /\ put.exists = stack.exists /\ put.deleting = stack.deleting
      /\ put.finalizer = stack.finalizer /\ put.active = stack.active
      /\ put.deployedAt = stack.deployedAt /\ put.status = status
  BY WithStatusFacts DEF TypeOK, ApiOK, WorkerOK
<1> HIDE DEF new, put
<1>b. /\ Doomed(stack) /\ Doomed(cached) /\ Doomed(copy)
      /\ AsOld(cached, stack) /\ AsOld(copy, stack)
      /\ ~stack.exists => stack = NoStack
      /\ cacheCurrent => cached = stack
      /\ copyCurrent => Alike(copy, stack) /\ NotFarBehind(cached, stack)
      /\ Entitled(pc, copy) /\ copyCurrent \in BOOLEAN /\ Untouched(stack)
  BY DEF ObjectInv, TypeOK, WorkerOK
<1>c. Entitled(next, new) /\ Entitled(otherwise, new)
  BY DEF new
<1>1. CASE copyCurrent /\ Store(put) /\ Hold(next, put, TRUE)
  <2>1. stack' = put /\ cached' = cached /\ (cacheCurrent' => cacheCurrent /\ put = stack)
    BY <1>1 DEF Store
  <2>2. Doomed(put) /\ AsOld(put, put) /\ Alike(put, put) /\ Untouched(put)
    BY <1>1, <1>a, <1>b DEF Doomed, AsOld, Alike, Working, Parked, Untouched
  <2>3. AsOld(cached, put) /\ NotFarBehind(cached, put)
    BY <1>1, <1>a, <1>b DEF AsOld, Alike, NotFarBehind, Working, Parked
  <2>4. Entitled(next, put) /\ put.exists
    BY <1>1, <1>a, <1>b, <1>c DEF Entitled, Alike, Working
  <2>5. HeldWell(put, cached)
    BY <2>2, <2>3, <2>4, <1>1, HoldObject
  <2> QED
    BY <2>1, <2>2, <2>3, <2>4, <2>5, <1>b
       DEF ObjectInv, HeldWell, Doomed, AsOld, Untouched
<1>2. CASE /\ UNCHANGED apiVars
           /\ \/ copyCurrent /\ Hold(otherwise, new, TRUE)
              \/ ~copyCurrent /\ Hold(otherwise, new, FALSE)
  <2>1. UNCHANGED <<stack, cached, cacheCurrent>>
    BY <1>2 DEF apiVars
  <2>2. Doomed(new)
    BY <1>a, <1>b DEF Doomed
  <2>3. otherwise # "idle" => AsOld(new, stack)
    BY <1>a, <1>b DEF AsOld, Working, Parked
  <2>4. otherwise # "idle" /\ copyCurrent => Alike(new, stack)
    BY <1>a, <1>b DEF Alike
  <2>5. ASSUME NEW current, current => copyCurrent, Hold(otherwise, new, current)
        PROVE  HeldWell(stack, cached)
    BY <2>2, <2>3, <2>4, <2>5, <1>b, <1>c, HoldObject
  <2> QED
    BY <2>1, <2>5, <1>2, <1>b DEF ObjectInv, HeldWell, Doomed, AsOld, Untouched
<1> QED
  BY <1>1, <1>2 DEF StatusUpdate, new, put

\* The last write of a reconcile.
LEMMA LastUpdateObject ==
  ASSUME TypeOK, ObjectInv, NEW status, StatusUpdate(status, "idle", "idle"),
         copy.exists,
         status.phase \in {"Cleaning", "Cleaned"} => copy.deleting,
         status.phase = "Inactive" => Parked(copy),
         copy.finalizer \/ copy.deleting
  PROVE  ObjectInv'
BY EntitledIdle, StatusUpdateObject

\* A write that keeps the phase.
LEMMA QuietUpdateObject ==
  ASSUME TypeOK, ObjectInv, NEW status, NEW next, NEW otherwise,
         StatusUpdate(status, next, otherwise), copy.exists,
         status.phase = copy.status.phase,
         \/ otherwise = "idle"
         \/ status.lastDeployedAt = copy.status.lastDeployedAt,
         Entitled(next, copy), Entitled(otherwise, copy)
  PROVE  ObjectInv'
<1> DEFINE new == [copy EXCEPT !.status = status]
<1>a. /\ new.exists = copy.exists /\ new.deleting = copy.deleting
      /\ new.finalizer = copy.finalizer /\ new.active = copy.active
      /\ new.status.phase = copy.status.phase
  BY WithStatusFacts DEF TypeOK, WorkerOK
<1>1. Entitled(next, new) /\ Entitled(otherwise, new)
  <2> HIDE DEF new
  <2> QED
    BY <1>a, EntitledAlike
<1>2. Doomed(copy)
  BY DEF ObjectInv
<1> QED
  BY <1>1, <1>2, StatusUpdateObject DEF Doomed, Parked

\* An Update of a stack that is not being deleted: the finalizer is there
\* afterwards, and so is spec.active.
LEMMA SpecUpdateObject ==
  ASSUME TypeOK, ObjectInv, NEW c \in PRStack, c.finalizer,
         NEW next \in {"idle", "setCreatedAt", "checkReactivation"},
         SpecUpdate(c, next, "idle"), copy.exists, ~copy.deleting
  PROVE  ObjectInv'
<1> DEFINE put == Stored(c)
<1>a. stack.deleting = FALSE /\ stack.exists => 
        /\ put.exists /\ ~put.deleting /\ put.finalizer /\ put.active
        /\ put.status = stack.status
  BY DEF Stored, Defaulted, TypeOK, ApiOK, PRStack
<1>b. put \in PRStack /\ cached \in PRStack
  BY StoredTyped DEF TypeOK, ApiOK
<1> HIDE DEF put
<1>1. CASE copyCurrent /\ Store(put) /\ Hold(next, put, TRUE)
  <2>1. stack' = put /\ cached' = cached /\ (cacheCurrent' => cacheCurrent /\ put = stack)
    BY <1>1 DEF Store
  <2>2. /\ stack.exists /\ ~stack.deleting /\ cached.exists /\ ~cached.deleting
        /\ cacheCurrent => cached = stack
        /\ Doomed(stack) /\ AsOld(cached, stack)
    BY <1>1 DEF ObjectInv, Alike, NotFarBehind
  <2>3. /\ put.exists /\ ~put.deleting /\ put.finalizer /\ put.active
        /\ put.status = stack.status
    BY <2>2, <1>a DEF TypeOK, ApiOK, PRStack
  <2>4. Doomed(put) /\ AsOld(put, put) /\ Alike(put, put)
    BY <2>2, <2>3 DEF Doomed, AsOld, Alike, Parked
  <2>5. AsOld(cached, put) /\ NotFarBehind(cached, put)
    BY <2>2, <2>3, <1>b DEF AsOld, NotFarBehind, PRStack
  <2>6. Entitled(next, put)
    BY <2>3 DEF Entitled, Working, DeletionCalls, CleanupCalls, EarlyCalls,
                ActiveCalls, ProvisionCalls, DeployCalls, ServeCalls
  <2>7. HeldWell(put, cached)
    BY <2>4, <2>5, <2>6, <1>1, HoldObject
  <2>8. Doomed(cached)
    BY DEF ObjectInv
  <2> QED
    BY <2>1, <2>2, <2>3, <2>4, <2>5, <2>7, <2>8
       DEF ObjectInv, HeldWell, Doomed, AsOld, Untouched
<1>2. CASE UNCHANGED apiVars /\ EndReconcile
  BY <1>2, EntitledIdle, GotoObject DEF Goto, Hold
<1> QED
  BY <1>1, <1>2 DEF SpecUpdate, put, Hold

\* Anything that ends the reconcile with the object gone, or left alone.
LEMMA RemovalObject ==
  ASSUME TypeOK, ObjectInv, pc = "removeFinalizer", RemoveFinalizer
  PROVE  ObjectInv'
<1>1. copy.exists /\ copy.deleting
  BY DEF ObjectInv, Entitled, DeletionCalls, CleanupCalls
<1>2. [copy EXCEPT !.finalizer = FALSE].finalizer = FALSE
  BY DEF TypeOK, WorkerOK, PRStack
<1>3. CASE /\ copyCurrent /\ EndReconcile
           /\ Store(Stored([copy EXCEPT !.finalizer = FALSE]))
  <2>1. stack.deleting /\ cached.exists /\ cached.deleting
    BY <1>1, <1>3 DEF ObjectInv, Alike, NotFarBehind, TypeOK, ApiOK, WorkerOK, PRStack
  <2>2. stack' = NoStack /\ cached' = cached
    BY <2>1, <1>2, <1>3 DEF Store, Stored
  <2>3. Hold("idle", NoStack, FALSE)
    BY <1>3 DEF Hold
  <2>4. HeldWell(NoStack, cached)
    BY <2>3, HoldObject
  <2>5. cacheCurrent' => cached = stack /\ NoStack = stack
    BY <2>1, <1>2, <1>3 DEF Store, Stored, ObjectInv
  <2> QED
    BY <2>1, <2>2, <2>4, <2>5, NoStackFacts
       DEF ObjectInv, HeldWell, Doomed, AsOld, Working, Untouched
<1>4. CASE UNCHANGED apiVars /\ EndReconcile
  BY <1>4, EntitledIdle, GotoObject DEF Goto, Hold
<1> QED
  BY <1>3, <1>4 DEF RemoveFinalizer, SpecUpdate, Hold

-----------------------------------------------------------------------------
(* Every step *)

\* What the calls that write the object find in the copy.
LEMMA EntitledFacts ==
  ASSUME NEW call \in Control \ {"idle"}, NEW c, Entitled(call, c)
  PROVE  /\ c.exists
         /\ call \in DeletionCalls => c.deleting
         /\ call = "addFinalizer" => ~c.deleting
         /\ call \notin DeletionCalls \union EarlyCalls => Working(c)
         /\ call \in {"listForScaleDown", "scaleDown"} => ~c.active
         /\ call \in ActiveCalls => c.active
BY DEF Entitled, Working, DeletionCalls, EarlyCalls, CleanupCalls

\* The steps of Reconcile.
LEMMA ReconcileObject == TypeOK /\ ObjectInv /\ ReconcileNext => ObjectInv'
<1> SUFFICES ASSUME TypeOK, ObjectInv, ReconcileNext PROVE ObjectInv'
  OBVIOUS
<1>a. /\ copy \in PRStack /\ copy.status \in Status /\ pc \in Control
      /\ cacheCurrent \in BOOLEAN
  BY DEF TypeOK, ApiOK, WorkerOK, PRStack
<1>b. /\ Entitled(pc, copy) /\ Doomed(copy) /\ Doomed(cached)
      /\ AsOld(cached, stack)
      /\ cacheCurrent => cached = stack
  BY DEF ObjectInv
<1>c. pc # "idle" =>
        /\ copy.exists
        /\ pc = "addFinalizer" => ~copy.deleting
        /\ pc \notin DeletionCalls \union EarlyCalls => Working(copy)
        /\ pc \in {"listForScaleDown", "scaleDown"} => ~copy.active
        /\ pc \in ActiveCalls => copy.active
  BY <1>a, <1>b, EntitledFacts
<1>d. /\ {"setCreatedAt", "checkReactivation", "checkExpiration",
          "listForScaleDown", "scaleDown", "checkReplicas", "scaleUp",
          "checkHealth", "listForRollout", "rollout"}
           \intersect (DeletionCalls \union EarlyCalls) = {}
      /\ {"listForRollout", "rollout"} \subseteq ActiveCalls
      /\ {"checkReplicas", "scaleUp", "checkHealth"} \subseteq ServeCalls
  BY DEF DeletionCalls, CleanupCalls, EarlyCalls, ActiveCalls, ServeCalls
<1>1. CASE FetchPRStack
  <2>1. Entitled(AfterGet(cached), cached)
    BY EntitledAfterGet
  <2>2. UNCHANGED <<stack, cached, cacheCurrent>>
    BY <1>1 DEF FetchPRStack, apiVars
  <2>3. cacheCurrent => Alike(cached, stack) /\ NotFarBehind(cached, stack)
    BY <1>b DEF Alike, NotFarBehind
  <2>4. HeldWell(stack, cached)
    BY <2>1, <2>3, <1>1, <1>b, HoldObject DEF FetchPRStack
  <2> QED
    BY <2>2, <2>4 DEF ObjectInv, HeldWell, Doomed, AsOld, Untouched
<1>2. CASE AddFinalizer
  <2>1. /\ [copy EXCEPT !.finalizer = TRUE] \in PRStack
        /\ [copy EXCEPT !.finalizer = TRUE].finalizer
    BY <1>a DEF PRStack
  <2> QED
    BY <2>1, <1>2, <1>c, SpecUpdateObject DEF AddFinalizer
<1>3. CASE SetCreatedAt
  <2> DEFINE status == [copy.status EXCEPT !.createdAt = Timestamp,
                                           !.lastActiveAt = Timestamp]
  <2>1. status.phase = copy.status.phase
    BY <1>a DEF Status
  <2>2. Working(copy)
    BY <1>3, <1>c, <1>d DEF SetCreatedAt
  <2>3. Entitled("checkReactivation", copy)
    BY <2>2 DEF Entitled, DeletionCalls, CleanupCalls, EarlyCalls, ActiveCalls,
                ProvisionCalls, DeployCalls, ServeCalls
  <2> HIDE DEF status
  <2> QED
    BY <2>1, <2>2, <2>3, <1>3, EntitledIdle, QuietUpdateObject
       DEF SetCreatedAt, status, Working
<1>4. CASE CheckReactivation
  <2> DEFINE status == [copy.status EXCEPT !.lastActiveAt = Timestamp]
  <2>1. status.phase = copy.status.phase
    BY <1>a DEF Status
  <2>2. Working(copy)
    BY <1>4, <1>c, <1>d DEF CheckReactivation
  <2>3. Entitled(Dispatch(copy), copy)
    BY <2>2, <1>b, EntitledDispatch
  <2>4. Entitled("checkExpiration", copy)
    BY <2>2 DEF Entitled, DeletionCalls, CleanupCalls, EarlyCalls, ActiveCalls,
                ProvisionCalls, DeployCalls, ServeCalls
  <2> HIDE DEF status
  <2>5. CASE BecomesActive(copy)
    BY <2>1, <2>2, <2>3, <2>5, <1>4, EntitledIdle, QuietUpdateObject
       DEF CheckReactivation, status, Working
  <2>6. CASE ~BecomesActive(copy)
    BY <2>4, <2>6, <1>4, GotoObject DEF CheckReactivation
  <2> QED
    BY <2>5, <2>6
<1>5. CASE CheckExpiration
  <2>1. /\ [copy EXCEPT !.active = FALSE] \in PRStack
        /\ [copy EXCEPT !.active = FALSE].finalizer = copy.finalizer
    BY <1>a DEF PRStack
  <2>2. Working(copy)
    BY <1>5, <1>c, <1>d DEF CheckExpiration
  <2>3. CASE IsStackExpired(copy.status) /\ copy.active
    BY <2>1, <2>2, <2>3, <1>5, SpecUpdateObject DEF CheckExpiration, Working
  <2>4. CASE ~(IsStackExpired(copy.status) /\ copy.active)
    BY <2>2, <2>4, <1>5, <1>b, EntitledDispatch, GotoObject DEF CheckExpiration
  <2> QED
    BY <2>3, <2>4
<1>6. CASE ListForScaleDown
  BY <1>6, <1>b, EntitledHandler, GotoObject, LoopObject
     DEF ListForScaleDown, StartLoop, CallFails
<1>7. CASE ScaleDown
  BY <1>7, <1>b, EntitledHandler, GotoObject, LoopObject
     DEF ScaleDown, ScaleDownFails, ItemFails, LoopOn
<1>8. CASE MarkInactive
  <2>1. [copy.status EXCEPT !.phase = "Inactive"].phase = "Inactive"
    BY <1>a DEF Status
  <2> QED
    BY <2>1, <1>8, <1>c, <1>d, LastUpdateObject DEF MarkInactive, Parked, Working
<1>9. CASE CheckReplicas
  BY <1>9, <1>b, <1>d, EntitledHandler, GotoObject, LoopObject
     DEF CheckReplicas, StartLoop, CallFails
<1>10. CASE ScaleUp
  BY <1>10, <1>b, <1>d, EntitledHandler, GotoObject, LoopObject
     DEF ScaleUp, ItemFails, LoopOn
<1>11. CASE CheckHealth
  <2>1. CASE copy.status.unhealthy
    BY <2>1, <1>11, <1>c, EntitledIdle, QuietUpdateObject DEF CheckHealth
  <2>2. CASE ~copy.status.unhealthy
    BY <2>2, <1>11, EntitledIdle, GotoObject DEF CheckHealth, Goto, Hold
  <2> QED
    BY <2>1, <2>2
<1>12. CASE ListForRollout
  BY <1>12, <1>b, EntitledHandler, GotoObject, LoopObject
     DEF ListForRollout, StartLoop, CallFails
<1>13. CASE RolloutDeployment
  BY <1>13, <1>b, EntitledHandler, GotoObject, LoopObject
     DEF RolloutDeployment, RolloutFails, ItemFails, LoopOn
<1>14. CASE RecordRollout
  <2>1. RolledOut(copy).phase = copy.status.phase
    BY <1>a DEF RolledOut, Status
  <2>2. Working(copy) /\ copy.active
    BY <1>14, <1>c, <1>d DEF RecordRollout
  <2>3. Entitled(PhaseHandler(copy.status.phase), copy)
    BY <2>2, <1>b, EntitledPhase
  <2> QED
    BY <2>1, <2>2, <2>3, <1>14, EntitledIdle, QuietUpdateObject
       DEF RecordRollout, Working
<1>15. CASE RecordRolloutError
  BY <1>15, <1>c, EntitledIdle, QuietUpdateObject DEF RecordRolloutError
<1>16. CASE UpdateStatusWithError
  <2>1. FailedStatus(copy.status).phase = "Failed"
    BY <1>a DEF FailedStatus, Status
  <2> QED
    BY <2>1, <1>16, <1>b, <1>c, LastUpdateObject DEF UpdateStatusWithError, Entitled
<1> QED
  BY <1>1, <1>2, <1>3, <1>4, <1>5, <1>6, <1>7, <1>8, <1>9, <1>10, <1>11,
     <1>12, <1>13, <1>14, <1>15, <1>16 DEF ReconcileNext

\* The steps of handleInitialization and handleProvisioning.
LEMMA ProvisionObject == TypeOK /\ ObjectInv /\ ProvisionNext => ObjectInv'
<1> SUFFICES ASSUME TypeOK, ObjectInv, ProvisionNext PROVE ObjectInv'
  OBVIOUS
<1>a. copy.status \in Status /\ pc \in Control
  BY DEF TypeOK, WorkerOK, PRStack
<1>b. Entitled(pc, copy) /\ pc # "idle"
  BY DEF ObjectInv, ProvisionNext, Reactivate, HandleInitialization,
         CreateNamespace, DropUser, CreateUser, CreateCollections,
         SaveCredentials, CreateMongoDBSecret, FinishProvisioning
<1>c. copy.exists /\ (pc \in ActiveCalls => Working(copy) /\ copy.active)
  BY <1>a, <1>b, EntitledFacts
     DEF ActiveCalls, ProvisionCalls, DeployCalls, ServeCalls, DeletionCalls,
         CleanupCalls, EarlyCalls
<1>d. {"createNamespace", "dropUser", "createUser", "createCollections",
       "saveCredentials", "createMongoDBSecret", "finishProvisioning"}
         \subseteq ProvisionCalls
  BY DEF ProvisionCalls
<1>1. CASE Reactivate
  <2> DEFINE status == [copy.status EXCEPT !.phase = ""]
             new == [copy EXCEPT !.status = status]
  <2>1. /\ status.phase = "" /\ Working(copy) /\ copy.active
        /\ new.exists = copy.exists /\ new.deleting = copy.deleting
        /\ new.finalizer = copy.finalizer /\ new.active = copy.active
        /\ new.status = status
    BY <1>1, <1>a, <1>c, WithStatusFacts
       DEF Status, Reactivate, ActiveCalls, TypeOK, WorkerOK
  <2> HIDE DEF new
  <2>2. Entitled("initialize", new)
    BY <2>1 DEF Entitled, Working, DeletionCalls, CleanupCalls, EarlyCalls,
                ActiveCalls, ProvisionCalls, DeployCalls, ServeCalls
  <2> QED
    BY <2>1, <2>2, <1>1, <1>c, EntitledIdle, StatusUpdateObject
       DEF Reactivate, new, Working
<1>2. CASE HandleInitialization
  <2>1. [copy.status EXCEPT !.phase = "Provisioning"].phase = "Provisioning"
    BY <1>a DEF Status
  <2> QED
    BY <2>1, <1>2, <1>c, LastUpdateObject
       DEF HandleInitialization, ActiveCalls, Working
<1>3. CASE CreateNamespace
  BY <1>3, <1>b, <1>d, EntitledHandler, GotoObject DEF CreateNamespace, CallFails
<1>4. CASE DropUser
  BY <1>4, <1>b, <1>d, EntitledHandler, GotoObject, LoopObject
     DEF DropUser, CallFails
<1>5. CASE CreateUser
  BY <1>5, <1>b, <1>d, EntitledHandler, GotoObject DEF CreateUser, CallFails
<1>6. CASE CreateCollections
  BY <1>6, <1>b, <1>d, EntitledHandler, GotoObject DEF CreateCollections, CallFails
<1>7. CASE SaveCredentials
  <2>1. /\ WithCredentials(copy.status).phase = copy.status.phase
        /\ WithCredentials(copy.status).lastDeployedAt = copy.status.lastDeployedAt
    BY <1>a DEF WithCredentials, Status
  <2>2. /\ Entitled("createMongoDBSecret", copy)
        /\ Entitled("updateStatusWithError", copy)
    BY <1>7, <1>b, <1>d, EntitledHandler DEF SaveCredentials
  <2> QED
    BY <2>1, <2>2, <1>7, <1>c, QuietUpdateObject DEF SaveCredentials
<1>8. CASE CreateMongoDBSecret
  BY <1>8, <1>b, <1>d, EntitledHandler, GotoObject
     DEF CreateMongoDBSecret, WriteSecret, CallFails
<1>9. CASE FinishProvisioning
  <2>1. Provisioned(copy.status).phase = "Deploying"
    BY <1>a DEF Provisioned, Status
  <2> QED
    BY <2>1, <1>9, <1>c, <1>d, LastUpdateObject
       DEF FinishProvisioning, ActiveCalls, Working
<1> QED
  BY <1>1, <1>2, <1>3, <1>4, <1>5, <1>6, <1>7, <1>8, <1>9 DEF ProvisionNext

\* The steps of handleDeployment.
LEMMA DeployObject == TypeOK /\ ObjectInv /\ DeployNext => ObjectInv'
<1> SUFFICES ASSUME TypeOK, ObjectInv, DeployNext PROVE ObjectInv'
  OBVIOUS
<1>a. copy.status \in Status /\ pc \in Control
  BY DEF TypeOK, WorkerOK, PRStack
<1>b. Entitled(pc, copy) /\ pc \in DeployCalls
  BY DEF ObjectInv, DeployNext, CreateRegistrySecret, CreateMongoDBResources,
         CreateNATSResources, CreateRedisResources, EnsureBackupStorage,
         CreateServiceDeployment, FinishDeployment, DeployCalls
<1>c. {"createMongoDBResources", "createNATSResources", "createRedisResources",
       "ensureBackupStorage", "createServices"} \subseteq DeployCalls
  BY DEF DeployCalls
<1>d. /\ \A next \in DeployCalls : Entitled(next, copy)
      /\ Entitled("updateStatusWithError", copy)
  <2>1. pc \notin {"idle", "addFinalizer"}
    BY <1>b DEF DeployCalls
  <2> QED
    BY <2>1, <1>b, EntitledHandler
<1>1. CASE CreateRegistrySecret
  BY <1>1, <1>c, <1>d, GotoObject DEF CreateRegistrySecret, CallFails
<1>2. CASE CreateMongoDBResources
  BY <1>2, <1>c, <1>d, GotoObject
     DEF CreateMongoDBResources, WriteSecret, CallFails
<1>3. CASE CreateNATSResources \/ CreateRedisResources
  BY <1>3, <1>c, <1>d, GotoObject
     DEF CreateNATSResources, CreateRedisResources, DeployInfra, CallFails
<1>4. CASE EnsureBackupStorage
  BY <1>4, <1>c, <1>d, GotoObject, LoopObject
     DEF EnsureBackupStorage, StartLoop, CallFails
<1>5. CASE CreateServiceDeployment
  BY <1>5, <1>b, LoopObject DEF CreateServiceDeployment
<1>6. CASE FinishDeployment
  <2>1. DeployedStatus(copy.status).phase \in {"Failed", "Degraded", "Running"}
    BY <1>a DEF DeployedStatus, PhaseAfterDeployment, Status
  <2>2. copy.exists /\ copy.finalizer
    BY <1>b DEF Entitled, DeployCalls, DeletionCalls, CleanupCalls, EarlyCalls, Working
  <2> QED
    BY <2>1, <2>2, <1>6, LastUpdateObject DEF FinishDeployment
<1> QED
  BY <1>1, <1>2, <1>3, <1>4, <1>5, <1>6 DEF DeployNext

\* The steps of the deletion.
LEMMA CleanupObject == TypeOK /\ ObjectInv /\ CleanupNext => ObjectInv'
<1> SUFFICES ASSUME TypeOK, ObjectInv, CleanupNext PROVE ObjectInv'
  OBVIOUS
<1>a. copy.status \in Status /\ pc \in Control
  BY DEF TypeOK, WorkerOK, PRStack
<1>b. Entitled(pc, copy) /\ pc \in DeletionCalls
  BY DEF ObjectInv, CleanupNext, MarkCleaning, CreateBackup, CleanupAllMongoDB,
         CleanupAllNATS, CleanupAllRedis, CleanupAllServices,
         CleanupMongoDBAgain, CleanupNATS, CleanupRedis, MarkCleaned,
         RemoveFinalizer, DeletionCalls, CleanupCalls
<1>c. copy.exists /\ copy.deleting
  BY <1>b DEF Entitled
<1>d. pc \in CleanupCalls \ {"removeFinalizer"} =>
        /\ \A next \in CleanupCalls \ {"removeFinalizer"} : Entitled(next, copy)
        /\ Entitled("updateStatusWithError", copy)
  <2>1. pc \notin {"idle", "addFinalizer"}
    BY <1>b DEF DeletionCalls, CleanupCalls
  <2> QED
    BY <2>1, <1>b, EntitledHandler
<1>e. {"createBackup", "all.mongoDB", "all.nats", "all.redis", "all.services",
       "cleanupMongoDB", "cleanupNATS", "cleanupRedis", "markCleaned"}
         \subseteq CleanupCalls \ {"removeFinalizer"}
  BY DEF CleanupCalls
<1>1. CASE MarkCleaning
  BY <1>1, <1>a, <1>c, LastUpdateObject DEF MarkCleaning, Status
<1>2. CASE CreateBackup
  BY <1>2, <1>d, <1>e, GotoObject DEF CreateBackup
<1>3. CASE CleanupAllMongoDB \/ CleanupMongoDBAgain
  BY <1>3, <1>d, <1>e, GotoObject
     DEF CleanupAllMongoDB, CleanupMongoDBAgain, MongoDBCleanupFailed, CleanupMongoDB
<1>4. CASE CleanupAllNATS \/ CleanupNATS \/ CleanupAllRedis \/ CleanupRedis
  BY <1>4, <1>d, <1>e, GotoObject
     DEF CleanupAllNATS, CleanupNATS, CleanupAllRedis, CleanupRedis, CleanupDeployment
<1>5. CASE CleanupAllServices
  BY <1>5, <1>d, <1>e, GotoObject DEF CleanupAllServices, CleanupServices
<1>6. CASE MarkCleaned
  <2> DEFINE status == [copy.status EXCEPT !.phase = "Cleaned"]
             new == [copy EXCEPT !.status = status]
  <2>1. /\ status.phase = "Cleaned"
        /\ new.exists = copy.exists /\ new.deleting = copy.deleting
        /\ new.status = status
    BY <1>a, WithStatusFacts DEF Status, TypeOK, WorkerOK
  <2> HIDE DEF new
  <2>2. Entitled("removeFinalizer", new)
    BY <2>1, <1>c
       DEF Entitled, DeletionCalls, CleanupCalls, EarlyCalls, ActiveCalls,
           ProvisionCalls, DeployCalls, ServeCalls
  <2> QED
    BY <2>1, <2>2, <1>6, <1>c, EntitledIdle, StatusUpdateObject
       DEF MarkCleaned, new
<1>7. CASE RemoveFinalizer
  BY <1>7, RemovalObject DEF RemoveFinalizer
<1> QED
  BY <1>1, <1>2, <1>3, <1>4, <1>5, <1>6, <1>7 DEF CleanupNext

\* The user, the crashes, the cluster, the watch and the clock.
LEMMA EnvironmentObject ==
  TypeOK /\ ObjectInv /\ (Crash \/ User \/ Cluster \/ Watch \/ Clock) => ObjectInv'
<1> SUFFICES ASSUME TypeOK, ObjectInv, Crash \/ User \/ Cluster \/ Watch \/ Clock
             PROVE  ObjectInv'
  OBVIOUS
<1>a. /\ Doomed(stack) /\ Doomed(cached) /\ Doomed(copy)
      /\ AsOld(cached, stack) /\ AsOld(copy, stack)
      /\ ~stack.exists => stack = NoStack
      /\ Entitled(pc, copy) /\ stack \in PRStack /\ Untouched(stack)
  BY DEF ObjectInv, TypeOK, ApiOK
<1>1. CASE Crash
  <2>1. Hold("idle", copy, FALSE)
    BY <1>1 DEF Crash, Hold
  <2>2. HeldWell(stack, stack)
    BY <2>1, HoldObject
  <2>3. AsOld(stack, stack) /\ NotFarBehind(stack, stack)
    BY <1>a DEF AsOld, NotFarBehind, Working, Parked, ObjectInv
  <2> QED
    BY <2>2, <2>3, <1>1, <1>a DEF Crash, ObjectInv, HeldWell, Doomed, AsOld, Untouched
<1>2. ASSUME NEW c, UserStore(c), Doomed(c), ~c.exists => c = NoStack,
             AsOld(cached, c), AsOld(copy, c), Untouched(c)
      PROVE  ObjectInv'
  BY <1>2, <1>a DEF UserStore, ObjectInv
<1>3. ASSUME NEW active, SetActive(active) PROVE ObjectInv'
  <2> DEFINE c == [stack EXCEPT !.active = active]
  <2>1. /\ c.exists = stack.exists /\ c.deleting = stack.deleting
        /\ c.finalizer = stack.finalizer /\ c.status = stack.status
    BY <1>a DEF PRStack
  <2>2. UserStore(c) /\ stack.exists
    BY <1>3 DEF SetActive
  <2> HIDE DEF c
  <2> QED
    BY <2>1, <2>2, <1>2, <1>a DEF Doomed, AsOld, Untouched
<1>4. CASE SetDeployedAt
  <2> DEFINE c == [stack EXCEPT !.deployedAt = @ + 1]
  <2>1. /\ c.exists = stack.exists /\ c.deleting = stack.deleting
        /\ c.finalizer = stack.finalizer /\ c.status = stack.status
    BY <1>a DEF PRStack
  <2>2. UserStore(c) /\ stack.exists
    BY <1>4 DEF SetDeployedAt
  <2> HIDE DEF c
  <2> QED
    BY <2>1, <2>2, <1>2, <1>a DEF Doomed, AsOld, Untouched
<1>5. CASE DeleteStack
  <2>1. CASE stack.finalizer
    <3> DEFINE c == [stack EXCEPT !.deleting = TRUE]
    <3>1. /\ c.exists = stack.exists /\ c.deleting
          /\ c.finalizer = stack.finalizer /\ c.status = stack.status
      BY <1>a DEF PRStack
    <3>2. UserStore(c) /\ stack.exists
      BY <2>1, <1>5 DEF DeleteStack
    <3> HIDE DEF c
    <3> QED
      BY <3>1, <3>2, <2>1, <1>2, <1>a DEF Doomed, AsOld, Untouched
  <2>2. CASE ~stack.finalizer
    <3>1. UserStore(NoStack)
      BY <2>2, <1>5 DEF DeleteStack
    <3> QED
      BY <3>1, <2>2, <1>2, <1>a, NoStackFacts DEF Doomed, AsOld, Untouched
  <2> QED
    BY <2>1, <2>2
<1>6. ASSUME NEW active \in BornActive, CreateStack(active) PROVE ObjectInv'
  <2>1. /\ NewStack(active).exists /\ ~NewStack(active).finalizer
        /\ NewStack(active).status.phase = "" /\ ~NewStack(active).deleting
    BY NoStackFacts DEF NewStack, NoStack
  <2>2. UserStore(NewStack(active)) /\ ~stack.exists
    BY <1>6 DEF CreateStack
  <2> QED
    BY <2>1, <2>2, <1>2, <1>a DEF Doomed, AsOld, Untouched
<1>7. CASE User
  BY <1>3, <1>4, <1>5, <1>6, <1>7 DEF User
<1>8. CASE Cluster \/ Clock
  <2>1. UNCHANGED <<stack, cached, cacheCurrent, pc, copy, copyCurrent>>
    BY <1>8 DEF Cluster, PurgeNamespace, CompleteBackup, Clock, Tick, apiVars, workerVars
  <2> QED
    BY <2>1 DEF ObjectInv
<1>9. CASE Watch
  <2>1. /\ UNCHANGED <<stack, pc, copy, copyCurrent>>
        /\ cached' = stack
    BY <1>9 DEF Watch, SyncCache, workerVars
  <2>2. AsOld(stack, stack) /\ NotFarBehind(stack, stack)
    BY <1>a DEF AsOld, NotFarBehind, Working, Parked, ObjectInv
  <2> QED
    BY <2>1, <2>2 DEF ObjectInv, Doomed, AsOld, Untouched
<1> QED
  BY <1>1, <1>7, <1>8, <1>9

\* The invariant is inductive.
LEMMA NextObject == TypeOK /\ ObjectInv /\ [Next]_vars => ObjectInv'
<1> SUFFICES ASSUME TypeOK, ObjectInv, [Next]_vars PROVE ObjectInv'
  OBVIOUS
<1>1. CASE Next
  BY <1>1, ReconcileObject, ProvisionObject, DeployObject, CleanupObject,
     EnvironmentObject DEF Next, Worker
<1>2. CASE UNCHANGED vars
  BY <1>2 DEF vars, apiVars, workerVars, ObjectInv
<1> QED
  BY <1>1, <1>2

\* It holds at first.
LEMMA InitObject == Init => ObjectInv
<1> SUFFICES ASSUME Init PROVE ObjectInv
  OBVIOUS
<1>1. PICK active \in BornActive : stack = NewStack(active)
  BY DEF Init
<1>2. stack.exists /\ ~stack.deleting /\ ~stack.finalizer /\ stack.status.phase = ""
  BY <1>1, NoStackFacts DEF NewStack, NoStack
<1>3. Doomed(stack) /\ AsOld(stack, stack) /\ Untouched(stack)
  BY <1>2 DEF Doomed, AsOld, Working, Untouched
<1> QED
  BY <1>2, <1>3, NoStackAsOld, EntitledIdle DEF Init, ObjectInv

\* Every copy of the object, however old, keeps what ObjectInv says.
LEMMA ObjectInvariant == Spec => []ObjectInv
BY InitObject, NextObject, TypeCorrect, PTL DEF Spec

\* The cleanup never runs against a stack that is in use, however old the read
\* was that sent the reconcile there: the user may have seen the old stack go
\* and made a new one of the same name, and that one owns nothing yet.
THEOREM CleanupIsSafe == Spec => []CleanupSparesTheLiving
<1>1. ObjectInv => CleanupSparesTheLiving
  BY DEF ObjectInv, Entitled, DeletionCalls, AsOld, CleanupSparesTheLiving, Live
<1> QED
  BY <1>1, ObjectInvariant, PTL

=============================================================================
