------------------------ MODULE PRStackReports_proofs ------------------------
(***************************************************************************)
(* Proofs, for every value of the constants, about what the status says    *)
(* of the stack: that one which reports Cleaned holds nothing, and that    *)
(* one which reports Running, or is Ready and not Degraded, is complete.   *)
(***************************************************************************)
EXTENDS PRStackHoldings_proofs

-----------------------------------------------------------------------------
(* How the stored object moves *)

\* The phases of a stack whose cleanup has begun.
Leaving == {"Cleaning", "Cleaned", "Failed"}

\* The calls that clean up, or report that it failed.
LeavingCalls == DeletionCalls \union {"updateStatusWithError"}

SameFlags ==
  /\ stack'.exists = stack.exists /\ stack'.deleting = stack.deleting
  /\ stack'.finalizer = stack.finalizer

\* The worker stores a status.
StatusMoves ==
  /\ copyCurrent /\ Alike(copy, stack) /\ Guarded(stack) /\ SameFlags
  /\ stack'.deployedAt = stack.deployedAt
  /\ pc \in LeavingCalls => stack'.status.phase \in Leaving
  /\ pc \notin LeavingCalls => ~stack.deleting

\* The worker stores the metadata and the spec of a stack in use.
SpecMoves ==
  /\ stack'.status = stack.status /\ stack'.deployedAt = stack.deployedAt
  /\ stack.exists /\ stack'.exists /\ stack'.finalizer
  /\ ~stack.deleting /\ ~stack'.deleting /\ ~cached.deleting /\ ~copy.deleting

\* The worker takes the finalizer off.
RemovalMoves == pc = "removeFinalizer" /\ stack' = NoStack /\ ~copyCurrent'

\* The user writes.
UserMoves ==
  /\ UNCHANGED <<cached, copy, pc>> /\ ~copyCurrent'
  /\ \/ /\ SameFlags /\ stack'.status = stack.status
        /\ stack'.deployedAt >= stack.deployedAt
     \/ /\ Guarded(stack) /\ ~stack.deleting
        /\ stack'.exists /\ stack'.finalizer /\ stack'.deleting
        /\ stack'.status = stack.status /\ stack'.deployedAt = stack.deployedAt
     \/ ~stack.finalizer /\ ~stack'.finalizer /\ stack'.status = NoStatus

StackMoves ==
  UNCHANGED stack \/ StatusMoves \/ SpecMoves \/ RemovalMoves \/ UserMoves

\* How the copies of the worker and of the cache move along.
CopyMoves ==
  /\ cached' = cached \/ (UNCHANGED stack /\ cached' = stack)
  /\ \/ copy' = NoStack /\ pc' = "idle" /\ ~copyCurrent'
     \/ /\ copy' = cached /\ pc = "idle" /\ UNCHANGED <<stack, cached>>
        /\ copyCurrent' => cached = stack
     \/ copy' = stack' /\ copyCurrent
     \/ /\ copy'.exists = copy.exists /\ copy'.deleting = copy.deleting
        /\ copy'.status.phase = copy.status.phase /\ copy'.deployedAt = copy.deployedAt
        /\ copy.status.phase # "Provisioning" => copy'.status.mongoDB = copy.status.mongoDB
        /\ copyCurrent' => copyCurrent

\* The end of a reconcile.
LEMMA EndMoves ==
  ASSUME NEW c, NEW current, Hold("idle", c, current)
  PROVE  copy' = NoStack /\ pc' = "idle" /\ copyCurrent' = FALSE
BY DEF Hold, EndReconcile, HoldNothing

\* A status write.
LEMMA StatusUpdateMoves ==
  ASSUME TypeOK, ObjectInv, NEW status, NEW next, NEW otherwise,
         StatusUpdate(status, next, otherwise),
         pc \notin {"idle", "addFinalizer"},
         pc \in LeavingCalls => status.phase \in Leaving,
         \/ otherwise = "idle"
         \/ /\ status.phase = copy.status.phase
            /\ status.phase # "Provisioning" => status.mongoDB = copy.status.mongoDB
  PROVE  StackMoves /\ CopyMoves
<1> DEFINE new == [copy EXCEPT !.status = status]
           put == [stack EXCEPT !.status = status]
<1>a. /\ new.exists = copy.exists /\ new.deleting = copy.deleting
      /\ new.status = status /\ new.deployedAt = copy.deployedAt
      /\ put.exists = stack.exists /\ put.deleting = stack.deleting
      /\ put.finalizer = stack.finalizer /\ put.status = status
      /\ put.deployedAt = stack.deployedAt
  BY WithStatusFacts DEF TypeOK, ApiOK, WorkerOK
<1> HIDE DEF new, put
<1>1. CASE copyCurrent /\ Store(put) /\ Hold(next, put, TRUE)
  <2>1. stack' = put /\ cached' = cached /\ Alike(copy, stack) /\ Untouched(stack)
    BY <1>1 DEF Store, ObjectInv
  <2>2. Guarded(stack) /\ (pc \notin LeavingCalls => ~stack.deleting)
    <3>1. /\ pc \notin LeavingCalls => Working(copy)
          /\ copy.exists /\ (copy.deleting \/ copy.finalizer)
      BY DEF ObjectInv, Entitled, LeavingCalls, EarlyCalls, DeletionCalls, Working
    <3> QED
      BY <3>1, <2>1 DEF Alike, Untouched, Guarded, Working
  <2>3. StatusMoves
    BY <1>1, <2>1, <2>2, <1>a DEF StatusMoves, SameFlags
  <2>4. CopyMoves
    BY <1>1, <2>1, EndMoves DEF CopyMoves, Hold
  <2> QED
    BY <2>3, <2>4 DEF StackMoves
<1>2. CASE /\ UNCHANGED apiVars
           /\ \/ copyCurrent /\ Hold(otherwise, new, TRUE)
              \/ ~copyCurrent /\ Hold(otherwise, new, FALSE)
  <2>1. CASE otherwise = "idle"
    BY <2>1, <1>2, EndMoves DEF StackMoves, CopyMoves, apiVars
  <2>2. CASE otherwise # "idle"
    BY <2>2, <1>2, <1>a DEF StackMoves, CopyMoves, apiVars, Hold
  <2> QED
    BY <2>1, <2>2
<1> QED
  BY <1>1, <1>2 DEF StatusUpdate, new, put

\* An Update of a stack in use.
LEMMA SpecUpdateMoves ==
  ASSUME TypeOK, ObjectInv, NEW c \in PRStack, c.finalizer, NEW next,
         SpecUpdate(c, next, "idle"), copy.exists, ~copy.deleting
  PROVE  StackMoves /\ CopyMoves
<1>1. CASE copyCurrent /\ Store(Stored(c)) /\ Hold(next, Stored(c), TRUE)
  <2>1. /\ stack' = Stored(c) /\ cached' = cached
        /\ Alike(copy, stack) /\ NotFarBehind(cached, stack)
    BY <1>1 DEF Store, ObjectInv
  <2>2. stack.exists /\ ~stack.deleting /\ ~cached.deleting
    BY <2>1 DEF Alike, NotFarBehind
  <2>3. /\ Stored(c).exists /\ ~Stored(c).deleting /\ Stored(c).finalizer
        /\ Stored(c).status = stack.status /\ Stored(c).deployedAt = stack.deployedAt
    BY <2>2 DEF Stored, TypeOK, ApiOK, PRStack
  <2>4. SpecMoves
    BY <2>1, <2>2, <2>3 DEF SpecMoves
  <2>5. CopyMoves
    BY <1>1, <2>1, EndMoves DEF CopyMoves, Hold
  <2> QED
    BY <2>4, <2>5 DEF StackMoves
<1>2. CASE UNCHANGED apiVars /\ \E current \in BOOLEAN : Hold("idle", c, current)
  BY <1>2, EndMoves DEF StackMoves, CopyMoves, apiVars
<1> QED
  BY <1>1, <1>2 DEF SpecUpdate

\* A call that does not write the object.
LEMMA GotoMoves ==
  ASSUME UNCHANGED apiVars,
         (\E next : Goto(next)) \/ UNCHANGED <<copy, copyCurrent>>
  PROVE  StackMoves /\ CopyMoves
<1>1. UNCHANGED stack /\ cached' = cached
  BY DEF apiVars
<1>2. ASSUME NEW next, Goto(next)
      PROVE  \/ copy' = NoStack /\ pc' = "idle" /\ copyCurrent' = FALSE
             \/ UNCHANGED <<copy, copyCurrent>>
  BY <1>2, EndMoves DEF Goto, Hold
<1>3. \/ copy' = NoStack /\ pc' = "idle" /\ copyCurrent' = FALSE
      \/ UNCHANGED <<copy, copyCurrent>>
  BY <1>2
<1> QED
  BY <1>1, <1>3 DEF StackMoves, CopyMoves

\* The steps of Reconcile.
LEMMA ReconcileMoves == TypeOK /\ ObjectInv /\ ReconcileNext => StackMoves /\ CopyMoves
<1> SUFFICES ASSUME TypeOK, ObjectInv, ReconcileNext PROVE StackMoves /\ CopyMoves
  OBVIOUS
<1>a. copy \in PRStack /\ copy.status \in Status
  BY DEF TypeOK, WorkerOK, PRStack
<1>b. {"setCreatedAt", "checkReactivation", "checkExpiration", "scaleDown", "checkHealth",
       "rollout", "recordRolloutError"} \intersect LeavingCalls = {}
  BY DEF LeavingCalls, DeletionCalls, CleanupCalls
<1>1. CASE FetchPRStack
  <2>1. Hold(AfterGet(cached), cached, cacheCurrent) /\ pc = "idle" /\ UNCHANGED apiVars
    BY <1>1 DEF FetchPRStack
  <2>2. cacheCurrent => cached = stack
    BY DEF ObjectInv
  <2> QED
    BY <2>1, <2>2, EndMoves DEF Hold, StackMoves, CopyMoves, apiVars
<1>2. CASE AddFinalizer
  <2>1. /\ [copy EXCEPT !.finalizer = TRUE] \in PRStack
        /\ [copy EXCEPT !.finalizer = TRUE].finalizer
    BY <1>a DEF PRStack
  <2>2. copy.exists /\ ~copy.deleting
    BY <1>2 DEF AddFinalizer, ObjectInv, Entitled
  <2> QED
    BY <2>1, <2>2, <1>2, SpecUpdateMoves DEF AddFinalizer
<1>3. CASE SetCreatedAt
  BY <1>3, <1>b, StatusUpdateMoves DEF SetCreatedAt
<1>4. CASE CheckReactivation
  BY <1>4, <1>b, StatusUpdateMoves, GotoMoves DEF CheckReactivation
<1>5. CASE CheckExpiration
  <2>1. /\ [copy EXCEPT !.active = FALSE] \in PRStack
        /\ [copy EXCEPT !.active = FALSE].finalizer = copy.finalizer
    BY <1>a DEF PRStack
  <2>2. Working(copy)
    BY <1>5 DEF CheckExpiration, ObjectInv, Entitled, DeletionCalls, CleanupCalls, EarlyCalls
  <2>3. CASE IsStackExpired(copy.status) /\ copy.active
    BY <2>1, <2>2, <2>3, <1>5, SpecUpdateMoves DEF CheckExpiration, Working
  <2>4. CASE ~(IsStackExpired(copy.status) /\ copy.active)
    BY <2>4, <1>5, GotoMoves DEF CheckExpiration
  <2> QED
    BY <2>3, <2>4
<1>6. CASE MarkInactive
  BY <1>6, <1>b, StatusUpdateMoves DEF MarkInactive
<1>7. CASE CheckHealth
  <2>1. CASE copy.status.unhealthy
    BY <2>1, <1>7, <1>b, StatusUpdateMoves DEF CheckHealth
  <2>2. CASE ~copy.status.unhealthy
    BY <2>2, <1>7, GotoMoves DEF CheckHealth, Goto, Hold
  <2> QED
    BY <2>1, <2>2
<1>8. CASE RecordRollout
  BY <1>8, <1>b, StatusUpdateMoves DEF RecordRollout
<1>9. CASE RecordRolloutError
  BY <1>9, <1>b, StatusUpdateMoves DEF RecordRolloutError
<1>10. CASE UpdateStatusWithError
  <2>1. FailedStatus(copy.status).phase \in Leaving
    BY <1>a DEF FailedStatus, Status, Leaving
  <2> QED
    BY <2>1, <1>10, StatusUpdateMoves DEF UpdateStatusWithError
<1>11. CASE \/ ListForScaleDown \/ ScaleDown \/ CheckReplicas \/ ScaleUp
            \/ ListForRollout \/ RolloutDeployment
  BY <1>11, GotoMoves
     DEF ListForScaleDown, ScaleDown, ScaleDownFails, CheckReplicas, ScaleUp,
         ListForRollout, RolloutDeployment, RolloutFails, ItemFails, CallFails,
         StartLoop, LoopOn
<1> QED
  BY <1>1, <1>2, <1>3, <1>4, <1>5, <1>6, <1>7, <1>8, <1>9, <1>10, <1>11
     DEF ReconcileNext

\* The steps of the other handlers.
LEMMA HandlerMoves ==
  TypeOK /\ ObjectInv /\ (ProvisionNext \/ DeployNext \/ CleanupNext)
    => StackMoves /\ CopyMoves
<1> SUFFICES ASSUME TypeOK, ObjectInv, ProvisionNext \/ DeployNext \/ CleanupNext
             PROVE  StackMoves /\ CopyMoves
  OBVIOUS
<1>a. copy \in PRStack /\ copy.status \in Status
  BY DEF TypeOK, WorkerOK, PRStack
<1>b. {"reactivate", "initialize", "saveCredentials", "finishProvisioning", "createServices"}
         \intersect LeavingCalls = {}
  BY DEF LeavingCalls, DeletionCalls, CleanupCalls
<1>1. CASE Reactivate \/ HandleInitialization \/ FinishProvisioning \/ FinishDeployment
  BY <1>1, <1>b, StatusUpdateMoves
     DEF Reactivate, HandleInitialization, FinishProvisioning, FinishDeployment
<1>2. CASE SaveCredentials
  <2>1. /\ WithCredentials(copy.status).phase = copy.status.phase
        /\ copy.status.phase = "Provisioning"
    BY <1>2, <1>a
       DEF SaveCredentials, WithCredentials, Status, ObjectInv, Entitled, ProvisionCalls
  <2> QED
    BY <2>1, <1>2, <1>b, StatusUpdateMoves DEF SaveCredentials
<1>3. CASE MarkCleaning
  <2>1. [copy.status EXCEPT !.phase = "Cleaning"].phase \in Leaving
    BY <1>a DEF Status, Leaving
  <2> QED
    BY <2>1, <1>3, StatusUpdateMoves DEF MarkCleaning
<1>4. CASE MarkCleaned
  <2>1. [copy.status EXCEPT !.phase = "Cleaned"].phase \in Leaving
    BY <1>a DEF Status, Leaving
  <2> QED
    BY <2>1, <1>4, StatusUpdateMoves DEF MarkCleaned
<1>5. CASE RemoveFinalizer
  <2> DEFINE c == [copy EXCEPT !.finalizer = FALSE]
  <2>1. copy.deleting /\ ~c.finalizer
    BY <1>5, <1>a
       DEF RemoveFinalizer, ObjectInv, Entitled, DeletionCalls, CleanupCalls, PRStack
  <2> HIDE DEF c
  <2>2. CASE copyCurrent /\ Store(Stored(c)) /\ Hold("idle", Stored(c), TRUE)
    <3>1. stack.deleting
      BY <2>1, <2>2 DEF ObjectInv, Alike
    <3>2. stack' = NoStack /\ cached' = cached
      BY <2>1, <2>2, <3>1 DEF Store, Stored
    <3> QED
      BY <3>2, <2>2, <1>5, EndMoves DEF RemoveFinalizer, StackMoves, RemovalMoves, CopyMoves
  <2>3. CASE UNCHANGED apiVars /\ \E current \in BOOLEAN : Hold("idle", c, current)
    BY <2>3, EndMoves DEF StackMoves, CopyMoves, apiVars
  <2> QED
    BY <2>2, <2>3, <1>5 DEF RemoveFinalizer, SpecUpdate, c
<1>6. CASE \/ CreateNamespace \/ DropUser \/ CreateUser \/ CreateCollections
           \/ CreateMongoDBSecret \/ CreateRegistrySecret \/ CreateMongoDBResources
  BY <1>6, GotoMoves
     DEF CreateNamespace, DropUser, CreateUser, CreateCollections, CreateMongoDBSecret,
         CreateRegistrySecret, CreateMongoDBResources, WriteSecret, CallFails
<1>7. CASE \/ CreateNATSResources \/ CreateRedisResources \/ EnsureBackupStorage
           \/ CreateServiceDeployment
  BY <1>7, GotoMoves
     DEF CreateNATSResources, CreateRedisResources, DeployInfra, EnsureBackupStorage,
         CreateServiceDeployment, CallFails, StartLoop
<1>8. CASE CreateBackup \/ CleanupAllMongoDB \/ CleanupMongoDBAgain
  BY <1>8, GotoMoves
     DEF CreateBackup, CleanupAllMongoDB, CleanupMongoDBAgain, CleanupMongoDB
<1>9. CASE \/ CleanupAllNATS \/ CleanupAllRedis \/ CleanupNATS \/ CleanupRedis
           \/ CleanupAllServices
  BY <1>9, GotoMoves
     DEF CleanupAllNATS, CleanupAllRedis, CleanupNATS, CleanupRedis,
         CleanupDeployment, CleanupAllServices, CleanupServices
<1> QED
  BY <1>1, <1>2, <1>3, <1>4, <1>5, <1>6, <1>7, <1>8, <1>9
     DEF ProvisionNext, DeployNext, CleanupNext

\* Every step.
LEMMA NextMoves == TypeOK /\ ObjectInv /\ [Next]_vars => StackMoves /\ CopyMoves
<1> SUFFICES ASSUME TypeOK, ObjectInv, [Next]_vars PROVE StackMoves /\ CopyMoves
  OBVIOUS
<1>a. stack \in PRStack
  BY DEF TypeOK, ApiOK
<1>1. CASE Worker
  BY <1>1, ReconcileMoves, HandlerMoves DEF Worker
<1>2. CASE Crash
  BY <1>2 DEF Crash, EndReconcile, HoldNothing, StackMoves, CopyMoves
<1>3. CASE User
  <2>1. UNCHANGED <<cached, copy, pc>> /\ ~copyCurrent'
    BY <1>3 DEF User, SetActive, SetDeployedAt, DeleteStack, CreateStack, UserStore
  <2>2. CopyMoves
    BY <2>1 DEF CopyMoves
  <2>3. ASSUME NEW active, SetActive(active) PROVE UserMoves
    <3> DEFINE c == [stack EXCEPT !.active = active]
    <3>1. /\ c.exists = stack.exists /\ c.deleting = stack.deleting
          /\ c.finalizer = stack.finalizer /\ c.status = stack.status
          /\ c.deployedAt >= stack.deployedAt
      BY <1>a, BoundsAssumption DEF PRStack
    <3>2. stack' = c
      BY <2>3 DEF SetActive, UserStore
    <3> HIDE DEF c
    <3> QED
      BY <3>1, <3>2, <2>1 DEF UserMoves, SameFlags
  <2>4. CASE SetDeployedAt
    <3> DEFINE c == [stack EXCEPT !.deployedAt = @ + 1]
    <3>1. /\ c.exists = stack.exists /\ c.deleting = stack.deleting
          /\ c.finalizer = stack.finalizer /\ c.status = stack.status
          /\ c.deployedAt >= stack.deployedAt
      BY <1>a, BoundsAssumption DEF PRStack
    <3>2. stack' = c
      BY <2>4 DEF SetDeployedAt, UserStore
    <3> HIDE DEF c
    <3> QED
      BY <3>1, <3>2, <2>1, <2>2 DEF StackMoves, UserMoves, SameFlags
  <2>5. CASE DeleteStack
    <3> DEFINE c == [stack EXCEPT !.deleting = TRUE]
    <3>1. /\ c.exists = stack.exists /\ c.deleting
          /\ c.finalizer = stack.finalizer /\ c.status = stack.status
          /\ c.deployedAt = stack.deployedAt
      BY <1>a DEF PRStack
    <3>2. /\ stack.exists /\ ~stack.deleting
          /\ stack' = IF stack.finalizer THEN c ELSE NoStack
      BY <2>5 DEF DeleteStack, UserStore
    <3> HIDE DEF c
    <3> QED
      BY <3>1, <3>2, <2>1, <2>2, NoStackFacts DEF StackMoves, UserMoves, Guarded
  <2>6. CASE \E active \in BornActive : CreateStack(active)
    <3>1. ~stack.finalizer
      BY <2>6, NoStackFacts DEF CreateStack, ObjectInv
    <3>2. ~stack'.finalizer /\ stack'.status = NoStatus
      BY <2>6, NoStackFacts DEF CreateStack, UserStore, NewStack, NoStack
    <3> QED
      BY <3>1, <3>2, <2>1, <2>2 DEF StackMoves, UserMoves
  <2> QED
    BY <2>2, <2>3, <2>4, <2>5, <2>6, <1>3 DEF User, StackMoves
<1>4. CASE Cluster \/ Clock \/ UNCHANGED vars
  BY <1>4
     DEF Cluster, PurgeNamespace, CompleteBackup, Clock, Tick, vars, apiVars,
         workerVars, StackMoves, CopyMoves
<1>5. CASE Watch
  BY <1>5 DEF Watch, SyncCache, workerVars, StackMoves, CopyMoves
<1> QED
  BY <1>1, <1>2, <1>3, <1>4, <1>5 DEF Next

-----------------------------------------------------------------------------
(* A cleanup that is under way shows in the phase *)

\* What a version that is being deleted, and may be old, says of the phase.
LeavingAs(c, s) ==
  c.exists /\ c.deleting =>
    ~s.finalizer \/ s.status.phase \in Leaving \/ s.status.phase = c.status.phase

\* Nothing has been reported of a stack without the finalizer.
Unreported(s) == ~s.finalizer => ~s.status.ready

LeavingInv ==
  LeavingAs(cached, stack) /\ LeavingAs(copy, stack) /\ Unreported(stack)

\* An old version goes on saying so, whatever is written.
LEMMA StillLeavingAs ==
  ASSUME ObjectInv, LeavingInv, StackMoves, NEW c \in {cached, copy}
  PROVE  LeavingAs(c, stack') \/ SpecMoves
<1>a. LeavingAs(c, stack) /\ AsOld(c, stack) /\ Untouched(stack)
  BY DEF ObjectInv, LeavingInv
<1>1. CASE StatusMoves
  <2>1. CASE pc \in LeavingCalls
    BY <2>1, <1>1 DEF StatusMoves, LeavingAs
  <2>2. CASE pc \notin LeavingCalls
    BY <2>2, <1>1, <1>a DEF StatusMoves, SameFlags, Guarded, AsOld, LeavingAs
  <2> QED
    BY <2>1, <2>2
<1>2. CASE RemovalMoves
  BY <1>2, NoStackFacts DEF RemovalMoves, LeavingAs
<1>3. CASE UserMoves
  BY <1>3, <1>a DEF UserMoves, SameFlags, Guarded, AsOld, LeavingAs
<1> QED
  BY <1>1, <1>2, <1>3, <1>a DEF StackMoves, LeavingAs

\* The invariant is inductive.
LEMMA NextLeaving ==
  TypeOK /\ ObjectInv /\ LeavingInv /\ [Next]_vars => LeavingInv'
<1> SUFFICES ASSUME TypeOK, ObjectInv, LeavingInv, StackMoves, CopyMoves PROVE LeavingInv'
  BY NextMoves
<1>1. Unreported(stack)'
  <2>1. NoStack.status.ready = FALSE /\ NoStatus.ready = FALSE
    BY DEF NoStack, NoStatus
  <2>2. CASE StatusMoves \/ SpecMoves
    BY <2>2 DEF StatusMoves, SpecMoves, SameFlags, Guarded, Unreported
  <2>3. CASE UNCHANGED stack \/ RemovalMoves
    BY <2>1, <2>3 DEF RemovalMoves, LeavingInv, Unreported
  <2>4. CASE UserMoves
    BY <2>1, <2>4 DEF UserMoves, SameFlags, Guarded, LeavingInv, Unreported
  <2> QED
    BY <2>2, <2>3, <2>4 DEF StackMoves
<1>2. LeavingAs(cached, stack)'
  <2>1. CASE cached' = cached
    BY <2>1, StillLeavingAs DEF SpecMoves, LeavingAs
  <2>2. CASE UNCHANGED stack /\ cached' = stack
    BY <2>2 DEF LeavingAs
  <2> QED
    BY <2>1, <2>2 DEF CopyMoves
<1>3. LeavingAs(copy, stack)'
  <2>1. CASE copy' = NoStack \/ copy' = stack'
    BY <2>1, NoStackFacts DEF LeavingAs
  <2>2. CASE copy' = cached /\ UNCHANGED stack
    BY <2>2 DEF LeavingInv
  <2>3. CASE /\ copy'.exists = copy.exists /\ copy'.deleting = copy.deleting
             /\ copy'.status.phase = copy.status.phase
    <3>1. CASE LeavingAs(copy, stack')
      BY <3>1, <2>3 DEF LeavingAs
    <3>2. CASE SpecMoves
      BY <3>2, <2>3 DEF SpecMoves, LeavingAs
    <3> QED
      BY <3>1, <3>2, StillLeavingAs
  <2> QED
    BY <2>1, <2>2, <2>3 DEF CopyMoves
<1> QED
  BY <1>1, <1>2, <1>3 DEF LeavingInv

\* Every reachable state has it.
LEMMA LeavingInvariant == Spec => []LeavingInv
<1>1. Init => LeavingInv
  <2> SUFFICES ASSUME Init PROVE LeavingInv
    OBVIOUS
  <2>1. PICK active \in BornActive : stack = NewStack(active)
    BY DEF Init
  <2>2. stack.deleting = FALSE /\ stack.status.ready = FALSE
    BY <2>1 DEF NewStack, NoStack, NoStatus
  <2> QED
    BY <2>2, NoStackFacts DEF Init, LeavingInv, LeavingAs, Unreported
<1> QED
  BY <1>1, NextLeaving, TypeCorrect, ObjectInvariant, PTL DEF Spec

\* What the cleanup finds: a stack that is being cleaned, or a new one that has
\* nothing yet.
LEMMA CleanupFinds ==
  ASSUME TypeOK, ObjectInv, LeavingInv, pc \in CleanupCalls
  PROVE  \/ /\ stack.exists /\ stack.finalizer /\ stack.deleting
            /\ stack.status.phase \in Leaving
         \/ ~stack.finalizer /\ ~stack.status.ready /\ stack.status.phase = ""
<1>1. copy.exists /\ copy.deleting /\ copy.status.phase \in Leaving
  BY DEF ObjectInv, Entitled, DeletionCalls, CleanupCalls, Leaving
<1>2. CASE stack.finalizer
  <2>1. stack.exists
    BY <1>2, NoStackFacts DEF ObjectInv
  <2> QED
    BY <1>1, <1>2, <2>1 DEF ObjectInv, AsOld, LeavingInv, LeavingAs
<1>3. CASE ~stack.finalizer
  BY <1>3 DEF ObjectInv, Untouched, LeavingInv, Unreported
<1> QED
  BY <1>2, <1>3

-----------------------------------------------------------------------------
(* Cleaned is true to the end *)

\* Whoever knows of a stack that reports Cleaned knows that it is being deleted.
CleanedInv ==
  /\ CleanedIsClean
  /\ stack.status.phase = "Cleaned" =>
       cached.deleting /\ (copy.exists => copy.deleting)

\* A status write that keeps the phase, or sets another one.
LEMMA StatusUpdateNotCleaned ==
  ASSUME TypeOK, ObjectInv, NEW status, NEW next, NEW otherwise,
         StatusUpdate(status, next, otherwise),
         status.phase = "Cleaned" => copy.status.phase = "Cleaned",
         stack'.status.phase = "Cleaned"
  PROVE  stack.status.phase = "Cleaned"
BY StatusUpdateStored DEF Alike

\* An Update keeps the phase, or ends with the object.
LEMMA SpecUpdateNotCleaned ==
  ASSUME TypeOK, NEW c, NEW next, NEW otherwise, SpecUpdate(c, next, otherwise),
         stack'.status.phase = "Cleaned"
  PROVE  stack.status.phase = "Cleaned"
<1>1. stack' = stack \/ stack' = Stored(c)
  BY DEF SpecUpdate, Store, apiVars
<1>2. Stored(c) = NoStack \/ Stored(c).status = stack.status
  BY DEF Stored, TypeOK, ApiOK, PRStack
<1>3. NoStack.status.phase = ""
  BY NoStackFacts
<1> QED
  BY <1>1, <1>2, <1>3

\* Only the end of a cleanup is reported as Cleaned.
LEMMA CleanedWritten ==
  ASSUME TypeOK, ObjectInv, [Next]_vars, stack'.status.phase = "Cleaned"
  PROVE  stack.status.phase = "Cleaned" \/ MarkCleaned
<1>a. copy \in PRStack /\ copy.status \in Status
  BY DEF TypeOK, WorkerOK, PRStack
<1>b. UNCHANGED stack => stack.status.phase = "Cleaned"
  OBVIOUS
<1>c. NoStatus.phase = "" /\ NoStack.status.phase = ""
  BY NoStackFacts
<1>1. CASE QuietWork
  <2>1. CASE FetchPRStack \/ CheckReplicas \/ CreateCollections
              \/ CreateMongoDBSecret \/ CreateRegistrySecret \/ CreateMongoDBResources
              \/ EnsureBackupStorage \/ CreateBackup
    BY <2>1, <1>b
       DEF FetchPRStack, CheckReplicas, CreateCollections, CreateMongoDBSecret,
           CreateRegistrySecret, CreateMongoDBResources, WriteSecret,
           EnsureBackupStorage, CreateBackup, CallFails, StartLoop, apiVars
  <2>2. CASE AddFinalizer \/ CheckExpiration
    BY <2>2, <1>b, SpecUpdateNotCleaned DEF AddFinalizer, CheckExpiration, apiVars
  <2>3. CASE SetCreatedAt
    BY <2>3, <1>a, StatusUpdateNotCleaned DEF SetCreatedAt, Status
  <2>4. CASE CheckReactivation
    BY <2>4, <1>a, <1>b, StatusUpdateNotCleaned DEF CheckReactivation, Status, apiVars
  <2>5. CASE CheckHealth
    BY <2>5, <1>b, StatusUpdateNotCleaned DEF CheckHealth, apiVars
  <2>6. CASE RecordRolloutError
    BY <2>6, StatusUpdateNotCleaned DEF RecordRolloutError
  <2>7. CASE UpdateStatusWithError
    BY <2>7, <1>a, StatusUpdateNotCleaned DEF UpdateStatusWithError, FailedStatus, Status
  <2>8. CASE Reactivate \/ HandleInitialization \/ MarkCleaning
    BY <2>8, <1>a, StatusUpdateNotCleaned
       DEF Reactivate, HandleInitialization, MarkCleaning, Status
  <2>9. CASE SaveCredentials
    BY <2>9, <1>a, StatusUpdateNotCleaned DEF SaveCredentials, WithCredentials, Status
  <2>10. CASE FinishProvisioning
    BY <2>10, <1>a, StatusUpdateNotCleaned DEF FinishProvisioning, Provisioned, Status
  <2>11. CASE FinishDeployment
    <3>1. DeployedStatus(copy.status).phase \in {"Failed", "Degraded", "Running"}
      BY <1>a DEF DeployedStatus, PhaseAfterDeployment, Status
    <3> QED
      BY <3>1, <2>11, StatusUpdateNotCleaned DEF FinishDeployment
  <2> QED
    BY <2>1, <2>2, <2>3, <2>4, <2>5, <2>6, <2>7, <2>8, <2>9, <2>10, <2>11, <1>1
       DEF QuietWork
<1>2. CASE RecordRollout
  BY <1>2, <1>a, StatusUpdateNotCleaned DEF RecordRollout, RolledOut, Status
<1>3. CASE MarkInactive
  BY <1>3, <1>a, StatusUpdateNotCleaned DEF MarkInactive, Status
<1>4. CASE RemoveFinalizer
  BY <1>4, SpecUpdateNotCleaned DEF RemoveFinalizer
<1>5. CASE Worker
  BY <1>1, <1>2, <1>3, <1>4, <1>5, <1>b, WorkWithoutWrite
<1>6. CASE User
  <2>1. CASE \E active \in BOOLEAN : SetActive(active)
    BY <2>1 DEF SetActive, UserStore, TypeOK, ApiOK, PRStack
  <2>2. CASE SetDeployedAt \/ DeleteStack
    BY <2>2, <1>c DEF SetDeployedAt, DeleteStack, UserStore, TypeOK, ApiOK, PRStack
  <2>3. CASE \E active \in BornActive : CreateStack(active)
    BY <2>3, <1>c DEF CreateStack, UserStore, NewStack, NoStack
  <2> QED
    BY <2>1, <2>2, <2>3, <1>6 DEF User
<1>7. CASE Crash \/ Cluster \/ Watch \/ Clock \/ UNCHANGED vars
  BY <1>7
     DEF Crash, Cluster, PurgeNamespace, CompleteBackup, Watch, SyncCache, Clock, Tick,
         apiVars, workerVars, vars
<1> QED
  BY <1>5, <1>6, <1>7 DEF Next

\* What a stack holds, it takes hold of while it is being provisioned.
LEMMA TakenInProvisioning ==
  ASSUME TypeOK, ObjectInv, [Next]_vars, pc \notin ProvisionCalls
  PROVE  /\ namespace' = "active" => namespace = "active"
         /\ mongoUser' # Nil => mongoUser # Nil
<1>a. UNCHANGED clusterVars => UNCHANGED <<namespace, mongoUser>>
  BY DEF clusterVars, k8sVars, mongoVars
<1>1. CASE QuietWork
  BY <1>1, QuietWorkQuiet DEF Quiet, heldVars
<1>2. CASE ReconcileNext /\ ~QuietWork
  BY <1>2, <1>a
     DEF ReconcileNext, QuietWork, ListForScaleDown, ListForRollout, StartLoop, CallFails,
         ScaleDown, ScaleDownFails, ScaleUp, RolloutDeployment, RolloutFails, ItemFails,
         MarkInactive, RecordRollout, mongoVars
<1>3. CASE ProvisionNext /\ ~QuietWork
  BY <1>3
     DEF ProvisionNext, QuietWork, CreateNamespace, DropUser, CreateUser, ProvisionCalls
<1>4. CASE DeployNext /\ ~QuietWork
  BY <1>4
     DEF DeployNext, QuietWork, CreateNATSResources, CreateRedisResources, DeployInfra,
         CreateServiceDeployment, CallFails, mongoVars
<1>5. CASE CleanupNext /\ ~QuietWork
  BY <1>5, <1>a
     DEF CleanupNext, QuietWork, CleanupAllMongoDB, CleanupAllNATS, CleanupAllRedis,
         CleanupAllServices, CleanupMongoDBAgain, CleanupNATS, CleanupRedis,
         CleanupMongoDB, CleanupDeployment, CleanupServices, MarkCleaned,
         RemoveFinalizer, k8sVars, mongoVars
<1>6. CASE Crash \/ User \/ CompleteBackup \/ Watch \/ Clock
  BY <1>6, OutsideQuiet DEF heldVars
<1>7. CASE PurgeNamespace \/ UNCHANGED vars
  BY <1>7
     DEF PurgeNamespace, vars, clusterVars, k8sVars, mongoVars
<1> QED
  BY <1>1, <1>2, <1>3, <1>4, <1>5, <1>6, <1>7 DEF Next, Worker, Cluster

\* The invariant is inductive.
LEMMA NextCleaned ==
  TypeOK /\ ObjectInv /\ HoldingInv /\ CleanedInv /\ [Next]_vars => CleanedInv'
<1> SUFFICES ASSUME TypeOK, ObjectInv, HoldingInv, CleanedInv, [Next]_vars,
                    stack'.status.phase = "Cleaned"
             PROVE  /\ namespace' # "active" /\ mongoUser' = Nil
                    /\ cached'.deleting /\ (copy'.exists => copy'.deleting)
  BY DEF CleanedInv, CleanedIsClean
<1>a. StackMoves /\ CopyMoves /\ Doomed(stack')
  BY NextMoves, NextObject DEF ObjectInv, Doomed
<1>1. CASE stack.status.phase = "Cleaned"
  <2>1. namespace # "active" /\ mongoUser = Nil
    BY <1>1 DEF CleanedInv, CleanedIsClean
  <2>2. pc \notin ProvisionCalls
    BY <1>1
       DEF CleanedInv, ObjectInv, Entitled, Working, ProvisionCalls, DeletionCalls,
           CleanupCalls, EarlyCalls
  <2>3. cached'.deleting
    BY <1>1, <1>a DEF CleanedInv, CopyMoves, Doomed
  <2>4. copy'.exists => copy'.deleting
    BY <1>1, <1>a, NoStackFacts DEF CleanedInv, CopyMoves, Doomed
  <2> QED
    BY <2>1, <2>2, <2>3, <2>4, TakenInProvisioning
<1>2. CASE MarkCleaned /\ stack.status.phase # "Cleaned"
  <2>1. pc \in LastCalls /\ UNCHANGED <<namespace, mongoUser>>
    BY <1>2
       DEF MarkCleaned, LastCalls, LateCalls, clusterVars, k8sVars, mongoVars
  <2>2. copyCurrent /\ UNCHANGED cached
    BY <1>2 DEF MarkCleaned, StatusUpdate, Store, apiVars
  <2>3. stack.deleting /\ cached.deleting /\ copy.deleting
    BY <2>2, <1>2
       DEF MarkCleaned, ObjectInv, Entitled, DeletionCalls, CleanupCalls, Alike,
           NotFarBehind
  <2>4. copy'.exists => copy'.deleting
    BY <2>3, <1>a, NoStackFacts DEF CopyMoves, Doomed
  <2> QED
    BY <2>1, <2>2, <2>3, <2>4 DEF HoldingInv, LastCalls
<1> QED
  BY <1>1, <1>2, CleanedWritten

\* A stack that reports that all its resources have been cleaned up has neither
\* namespace nor MongoDB user, nor gets them again from a reconcile of an older
\* version, when the cleanup notices every error it meets.
THEOREM CleanedIsTrue ==
  ASSUME ~SilentErrors
  PROVE  Spec => []CleanedIsClean
<1>1. Init => CleanedInv
  <2> SUFFICES ASSUME Init PROVE CleanedInv
    OBVIOUS
  <2>1. stack.status.phase = ""
    BY NoStackFacts DEF Init, NewStack, NoStack
  <2> QED
    BY <2>1 DEF CleanedInv, CleanedIsClean
<1>2. CleanedInv => CleanedIsClean
  BY DEF CleanedInv
<1> QED
  BY <1>1, <1>2, NextCleaned, TypeCorrect, ObjectInvariant, HoldingInvariant, PTL
     DEF Spec

-----------------------------------------------------------------------------
(* A terminating namespace is no place to start in *)

Going(s) == s.exists /\ s.finalizer /\ s.deleting /\ s.status.phase \in Leaving

\* The calls that are only made when NATS is gone.
EmptyCalls == {"cleanupRedis", "markCleaned", "removeFinalizer"}

NATSGone == replicas["nats"] = Absent

EmptiedInv ==
  /\ namespace = "terminating" => NATSGone \/ Going(stack)
  /\ pc \in EmptyCalls => NATSGone

\* A stack that is going goes on, until NATS is gone.
LEMMA StillGoing ==
  ASSUME ObjectInv, EmptiedInv, StackMoves, Going(stack)
  PROVE  Going(stack') \/ NATSGone
<1>1. CASE StatusMoves
  BY <1>1 DEF StatusMoves, SameFlags, Going
<1>2. CASE RemovalMoves
  BY <1>2 DEF RemovalMoves, EmptiedInv, EmptyCalls
<1> QED
  BY <1>1, <1>2 DEF StackMoves, SpecMoves, UserMoves, SameFlags, Guarded, Going

\* A step that brings no NATS deployment back.
LEMMA EmptiedRest ==
  ASSUME ObjectInv, EmptiedInv, StackMoves,
         namespace' = "terminating" => namespace = "terminating",
         NATSGone => NATSGone', pc' \in EmptyCalls => pc \in EmptyCalls \/ NATSGone'
  PROVE  EmptiedInv'
BY StillGoing DEF EmptiedInv, Going

\* The calls that leave the deployments where they are.
StandingCalls ==
  \/ QuietWork \/ ListForScaleDown \/ ScaleDown \/ MarkInactive \/ ScaleUp
  \/ ListForRollout \/ RolloutDeployment \/ RecordRollout
  \/ CreateNamespace \/ DropUser \/ CreateUser

\* They do, and none of them leads into the end of a cleanup.
LEMMA StandingCallsFacts ==
  TypeOK /\ ObjectInv /\ StandingCalls =>
    /\ namespace' \in {namespace, "active"}
    /\ namespace = "active" => namespace' = "active"
    /\ \A d \in Deployments : (replicas'[d] = Absent) = (replicas[d] = Absent)
    /\ pc' \notin LateCalls
<1> SUFFICES ASSUME TypeOK, ObjectInv, StandingCalls
             PROVE  /\ namespace' \in {namespace, "active"}
                    /\ namespace = "active" => namespace' = "active"
                    /\ \A d \in Deployments :
                         (replicas'[d] = Absent) = (replicas[d] = Absent)
                    /\ pc' \notin LateCalls
  OBVIOUS
<1>a. UNCHANGED clusterVars => UNCHANGED <<namespace, replicas>>
  BY DEF clusterVars, k8sVars
<1>b. {"scaleDown", "scaleUp", "rollout", "checkHealth", "idle", "updateStatusWithError",
       "recordRolloutError", "dropUser", "createUser", "createCollections"}
         \intersect LateCalls = {}
  BY DEF LateCalls
<1>1. CASE QuietWork
  BY <1>1, QuietWorkQuiet DEF Quiet, heldVars, Watched
<1>2. CASE ListForScaleDown \/ ListForRollout
  BY <1>2, <1>a, <1>b, HoldCall
     DEF ListForScaleDown, ListForRollout, StartLoop, CallFails, Goto
<1>3. CASE MarkInactive
  BY <1>3, <1>a, <1>b, StatusUpdateStored DEF MarkInactive
<1>4. CASE RecordRollout
  BY <1>4, <1>a, <1>b, StatusUpdateStored, DispatchUnwatched DEF RecordRollout, Watched
<1>5. CASE ScaleDown \/ ScaleUp
  <2>1. UNCHANGED namespace /\ pc' \notin LateCalls
    BY <1>5, <1>b, HoldCall
       DEF ScaleDown, ScaleDownFails, ScaleUp, ItemFails, LoopOn, Goto
  <2>2. \/ UNCHANGED replicas
        \/ \E d \in todo : \E n \in {0, 1} :
             replicas[d] # Absent /\ replicas' = [replicas EXCEPT ![d] = n]
    BY <1>5 DEF ScaleDown, ScaleUp
  <2>3. replicas \in [Deployments -> {0, 1, Absent}] /\ 0 # Absent /\ 1 # Absent
    BY DEF TypeOK, ClusterOK, Absent
  <2> QED
    BY <2>1, <2>2, <2>3
<1>6. CASE RolloutDeployment
  BY <1>6, <1>b, HoldCall
     DEF RolloutDeployment, RolloutFails, ItemFails, LoopOn, Goto
<1>7. CASE CreateNamespace \/ DropUser \/ CreateUser
  BY <1>7, <1>b, HoldCall
     DEF CreateNamespace, DropUser, CreateUser, CallFails, Goto, k8sVars
<1> QED
  BY <1>1, <1>2, <1>3, <1>4, <1>5, <1>6, <1>7 DEF StandingCalls

\* The invariant is inductive, when the cleanup notices every error it meets.
LEMMA NextEmptied ==
  ASSUME ~SilentErrors
  PROVE  TypeOK /\ ObjectInv /\ HoldingInv /\ LeavingInv /\ EmptiedInv /\ [Next]_vars
           => EmptiedInv'
<1> SUFFICES ASSUME TypeOK, ObjectInv, HoldingInv, LeavingInv, EmptiedInv, [Next]_vars,
                    StackMoves
             PROVE  EmptiedInv'
  BY NextMoves
<1>a. /\ EmptyCalls \subseteq LateCalls
      /\ {"idle", "updateStatusWithError", "createRedisResources", "ensureBackupStorage",
          "createServices", "all.nats", "all.redis", "all.services", "cleanupMongoDB",
          "cleanupNATS"} \intersect EmptyCalls = {}
  BY DEF EmptyCalls, LateCalls
<1>b. /\ "nats" \in Deployments /\ replicas \in [Deployments -> {0, 1, Absent}]
      /\ "redis" \in Deployments /\ "redis" # "nats"
  BY InfraDeployed DEF TypeOK, ClusterOK
<1>c. UNCHANGED clusterVars => UNCHANGED <<namespace, replicas>>
  BY DEF clusterVars, k8sVars
<1>1. CASE StandingCalls
  BY <1>1, <1>a, <1>b, StandingCallsFacts, EmptiedRest DEF NATSGone
<1>2. CASE CreateNATSResources \/ CreateRedisResources \/ CreateServiceDeployment
  <2>1. UNCHANGED <<stack, namespace>> /\ pc' \notin EmptyCalls
    BY <1>2, <1>a, HoldCall
       DEF CreateNATSResources, CreateRedisResources, CreateServiceDeployment,
           DeployInfra, CallFails, Goto, apiVars
  <2>2. \/ UNCHANGED replicas
        \/ \E d \in Deployments : Deploy(d)
    BY <1>2, <1>b
       DEF CreateNATSResources, CreateRedisResources, CreateServiceDeployment,
           DeployInfra, TypeOK, WorkerOK
  <2>3. namespace = "terminating" /\ NATSGone => NATSGone'
    BY <2>2, <1>b DEF Deploy, Accepts, NATSGone
  <2> QED
    BY <2>1, <2>3 DEF EmptiedInv
<1>3. CASE CleanupAllMongoDB \/ CleanupMongoDBAgain
  <2>1. UNCHANGED <<namespace, replicas>> /\ pc' \notin EmptyCalls
    BY <1>3, <1>a, HoldCall
       DEF CleanupAllMongoDB, CleanupMongoDBAgain, CleanupMongoDB,
           MongoDBCleanupFailed, Goto, k8sVars
  <2> QED
    BY <2>1, EmptiedRest DEF NATSGone
<1>4. CASE CleanupAllNATS \/ CleanupAllRedis \/ CleanupRedis
  <2>1. /\ UNCHANGED namespace
        /\ \E d \in {"nats", "redis"} : Remove(d) \/ UNCHANGED replicas
        /\ pc' \in EmptyCalls => pc \in EmptyCalls
    BY <1>4, <1>a, HoldCall
       DEF CleanupAllNATS, CleanupAllRedis, CleanupRedis, CleanupDeployment, Goto,
           EmptyCalls
  <2>2. NATSGone => NATSGone'
    BY <2>1, <1>b DEF Remove, NATSGone
  <2> QED
    BY <2>1, <2>2, EmptiedRest
<1>5. CASE CleanupNATS
  <2>1. /\ UNCHANGED namespace
        /\ Remove("nats") \/ (UNCHANGED replicas /\ pc' = "updateStatusWithError")
    BY <1>5, HoldCall DEF CleanupNATS, CleanupDeployment, Goto
  <2>2. /\ NATSGone => NATSGone'
        /\ Remove("nats") => NATSGone'
    BY <2>1, <1>b DEF Remove, NATSGone
  <2> QED
    BY <2>1, <2>2, <1>a, EmptiedRest
<1>6. CASE CleanupAllServices
  <2>1. UNCHANGED <<stack, replicas>> /\ pc' \notin EmptyCalls /\ pc \in CleanupCalls
    BY <1>6, <1>a, HoldCall
       DEF CleanupAllServices, CleanupServices, Goto, apiVars, CleanupCalls
  <2>2. namespace = "active" => Going(stack)
    <3>1. namespace = "active" => stack.finalizer
      BY DEF HoldingInv, FinalizerGuards
    <3> QED
      BY <3>1, <2>1, CleanupFinds DEF Going
  <2>3. namespace' = "terminating" => namespace \in {"active", "terminating"}
    BY <1>6 DEF CleanupAllServices, CleanupServices
  <2> QED
    BY <2>1, <2>2, <2>3 DEF EmptiedInv, NATSGone
<1>7. CASE MarkCleaned \/ RemoveFinalizer
  <2>1. pc \in EmptyCalls
    BY <1>7 DEF MarkCleaned, RemoveFinalizer, EmptyCalls
  <2>2. UNCHANGED <<namespace, replicas>>
    BY <1>7, <1>c DEF MarkCleaned, RemoveFinalizer
  <2> QED
    BY <2>1, <2>2, EmptiedRest DEF NATSGone
<1>8. CASE Crash \/ User \/ CompleteBackup \/ Watch \/ Clock
  <2>1. UNCHANGED <<namespace, replicas>> /\ (pc' = "idle" \/ pc' = pc)
    BY <1>8, OutsideQuiet DEF heldVars
  <2> QED
    BY <2>1, <1>a, EmptiedRest DEF NATSGone
<1>9. CASE PurgeNamespace
  BY <1>9, <1>b DEF PurgeNamespace, NoDeployments, EmptiedInv, NATSGone
<1>10. CASE UNCHANGED vars
  BY <1>10, EmptiedRest DEF vars, clusterVars, k8sVars, workerVars, NATSGone
<1> QED
  BY <1>1, <1>2, <1>3, <1>4, <1>5, <1>6, <1>7, <1>8, <1>9, <1>10
     DEF Next, Worker, ReconcileNext, ProvisionNext, DeployNext, CleanupNext, Cluster,
         StandingCalls, QuietWork

\* Every reachable state has it.
LEMMA EmptiedInvariant ==
  ASSUME ~SilentErrors
  PROVE  Spec => []EmptiedInv
<1>1. Init => EmptiedInv
  BY DEF Init, EmptiedInv, EmptyCalls
<1> QED
  BY <1>1, NextEmptied, TypeCorrect, ObjectInvariant, HoldingInvariant,
     LeavingInvariant, PTL DEF Spec

-----------------------------------------------------------------------------
(* What is reported is there *)

\* The conditions of a stack that is well.
Well(status) == status.ready /\ ~status.degraded

\* The stack may rely on what it has: it is well, and not being cleaned.
Relied(s) == Well(s.status) /\ ~(s.deleting /\ s.status.phase \in Leaving)

Intact ==
  /\ namespace = "active" /\ Existing = Deployments /\ secret # Nil
  /\ BackupEnabled => claim

\* The calls of handleDeployment that come after mongodb-secret is written.
BuildCalls ==
  {"createNATSResources", "createRedisResources", "ensureBackupStorage", "createServices"}

\* What handleDeployment has made before the call it makes next.
Built ==
  /\ \/ pc = "createNATSResources" /\ namespace = "active"
     \/ pc \in BuildCalls \ {"createNATSResources"}
     => secret = copy.status.mongoDB /\ secretURI
  /\ pc \in BuildCalls \ {"createNATSResources"} =>
       namespace = "active" /\ replicas["nats"] # Absent
  /\ pc \in {"ensureBackupStorage", "createServices"} => replicas["redis"] # Absent
  /\ pc = "createServices" =>
       /\ BackupEnabled => claim
       /\ \A s \in Services : s \in todo \union failed \/ replicas[s] # Absent

\* The conditions the copy has are those of the stack.
SameConditions ==
  copy.status.ready = stack.status.ready /\ copy.status.degraded = stack.status.degraded

ReportsInv ==
  /\ Relied(stack) => Intact
  /\ stack.status.phase = "Running" => Well(stack.status) /\ secretURI
  /\ copyCurrent => SameConditions /\ Built
  /\ pc \in SavedCredentialsCalls => stack.status.phase = "Provisioning"

reportVars == <<namespace, replicas, secret, secretURI, claim>>

\* A status write that gives the stack no condition it did not have, or has
\* everything behind it.
LEMMA StatusUpdateReports ==
  ASSUME TypeOK, ObjectInv, ReportsInv, NEW status, NEW next, NEW otherwise,
         StatusUpdate(status, next, otherwise), UNCHANGED clusterVars,
         pc \notin {"idle", "addFinalizer"},
         pc \in LeavingCalls => status.phase \in Leaving,
         copyCurrent /\ Well(status) =>
           Intact \/ Well(copy.status),
         copyCurrent /\ status.phase = "Running" => Well(status) /\ secretURI,
         otherwise # "idle" =>
           status.ready = copy.status.ready /\ status.degraded = copy.status.degraded,
         {next, otherwise} \intersect BuildCalls = {},
         otherwise \notin SavedCredentialsCalls,
         next \in SavedCredentialsCalls => status.phase = "Provisioning"
  PROVE  ReportsInv'
<1> DEFINE new == [copy EXCEPT !.status = status]
           put == [stack EXCEPT !.status = status]
<1>a. /\ new.status = status /\ put.status = status /\ put.deleting = stack.deleting
  BY WithStatusFacts DEF TypeOK, ApiOK, WorkerOK
<1>b. UNCHANGED reportVars
  BY DEF reportVars, clusterVars, k8sVars, secretVars, backupVars
<1>c. (Intact => Intact') /\ (secretURI => secretURI')
  BY <1>b DEF reportVars, Intact, Existing
<1> HIDE DEF new, put
<1>1. CASE copyCurrent /\ Store(put) /\ Hold(next, put, TRUE)
  <2>1. stack' = put /\ pc' = next
    BY <1>1, HoldCall DEF Store
  <2>2. copyCurrent' => copy' = put
    BY <1>1 DEF Hold, EndReconcile, HoldNothing
  <2>3. copyCurrent' => SameConditions' /\ Built'
    BY <2>1, <2>2 DEF SameConditions, Built, BuildCalls
  <2>4. Relied(put) => Intact
    <3>1. Alike(copy, stack)
      BY <1>1 DEF ObjectInv
    <3>2. stack.deleting => pc \in LeavingCalls
      <4>1. pc \notin LeavingCalls => Working(copy)
        BY DEF ObjectInv, Entitled, LeavingCalls, EarlyCalls
      <4> QED
        BY <4>1, <3>1 DEF Working, Alike
    <3>3. Well(copy.status) => Well(stack.status)
      BY <1>1 DEF ReportsInv, SameConditions, Well
    <3> QED
      BY <3>2, <3>3, <1>1, <1>a DEF Relied, ReportsInv
  <2>5. put.status.phase = "Running" => Well(put.status) /\ secretURI
    BY <1>1, <1>a
  <2> QED
    BY <2>1, <2>3, <2>4, <2>5, <1>a, <1>c DEF ReportsInv, Relied, Well
<1>2. CASE /\ UNCHANGED apiVars
           /\ \/ copyCurrent /\ Hold(otherwise, new, TRUE)
              \/ ~copyCurrent /\ Hold(otherwise, new, FALSE)
  <2>1. UNCHANGED stack /\ pc' = otherwise
    BY <1>2, HoldCall DEF apiVars
  <2>2. copyCurrent' => copy' = new /\ copyCurrent /\ otherwise # "idle"
    BY <1>2 DEF Hold, EndReconcile, HoldNothing
  <2>3. copyCurrent' => SameConditions' /\ Built'
    BY <2>1, <2>2, <1>a DEF ReportsInv, SameConditions, Built, BuildCalls
  <2> QED
    BY <2>1, <2>3, <1>c DEF ReportsInv
<1> QED
  BY <1>1, <1>2 DEF StatusUpdate, new, put

\* A call that does not write the object, keeps what the stack relies on, and
\* does not lead into the later calls of handleDeployment.
LEMMA CallReports ==
  ASSUME ReportsInv, UNCHANGED stack,
         Relied(stack) => (Intact => Intact'),
         stack.status.phase = "Running" => (secretURI => secretURI'),
         copyCurrent' => copyCurrent /\ copy' = copy,
         pc' \notin BuildCalls,
         pc' \in SavedCredentialsCalls => pc \in SavedCredentialsCalls
  PROVE  ReportsInv'
BY DEF ReportsInv, Relied, SameConditions, Built, BuildCalls

\* What Goto does to the copy.
LEMMA GotoCopy ==
  ASSUME NEW next, Goto(next)
  PROVE  (copyCurrent' => copyCurrent /\ copy' = copy) /\ pc' = next
BY HoldCall DEF Goto, Hold, EndReconcile, HoldNothing

\* No dispatch leads into the middle of provisioning or deployment.
LEMMA DispatchOutside ==
  /\ \A phase : PhaseHandler(phase) \notin BuildCalls \union SavedCredentialsCalls
  /\ \A c : AfterGet(c) \notin BuildCalls \union SavedCredentialsCalls
  /\ \A c : Dispatch(c) \notin BuildCalls \union SavedCredentialsCalls
BY DEF PhaseHandler, AfterGet, DeletionHandler, Dispatch, BuildCalls, SavedCredentialsCalls

\* A status write that leaves the conditions alone.
LEMMA RecordReports ==
  ASSUME TypeOK, ObjectInv, ReportsInv, NEW status, NEW next, NEW otherwise,
         StatusUpdate(status, next, otherwise), UNCHANGED clusterVars,
         pc \notin {"idle", "addFinalizer"},
         pc \in LeavingCalls => status.phase \in Leaving,
         status.ready = copy.status.ready, status.degraded = copy.status.degraded,
         status.phase = copy.status.phase \/ status.phase # "Running",
         {next, otherwise} \intersect BuildCalls = {},
         otherwise \notin SavedCredentialsCalls,
         next \in SavedCredentialsCalls => status.phase = "Provisioning"
  PROVE  ReportsInv'
<1>1. Well(status) => Well(copy.status)
  BY DEF Well
<1>2. copyCurrent /\ status.phase = "Running" => Well(status) /\ secretURI
  BY DEF ObjectInv, Alike, ReportsInv, SameConditions, Well
<1> QED
  BY <1>1, <1>2, StatusUpdateReports

\* An Update of a stack in use.
LEMMA SpecUpdateReports ==
  ASSUME TypeOK, ObjectInv, ReportsInv, NEW c \in PRStack, c.finalizer,
         NEW next \in {"idle", "setCreatedAt", "checkReactivation"},
         SpecUpdate(c, next, "idle"), UNCHANGED clusterVars,
         copy.exists, ~copy.deleting
  PROVE  ReportsInv'
<1>a. next \notin BuildCalls \union SavedCredentialsCalls
  BY DEF BuildCalls, SavedCredentialsCalls
<1>b. (Intact => Intact') /\ (secretURI => secretURI')
  BY DEF clusterVars, k8sVars, secretVars, backupVars, Intact, Existing
<1>1. CASE copyCurrent /\ Store(Stored(c)) /\ Hold(next, Stored(c), TRUE)
  <2>1. stack' = Stored(c) /\ Alike(copy, stack) /\ pc' = next
    BY <1>1, HoldCall DEF Store, ObjectInv
  <2>2. stack'.status = stack.status /\ stack'.deleting = stack.deleting
    BY <2>1 DEF Alike, Stored, TypeOK, ApiOK, PRStack
  <2>3. copyCurrent' => copy' = stack'
    BY <1>1, <2>1 DEF Hold, EndReconcile, HoldNothing
  <2> QED
    BY <2>1, <2>2, <2>3, <1>a, <1>b
       DEF ReportsInv, Relied, SameConditions, Built, BuildCalls
<1>2. CASE UNCHANGED apiVars /\ \E current \in BOOLEAN : Hold("idle", c, current)
  <2>1. UNCHANGED stack /\ pc' = "idle" /\ copyCurrent' = FALSE
    BY <1>2, EndMoves DEF apiVars
  <2> QED
    BY <2>1, <1>b, CallReports DEF BuildCalls, SavedCredentialsCalls
<1> QED
  BY <1>1, <1>2 DEF SpecUpdate

\* The steps of Reconcile.
LEMMA ReconcileReports == TypeOK /\ ObjectInv /\ ReportsInv /\ ReconcileNext => ReportsInv'
<1> SUFFICES ASSUME TypeOK, ObjectInv, ReportsInv, ReconcileNext PROVE ReportsInv'
  OBVIOUS
<1>a. copy \in PRStack /\ copy.status \in Status
  BY DEF TypeOK, WorkerOK, PRStack
<1>b. {"setCreatedAt", "checkReactivation", "checkExpiration", "scaleDown", "checkHealth",
       "rollout", "recordRolloutError"} \intersect LeavingCalls = {}
  BY DEF LeavingCalls, DeletionCalls, CleanupCalls
<1>c. {"idle", "setCreatedAt", "checkReactivation", "checkExpiration", "scaleDown",
       "scaleUp", "checkHealth", "rollout", "recordRolloutError", "updateStatusWithError"}
         \intersect (BuildCalls \union SavedCredentialsCalls) = {}
  BY DEF BuildCalls, SavedCredentialsCalls
<1>d. UNCHANGED clusterVars => (Intact => Intact') /\ (secretURI => secretURI')
  BY DEF clusterVars, k8sVars, secretVars, backupVars, Intact, Existing
<1>e. UNCHANGED apiVars => UNCHANGED stack
  BY DEF apiVars
<1>1. CASE FetchPRStack
  <2>1. /\ Hold(AfterGet(cached), cached, cacheCurrent) /\ UNCHANGED <<stack, clusterVars>>
        /\ pc' = AfterGet(cached)
    BY <1>1, HoldCall DEF FetchPRStack, apiVars
  <2>2. copyCurrent' => copy' = stack
    BY <2>1 DEF Hold, EndReconcile, HoldNothing, ObjectInv
  <2> QED
    BY <2>1, <2>2, <1>d, DispatchOutside
       DEF ReportsInv, Relied, SameConditions, Built, BuildCalls
<1>2. CASE AddFinalizer
  <2>1. /\ [copy EXCEPT !.finalizer = TRUE] \in PRStack
        /\ [copy EXCEPT !.finalizer = TRUE].finalizer
    BY <1>a DEF PRStack
  <2>2. copy.exists /\ ~copy.deleting
    BY <1>2 DEF AddFinalizer, ObjectInv, Entitled
  <2> QED
    BY <2>1, <2>2, <1>2, SpecUpdateReports DEF AddFinalizer
<1>3. CASE SetCreatedAt
  <2> DEFINE status == [copy.status EXCEPT !.createdAt = Timestamp, !.lastActiveAt = Timestamp]
  <2>1. /\ status.ready = copy.status.ready /\ status.degraded = copy.status.degraded
        /\ status.phase = copy.status.phase
    BY <1>a DEF Status
  <2>2. StatusUpdate(status, "checkReactivation", "idle")
    BY <1>3 DEF SetCreatedAt
  <2>3. UNCHANGED clusterVars /\ pc \notin {"idle", "addFinalizer"} /\ pc \notin LeavingCalls
    BY <1>3, <1>b DEF SetCreatedAt
  <2> HIDE DEF status
  <2> QED
    BY <2>1, <2>2, <2>3, <1>c, RecordReports
<1>4. CASE CheckReactivation
  <2>1. CASE BecomesActive(copy)
    BY <2>1, <1>4, <1>a, <1>b, <1>c, DispatchOutside, RecordReports
       DEF CheckReactivation, Status
  <2>2. CASE ~BecomesActive(copy)
    BY <2>2, <1>4, <1>c, <1>d, <1>e, GotoCopy, CallReports DEF CheckReactivation
  <2> QED
    BY <2>1, <2>2
<1>5. CASE CheckExpiration
  <2>1. /\ [copy EXCEPT !.active = FALSE] \in PRStack
        /\ [copy EXCEPT !.active = FALSE].finalizer = copy.finalizer
    BY <1>a DEF PRStack
  <2>2. Working(copy)
    BY <1>5 DEF CheckExpiration, ObjectInv, Entitled, DeletionCalls, CleanupCalls, EarlyCalls
  <2>3. CASE IsStackExpired(copy.status) /\ copy.active
    BY <2>1, <2>2, <2>3, <1>5, SpecUpdateReports DEF CheckExpiration, Working
  <2>4. CASE ~(IsStackExpired(copy.status) /\ copy.active)
    BY <2>4, <1>5, <1>d, <1>e, DispatchOutside, GotoCopy, CallReports DEF CheckExpiration
  <2> QED
    BY <2>3, <2>4
<1>6. CASE MarkInactive
  BY <1>6, <1>a, <1>b, <1>c, RecordReports DEF MarkInactive, Status
<1>7. CASE CheckHealth
  <2>1. CASE copy.status.unhealthy
    BY <2>1, <1>7, <1>b, <1>c, RecordReports DEF CheckHealth
  <2>2. CASE ~copy.status.unhealthy
    BY <2>2, <1>7, <1>c, <1>d, <1>e, GotoCopy, CallReports DEF CheckHealth, Goto, Hold
  <2> QED
    BY <2>1, <2>2
<1>8. CASE RecordRollout
  <2>1. /\ RolledOut(copy).phase = copy.status.phase
        /\ RolledOut(copy).ready = copy.status.ready
        /\ RolledOut(copy).degraded = copy.status.degraded
    BY <1>a DEF RolledOut, Status
  <2> QED
    BY <2>1, <1>8, <1>b, <1>c, DispatchOutside, RecordReports DEF RecordRollout
<1>9. CASE RecordRolloutError
  BY <1>9, <1>b, <1>c, RecordReports DEF RecordRolloutError
<1>10. CASE UpdateStatusWithError
  <2>1. /\ FailedStatus(copy.status).phase = "Failed"
        /\ FailedStatus(copy.status).degraded
    BY <1>a DEF FailedStatus, Status
  <2> QED
    BY <2>1, <1>10, <1>c, StatusUpdateReports DEF UpdateStatusWithError, Leaving, Well
<1>11. CASE ListForScaleDown \/ CheckReplicas \/ ListForRollout \/ RolloutDeployment
  <2>1. UNCHANGED stack /\ (Intact => Intact') /\ (secretURI => secretURI')
    BY <1>11, <1>d
       DEF ListForScaleDown, CheckReplicas, ListForRollout, RolloutDeployment,
           RolloutFails, ItemFails, LoopOn, StartLoop, CallFails, apiVars, secretVars,
           backupVars, Intact, Existing
  <2>2. /\ copyCurrent' => copyCurrent /\ copy' = copy
        /\ pc' \in {"scaleDown", "scaleUp", "checkHealth", "rollout",
                    "recordRolloutError", "updateStatusWithError"}
    BY <1>11, GotoCopy
       DEF ListForScaleDown, CheckReplicas, ListForRollout, RolloutDeployment,
           RolloutFails, ItemFails, LoopOn, StartLoop, CallFails
  <2> QED
    BY <2>1, <2>2, <1>c, CallReports
<1>12. CASE ScaleDown \/ ScaleUp
  <2>1. UNCHANGED <<stack, secret, secretURI, claim, namespace>>
    BY <1>12
       DEF ScaleDown, ScaleDownFails, ScaleUp, ItemFails, LoopOn, apiVars, secretVars, backupVars
  <2>2. Existing' = Existing
    BY <1>12, StandingCallsFacts DEF StandingCalls, Existing
  <2>3. /\ copyCurrent' => copyCurrent /\ copy' = copy
        /\ pc' \in {"scaleDown", "scaleUp", "checkHealth", "updateStatusWithError"}
    BY <1>12, GotoCopy DEF ScaleDown, ScaleDownFails, ScaleUp, ItemFails, LoopOn
  <2> QED
    BY <2>1, <2>2, <2>3, <1>c, CallReports DEF Intact
<1> QED
  BY <1>1, <1>2, <1>3, <1>4, <1>5, <1>6, <1>7, <1>8, <1>9, <1>10, <1>11, <1>12
     DEF ReconcileNext

\* The steps of handleProvisioning and before it.
LEMMA ProvisionReports ==
  TypeOK /\ ObjectInv /\ ProvisioningInv /\ ReportsInv /\ ProvisionNext => ReportsInv'
<1> SUFFICES ASSUME TypeOK, ObjectInv, ProvisioningInv, ReportsInv, ProvisionNext
             PROVE  ReportsInv'
  OBVIOUS
<1>a. copy \in PRStack /\ copy.status \in Status /\ Entitled(pc, copy)
  BY DEF TypeOK, WorkerOK, PRStack, ObjectInv
<1>b. (ProvisionCalls \union {"reactivate", "initialize"}) \intersect LeavingCalls = {}
  BY DEF ProvisionCalls, LeavingCalls, DeletionCalls, CleanupCalls
<1>c. {"idle", "initialize", "dropUser", "createUser", "createCollections", "saveCredentials",
       "updateStatusWithError"} \intersect (BuildCalls \union SavedCredentialsCalls) = {}
  BY DEF BuildCalls, SavedCredentialsCalls
<1>d. UNCHANGED apiVars => UNCHANGED stack
  BY DEF apiVars
<1>1. CASE Reactivate
  <2> DEFINE status == [copy.status EXCEPT !.phase = ""]
  <2>1. /\ status.phase = "" /\ status.ready = copy.status.ready
        /\ status.degraded = copy.status.degraded
    BY <1>a DEF Status
  <2>2. /\ StatusUpdate(status, "initialize", "idle") /\ UNCHANGED clusterVars
        /\ pc = "reactivate" /\ pc \notin LeavingCalls
    BY <1>1, <1>b DEF Reactivate
  <2> HIDE DEF status
  <2> QED
    BY <2>1, <2>2, <1>c, RecordReports
<1>2. CASE HandleInitialization
  BY <1>2, <1>a, <1>b, <1>c, RecordReports DEF HandleInitialization, Status
<1>3. CASE CreateNamespace \/ DropUser \/ CreateUser \/ CreateCollections
  <2>1. UNCHANGED <<stack, secret, secretURI, claim>> /\ (Intact => Intact')
    BY <1>3
       DEF CreateNamespace, DropUser, CreateUser, CreateCollections, CallFails, apiVars,
           k8sVars, secretVars, backupVars, Intact, Existing
  <2>2. /\ copyCurrent' => copyCurrent /\ copy' = copy
        /\ pc' \in {"dropUser", "createUser", "createCollections", "saveCredentials",
                    "updateStatusWithError"}
    BY <1>3, GotoCopy
       DEF CreateNamespace, DropUser, CreateUser, CreateCollections, CallFails
  <2> QED
    BY <2>1, <2>2, <1>c, CallReports
<1>4. CASE SaveCredentials
  <2>1. /\ WithCredentials(copy.status).phase = copy.status.phase
        /\ WithCredentials(copy.status).ready = copy.status.ready
        /\ WithCredentials(copy.status).degraded = copy.status.degraded
    BY <1>a DEF WithCredentials, Status
  <2>2. pc \in ProvisionCalls /\ copy.status.phase = "Provisioning"
    BY <1>4, <1>a DEF SaveCredentials, Entitled, ProvisionCalls
  <2>3. /\ {"createMongoDBSecret", "updateStatusWithError"} \intersect BuildCalls = {}
        /\ "updateStatusWithError" \notin SavedCredentialsCalls
    BY DEF BuildCalls, SavedCredentialsCalls
  <2> QED
    BY <2>1, <2>2, <2>3, <1>4, <1>b, RecordReports DEF SaveCredentials
<1>5. CASE CreateMongoDBSecret
  <2>1. copy.status.mongoDB # Nil /\ pc \in SavedCredentialsCalls
    BY <1>5 DEF CreateMongoDBSecret, ProvisioningInv, Supports, SavedCredentialsCalls
  <2>2. UNCHANGED <<stack, namespace, replicas, claim>>
    BY <1>5 DEF CreateMongoDBSecret, WriteSecret, CallFails, apiVars, backupVars
  <2>3. secret' \in {secret, copy.status.mongoDB}
    BY <1>5 DEF CreateMongoDBSecret, WriteSecret, SecretData, CallFails, secretVars
  <2>4. Intact => Intact'
    BY <2>1, <2>2, <2>3 DEF Intact, Existing
  <2>5. /\ copyCurrent' => copyCurrent /\ copy' = copy
        /\ pc' \in {"finishProvisioning", "updateStatusWithError"}
    BY <1>5, GotoCopy DEF CreateMongoDBSecret, WriteSecret, CallFails
  <2>6. {"finishProvisioning", "updateStatusWithError"} \intersect BuildCalls = {}
    BY DEF BuildCalls
  <2>7. stack.status.phase # "Running"
    BY <2>1 DEF ReportsInv
  <2> QED
    BY <2>1, <2>2, <2>4, <2>5, <2>6, <2>7, CallReports
<1>6. CASE FinishProvisioning
  <2>1. /\ Provisioned(copy.status).phase = "Deploying"
        /\ Provisioned(copy.status).ready = copy.status.ready
        /\ Provisioned(copy.status).degraded = copy.status.degraded
    BY <1>a DEF Provisioned, Status
  <2> QED
    BY <2>1, <1>6, <1>b, <1>c, RecordReports DEF FinishProvisioning, ProvisionCalls
<1> QED
  BY <1>1, <1>2, <1>3, <1>4, <1>5, <1>6 DEF ProvisionNext

\* A call of handleDeployment that adds to what there is.
LEMMA BuildReports ==
  ASSUME ReportsInv, UNCHANGED stack, Intact => Intact', secretURI => secretURI',
         copyCurrent' => copyCurrent /\ copy' = copy /\ Built',
         pc' \notin SavedCredentialsCalls
  PROVE  ReportsInv'
BY DEF ReportsInv, Relied, SameConditions

\* The steps of handleDeployment.
LEMMA DeployReports ==
  TypeOK /\ ObjectInv /\ ProvisioningInv /\ EmptiedInv /\ ReportsInv /\ DeployNext
    => ReportsInv'
<1> SUFFICES ASSUME TypeOK, ObjectInv, ProvisioningInv, EmptiedInv, ReportsInv, DeployNext
             PROVE  ReportsInv'
  OBVIOUS
<1>a. /\ copy \in PRStack /\ copy.status \in Status /\ Entitled(pc, copy)
      /\ replicas \in [Deployments -> {0, 1, Absent}]
      /\ namespace \in {"absent", "active", "terminating"}
      /\ todo \subseteq Deployments
  BY DEF TypeOK, WorkerOK, ClusterOK, PRStack, ObjectInv
<1>b. {"updateStatusWithError", "createMongoDBResources", "createNATSResources",
       "createRedisResources", "ensureBackupStorage", "createServices", "idle"}
         \intersect SavedCredentialsCalls = {}
  BY DEF SavedCredentialsCalls
<1>c. "updateStatusWithError" \notin BuildCalls
  BY DEF BuildCalls
<1>d. pc \in DeployCalls => Working(copy) /\ Complete(copy.status)
  BY <1>a
     DEF Entitled, DeployCalls, DeletionCalls, CleanupCalls, EarlyCalls, ProvisioningInv,
         Supports
<1>e. "nats" \in Deployments /\ "redis" \in Deployments /\ "nats" # "redis" /\ 1 # Absent
  BY InfraDeployed DEF Absent
<1>f. copyCurrent => Built
  BY DEF ReportsInv
<1>1. CASE CreateRegistrySecret
  <2>1. UNCHANGED stack /\ (Intact => Intact') /\ (secretURI => secretURI')
    BY <1>1
       DEF CreateRegistrySecret, CallFails, apiVars, clusterVars, k8sVars, secretVars,
           backupVars, Intact, Existing
  <2>2. /\ copyCurrent' => copyCurrent /\ copy' = copy
        /\ pc' \in {"createMongoDBResources", "updateStatusWithError"}
    BY <1>1, GotoCopy DEF CreateRegistrySecret, CallFails
  <2>3. pc' \notin BuildCalls
    BY <2>2 DEF BuildCalls
  <2> QED
    BY <2>1, <2>2, <2>3, <1>b, CallReports
<1>2. CASE CreateMongoDBResources
  <2>1. UNCHANGED <<stack, namespace, replicas, claim>>
    BY <1>2 DEF CreateMongoDBResources, WriteSecret, CallFails, apiVars, backupVars
  <2>2. copy.status.mongoDB # Nil
    BY <1>2, <1>d DEF CreateMongoDBResources, DeployCalls, Complete
  <2>3. /\ pc' \in {"createNATSResources", "updateStatusWithError"}
        /\ copyCurrent' => copyCurrent /\ copy' = copy
    BY <1>2, GotoCopy DEF CreateMongoDBResources, WriteSecret, CallFails
  <2>4. \/ secret' = copy.status.mongoDB /\ secretURI'
        \/ pc' = "updateStatusWithError" /\ UNCHANGED secretVars
    BY <1>2, GotoCopy DEF CreateMongoDBResources, WriteSecret, SecretData, CallFails
  <2>5. (Intact => Intact') /\ (secretURI => secretURI')
    BY <2>1, <2>2, <2>4 DEF secretVars, Intact, Existing
  <2>6. copyCurrent' => Built'
    BY <2>3, <2>4 DEF Built, BuildCalls
  <2> QED
    BY <2>1, <2>3, <2>5, <2>6, <1>b, BuildReports
<1>3. ASSUME NEW d \in {"nats", "redis"}, NEW next,
             DeployInfra(d, next)
      PROVE  /\ UNCHANGED <<stack, namespace, secret, secretURI, claim>>
             /\ Intact => Intact'
             /\ \A e \in Deployments : replicas[e] # Absent => replicas'[e] # Absent
             /\ pc' \in {next, "updateStatusWithError"}
             /\ copyCurrent' => copyCurrent /\ copy' = copy
             /\ next # "updateStatusWithError" /\ pc' = next =>
                  replicas'[d] # Absent /\ Accepts(replicas[d] # Absent)
  <2>1. UNCHANGED <<stack, namespace, secret, secretURI, claim>>
    BY <1>3 DEF DeployInfra, CallFails, apiVars, secretVars, backupVars
  <2>2. \A e \in Deployments : replicas[e] # Absent => replicas'[e] # Absent
    BY <1>3, <1>a, <1>e DEF DeployInfra, Deploy
  <2>3. Intact => Intact'
    BY <2>1, <2>2 DEF Intact, Existing
  <2>4. /\ pc' \in {next, "updateStatusWithError"}
        /\ copyCurrent' => copyCurrent /\ copy' = copy
    BY <1>3, GotoCopy DEF DeployInfra, CallFails
  <2>5. next # "updateStatusWithError" /\ pc' = next => Deploy(d)
    BY <1>3, GotoCopy DEF DeployInfra, CallFails
  <2>6. Deploy(d) => replicas'[d] # Absent /\ Accepts(replicas[d] # Absent)
    BY <1>3, <1>a, <1>e DEF Deploy
  <2> QED
    BY <2>1, <2>2, <2>3, <2>4, <2>5, <2>6
<1>4. CASE CreateNATSResources
  <2>1. pc = "createNATSResources" /\ DeployInfra("nats", "createRedisResources")
    BY <1>4 DEF CreateNATSResources
  <2>2. copyCurrent /\ pc' = "createRedisResources" => namespace = "active"
    <3>1. copyCurrent => ~Going(stack)
      BY <2>1, <1>d DEF DeployCalls, Working, ObjectInv, Alike, Going
    <3>2. pc' = "createRedisResources" => Accepts(replicas["nats"] # Absent)
      BY <2>1, <1>3
    <3> QED
      BY <3>1, <3>2 DEF Accepts, EmptiedInv, NATSGone
  <2>3. copyCurrent' => Built'
    BY <2>1, <2>2, <1>3, <1>f DEF Built, BuildCalls
  <2> QED
    BY <2>1, <2>3, <1>3, <1>b, BuildReports
<1>5. CASE CreateRedisResources
  <2>1. pc = "createRedisResources" /\ DeployInfra("redis", "ensureBackupStorage")
    BY <1>5 DEF CreateRedisResources
  <2>2. copyCurrent' => Built'
    BY <2>1, <1>3, <1>e, <1>f DEF Built, BuildCalls
  <2> QED
    BY <2>1, <2>2, <1>3, <1>b, BuildReports
<1>6. CASE EnsureBackupStorage
  <2>1. UNCHANGED <<stack, namespace, replicas, secret, secretURI>>
    BY <1>6 DEF EnsureBackupStorage, CallFails, StartLoop, apiVars, secretVars
  <2>2. \/ /\ claim' = (claim \/ BackupEnabled)
           /\ pc' = "createServices" /\ todo' = Services /\ UNCHANGED <<copy, copyCurrent>>
        \/ /\ UNCHANGED claim /\ pc' = "updateStatusWithError"
           /\ copyCurrent' => copyCurrent /\ copy' = copy
    BY <1>6, GotoCopy DEF EnsureBackupStorage, CallFails, StartLoop
  <2>3. Intact => Intact'
    BY <2>1, <2>2 DEF Intact, Existing
  <2>4. copyCurrent' => Built'
    <3>1. CASE pc' = "createServices"
      <4>1. (BackupEnabled => claim') /\ todo' = Services
        BY <2>2, <3>1
      <4>2. copyCurrent' => copyCurrent /\ copy' = copy
        BY <2>2
      <4> QED
        BY <4>1, <4>2, <2>1, <1>6, <1>f DEF EnsureBackupStorage, Built, BuildCalls
    <3>2. CASE pc' = "updateStatusWithError"
      BY <3>2 DEF Built, BuildCalls
    <3> QED
      BY <3>1, <3>2, <2>2
  <2> QED
    BY <2>1, <2>2, <2>3, <2>4, <1>b, BuildReports
<1>7. CASE CreateServiceDeployment
  <2>1. UNCHANGED <<stack, namespace, secret, secretURI, claim, pc, copy, copyCurrent>>
    BY <1>7 DEF CreateServiceDeployment, apiVars, secretVars, backupVars
  <2>2. PICK s \in todo :
          /\ todo' = todo \ {s}
          /\ \/ Deploy(s) /\ failed' = failed
             \/ failed' = failed \union {s} /\ (Deploy(s) \/ UNCHANGED replicas)
    BY <1>7 DEF CreateServiceDeployment
  <2>3. /\ \A e \in Deployments : replicas[e] # Absent => replicas'[e] # Absent
        /\ Deploy(s) => replicas'[s] # Absent
    BY <2>2, <1>a, <1>e DEF Deploy
  <2>4. Intact => Intact'
    BY <2>1, <2>3 DEF Intact, Existing
  <2>5. copyCurrent' => Built'
    <3>1. Services \subseteq Deployments
      BY DEF Deployments
    <3> QED
      BY <3>1, <2>1, <2>2, <2>3, <1>e, <1>f, <1>7
         DEF CreateServiceDeployment, Built, BuildCalls
  <2> QED
    BY <2>1, <2>4, <2>5, <1>7, <1>b, BuildReports DEF CreateServiceDeployment
<1>8. CASE FinishDeployment
  <2> DEFINE status == DeployedStatus(copy.status)
  <2>1. /\ status.phase = PhaseAfterDeployment
        /\ status.degraded = (failed # {}) /\ status.ready = (failed # Services)
    BY <1>a DEF DeployedStatus, Status
  <2>2. (Well(status) \/ status.phase = "Running") => failed = {}
    BY <2>1 DEF Well, PhaseAfterDeployment
  <2>3. failed = {} => Well(status)
    BY <2>1, ServicesAssumption DEF Well
  <2>4. copyCurrent /\ failed = {} => Intact /\ secretURI
    <3> SUFFICES ASSUME copyCurrent, failed = {} PROVE Intact /\ secretURI
      OBVIOUS
    <3>1. /\ namespace = "active" /\ secret = copy.status.mongoDB /\ secretURI
          /\ BackupEnabled => claim
          /\ replicas["nats"] # Absent /\ replicas["redis"] # Absent
          /\ \A s \in Services : replicas[s] # Absent
      BY <1>8, <1>f DEF FinishDeployment, Built, BuildCalls
    <3>2. Existing = Deployments
      BY <3>1 DEF Existing, Deployments, Infra
    <3>3. copy.status.mongoDB # Nil
      BY <1>8, <1>d DEF FinishDeployment, DeployCalls, Complete
    <3> QED
      BY <3>1, <3>2, <3>3 DEF Intact
  <2>5. pc = "createServices" /\ pc \notin LeavingCalls
    BY <1>8 DEF FinishDeployment, LeavingCalls, DeletionCalls, CleanupCalls
  <2>6. {"idle"} \intersect (BuildCalls \union SavedCredentialsCalls) = {}
    BY DEF BuildCalls, SavedCredentialsCalls
  <2>7. StatusUpdate(status, "idle", "idle") /\ UNCHANGED clusterVars
    BY <1>8 DEF FinishDeployment
  <2> HIDE DEF status
  <2> QED
    BY <2>2, <2>3, <2>4, <2>5, <2>6, <2>7, StatusUpdateReports
<1> QED
  BY <1>1, <1>2, <1>4, <1>5, <1>6, <1>7, <1>8 DEF DeployNext

\* The steps of the cleanup, which finds nobody relying on what it takes.
LEMMA CleanupReports ==
  TypeOK /\ ObjectInv /\ LeavingInv /\ ReportsInv /\ CleanupNext => ReportsInv'
<1> SUFFICES ASSUME TypeOK, ObjectInv, LeavingInv, ReportsInv, CleanupNext
             PROVE  ReportsInv'
  OBVIOUS
<1>a. copy \in PRStack /\ copy.status \in Status
  BY DEF TypeOK, WorkerOK, PRStack
<1>b. (CleanupCalls \union {"idle", "updateStatusWithError"})
         \intersect (BuildCalls \union SavedCredentialsCalls) = {}
  BY DEF BuildCalls, SavedCredentialsCalls, CleanupCalls
<1>c. /\ {"createBackup", "all.mongoDB", "all.nats", "all.redis", "all.services",
          "cleanupMongoDB", "cleanupNATS", "cleanupRedis", "markCleaned",
          "removeFinalizer"} = CleanupCalls
  BY DEF CleanupCalls
<1>1. CASE MarkCleaning
  <2> DEFINE status == [copy.status EXCEPT !.phase = "Cleaning"]
  <2>1. /\ status.phase = "Cleaning" /\ status.ready = copy.status.ready
        /\ status.degraded = copy.status.degraded
    BY <1>a DEF Status
  <2>2. StatusUpdate(status, "idle", "idle") /\ UNCHANGED clusterVars /\ pc = "markCleaning"
    BY <1>1 DEF MarkCleaning
  <2> HIDE DEF status
  <2> QED
    BY <2>1, <2>2, <1>b, RecordReports DEF Leaving
<1>2. CASE MarkCleaned
  <2> DEFINE status == [copy.status EXCEPT !.phase = "Cleaned"]
  <2>1. /\ status.phase = "Cleaned" /\ status.ready = copy.status.ready
        /\ status.degraded = copy.status.degraded
    BY <1>a DEF Status
  <2>2. /\ StatusUpdate(status, "removeFinalizer", "idle") /\ UNCHANGED clusterVars
        /\ pc = "markCleaned"
    BY <1>2 DEF MarkCleaned
  <2> HIDE DEF status
  <2> QED
    BY <2>1, <2>2, <1>b, <1>c, RecordReports DEF Leaving
<1>3. CASE RemoveFinalizer
  <2> DEFINE c == [copy EXCEPT !.finalizer = FALSE]
  <2>1. ~c.finalizer /\ copy.deleting
    BY <1>3, <1>a
       DEF RemoveFinalizer, ObjectInv, Entitled, DeletionCalls, CleanupCalls, PRStack
  <2>2. SpecUpdate(c, "idle", "idle") /\ UNCHANGED clusterVars
    BY <1>3 DEF RemoveFinalizer
  <2> HIDE DEF c
  <2>3. copyCurrent /\ Store(Stored(c)) => stack' = NoStack
    BY <2>1 DEF Store, Stored, ObjectInv, Alike
  <2>4. pc' = "idle" /\ copyCurrent' = FALSE /\ stack' \in {stack, NoStack}
    BY <2>2, <2>3, EndMoves DEF SpecUpdate, apiVars
  <2>5. (Intact => Intact') /\ (secretURI => secretURI')
    BY <2>2 DEF clusterVars, k8sVars, secretVars, backupVars, Intact, Existing
  <2>6. ~Well(NoStack.status) /\ NoStack.status.phase # "Running"
    BY DEF NoStack, NoStatus, Well
  <2> QED
    BY <2>4, <2>5, <2>6, <1>b DEF ReportsInv, Relied
<1>4. ASSUME pc \in CleanupCalls, UNCHANGED stack,
             copyCurrent' => copyCurrent /\ copy' = copy,
             pc' \in CleanupCalls \union {"updateStatusWithError"}
      PROVE  ReportsInv'
  <2>1. ~Relied(stack) /\ stack.status.phase # "Running"
    BY <1>4, CleanupFinds DEF Relied, Well, Leaving
  <2> QED
    BY <2>1, <1>4, <1>b, CallReports
<1>5. CASE CreateBackup \/ CleanupAllMongoDB \/ CleanupMongoDBAgain
  <2>1. /\ pc \in CleanupCalls /\ UNCHANGED stack
        /\ copyCurrent' => copyCurrent /\ copy' = copy
        /\ pc' \in CleanupCalls \union {"updateStatusWithError"}
    BY <1>5, <1>c, GotoCopy
       DEF CreateBackup, CleanupAllMongoDB, CleanupMongoDBAgain, CleanupMongoDB,
           MongoDBCleanupFailed, apiVars
  <2> QED
    BY <2>1, <1>4
<1>6. CASE \/ CleanupAllNATS \/ CleanupAllRedis \/ CleanupNATS \/ CleanupRedis
           \/ CleanupAllServices
  <2>1. /\ pc \in CleanupCalls /\ UNCHANGED stack
        /\ copyCurrent' => copyCurrent /\ copy' = copy
        /\ pc' \in CleanupCalls \union {"updateStatusWithError"}
    BY <1>6, <1>c, GotoCopy
       DEF CleanupAllNATS, CleanupAllRedis, CleanupNATS, CleanupRedis,
           CleanupDeployment, CleanupAllServices, CleanupServices, apiVars
  <2> QED
    BY <2>1, <1>4
<1> QED
  BY <1>1, <1>2, <1>3, <1>5, <1>6 DEF CleanupNext

\* The steps of the others.
LEMMA EnvironmentReports ==
  TypeOK /\ ObjectInv /\ ReportsInv /\ (Crash \/ User \/ Cluster \/ Watch \/ Clock)
    => ReportsInv'
<1> SUFFICES ASSUME TypeOK, ObjectInv, ReportsInv,
                    Crash \/ User \/ Cluster \/ Watch \/ Clock
             PROVE  ReportsInv'
  OBVIOUS
<1>a. UNCHANGED clusterVars => (Intact => Intact') /\ (secretURI => secretURI')
  BY DEF clusterVars, k8sVars, secretVars, backupVars, Intact, Existing
<1>1. CASE Crash
  <2>1. UNCHANGED <<stack, clusterVars>> /\ pc' = "idle" /\ copyCurrent' = FALSE
    BY <1>1 DEF Crash, EndReconcile, HoldNothing
  <2> QED
    BY <2>1, <1>a, CallReports DEF BuildCalls, SavedCredentialsCalls
<1>2. CASE User
  <2>1. UNCHANGED <<clusterVars, pc>> /\ copyCurrent' = FALSE
    BY <1>2 DEF User, SetActive, SetDeployedAt, DeleteStack, CreateStack, UserStore
  <2>2. \/ stack'.status = stack.status /\ (stack.deleting => stack'.deleting)
        \/ stack'.status = NoStatus
    BY <1>2, NoStackFacts
       DEF User, SetActive, SetDeployedAt, DeleteStack, CreateStack, UserStore, NewStack,
           NoStack, TypeOK, ApiOK, PRStack
  <2>3. ~NoStatus.ready /\ NoStatus.phase # "Running"
    BY DEF NoStatus
  <2>4. pc \in SavedCredentialsCalls => stack'.status = stack.status
    <3>1. pc \in SavedCredentialsCalls => Guarded(stack)
      BY ProvisionGuarded DEF SavedCredentialsCalls, ProvisionCalls
    <3> QED
      BY <3>1, <1>2
         DEF User, SetActive, SetDeployedAt, DeleteStack, CreateStack, UserStore,
             Guarded, TypeOK, ApiOK, PRStack
  <2> QED
    BY <2>1, <2>2, <2>3, <2>4, <1>a DEF ReportsInv, Relied, Well
<1>3. CASE PurgeNamespace
  <2>1. ~Relied(stack) /\ stack.status.phase # "Running"
    BY <1>3 DEF PurgeNamespace, ReportsInv, Intact, Relied, Leaving
  <2>2. /\ UNCHANGED <<stack, pc, copy, copyCurrent>>
        /\ namespace = "terminating" /\ namespace' = "absent"
    BY <1>3 DEF PurgeNamespace, apiVars, workerVars
  <2>3. copyCurrent => Built'
    <3>1. copyCurrent => pc \notin BuildCalls \ {"createNATSResources"}
      BY <2>2 DEF ReportsInv, Built
    <3> QED
      BY <2>2, <3>1 DEF Built, BuildCalls
  <2> QED
    BY <2>1, <2>2, <2>3 DEF ReportsInv, SameConditions, Relied
<1>4. CASE CompleteBackup \/ Watch \/ Clock
  <2>1. /\ UNCHANGED <<stack, pc, copy, copyCurrent, todo, failed>>
        /\ UNCHANGED reportVars
    BY <1>4
       DEF CompleteBackup, Watch, SyncCache, Clock, Tick, apiVars, workerVars, reportVars,
           clusterVars, k8sVars, secretVars, backupVars
  <2> QED
    BY <2>1 DEF reportVars, ReportsInv, SameConditions, Built, Intact, Existing, Relied
<1> QED
  BY <1>1, <1>2, <1>3, <1>4 DEF Cluster

\* The invariant is inductive.
LEMMA NextReports ==
  TypeOK /\ ObjectInv /\ ProvisioningInv /\ LeavingInv /\ EmptiedInv /\ ReportsInv
    /\ [Next]_vars => ReportsInv'
<1>1. ReportsInv /\ UNCHANGED vars => ReportsInv'
  BY DEF vars, apiVars, workerVars, clusterVars, k8sVars, secretVars, backupVars,
         ReportsInv, SameConditions, Built, Intact, Existing, Relied
<1> QED
  BY <1>1, ReconcileReports, ProvisionReports, DeployReports, CleanupReports,
     EnvironmentReports DEF Next, Worker

\* Every reachable state has it, when the cleanup notices every error it meets.
LEMMA ReportsInvariant ==
  ASSUME ~SilentErrors
  PROVE  Spec => []ReportsInv
<1>1. Init => ReportsInv
  <2> SUFFICES ASSUME Init PROVE ReportsInv
    OBVIOUS
  <2>1. PICK active \in BornActive : stack = NewStack(active)
    BY DEF Init
  <2>2. ~Well(stack.status) /\ stack.status.phase = ""
    BY <2>1 DEF NewStack, NoStack, NoStatus, Well
  <2> QED
    BY <2>2 DEF Init, ReportsInv, Relied, SavedCredentialsCalls
<1>2. Spec => []ProvisioningInv
  BY InitProvisioning, NextKeeps, TypeCorrect, PTL DEF Spec
<1> QED
  BY <1>1, <1>2, NextReports, TypeCorrect, ObjectInvariant, LeavingInvariant,
     EmptiedInvariant, PTL DEF Spec

\* A stack that reports Running has every deployment, its claim, and a secret
\* with the uri keys, in every state, when the cleanup notices every error.
THEOREM RunningIsReal ==
  ASSUME ~SilentErrors
  PROVE  Spec => []RunningIsComplete
<1>1. TypeOK /\ ObjectInv /\ ReportsInv => RunningIsComplete
  <2>1. "Running" \notin Leaving
    BY DEF Leaving
  <2> QED
    BY <2>1 DEF ReportsInv, Relied, Well, Intact, RunningIsComplete
<1> QED
  BY <1>1, TypeCorrect, ObjectInvariant, ReportsInvariant, PTL

\* A living stack that is Ready and not Degraded has every deployment and its
\* credentials, in every state, when the cleanup notices every error.
THEOREM ReadyIsReal ==
  ASSUME ~SilentErrors
  PROVE  Spec => []ReadyIsComplete
<1>1. ReportsInv => ReadyIsComplete
  BY DEF ReportsInv, Relied, Well, Intact, ReadyIsComplete, Live
<1> QED
  BY <1>1, ReportsInvariant, PTL

=============================================================================
