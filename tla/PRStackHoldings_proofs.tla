----------------------- MODULE PRStackHoldings_proofs -----------------------
(***************************************************************************)
(* Proofs, for every value of the constants, about what a stack holds in   *)
(* the cluster: the finalizer answers for the namespace and the MongoDB    *)
(* user, and the loops over the deployments leave none out.                *)
(***************************************************************************)
EXTENDS PRStackObject_proofs

-----------------------------------------------------------------------------
(* Steps that hold, release, start and stop nothing *)

Guarded(s) == s.exists /\ s.finalizer

\* The second round of the cleanup, and what follows the MongoDB part of it.
LateCalls ==
  {"cleanupMongoDB", "cleanupNATS", "cleanupRedis", "markCleaned", "removeFinalizer"}

LastCalls == LateCalls \ {"cleanupMongoDB"}

LoopCalls == {"scaleDown", "rollout"}

\* The calls for which an invariant of this module says something.
Watched == LateCalls \union LoopCalls

heldVars == <<namespace, mongoUser, replicas, restartedAt>>

Quiet ==
  /\ UNCHANGED heldVars
  /\ pc' \notin Watched
  /\ Guarded(stack) => Guarded(stack')
  /\ stack'.status.phase = "Inactive" => stack.status.phase = "Inactive"
  /\ stack.exists /\ stack'.exists
       => stack'.status.lastDeployedAt = stack.status.lastDeployedAt

\* What Hold does to pc.
LEMMA HoldCall ==
  ASSUME NEW next, NEW c, NEW current, Hold(next, c, current)
  PROVE  pc' = next
BY DEF Hold, EndReconcile

\* What a status write does to the stored object and to pc.
LEMMA StatusUpdateStored ==
  ASSUME TypeOK, ObjectInv, NEW status, NEW next, NEW otherwise,
         StatusUpdate(status, next, otherwise)
  PROVE  /\ pc' \in {next, otherwise}
         /\ \/ UNCHANGED stack /\ pc' = otherwise
            \/ /\ copyCurrent /\ Alike(copy, stack)
               /\ pc' = next
               /\ stack'.exists = stack.exists
               /\ stack'.deleting = stack.deleting
               /\ stack'.finalizer = stack.finalizer
               /\ stack'.status = status
<1>1. CASE /\ copyCurrent
           /\ Store([stack EXCEPT !.status = status])
           /\ Hold(next, [stack EXCEPT !.status = status], TRUE)
  BY <1>1, HoldCall, WithStatusFacts DEF Store, TypeOK, ApiOK, ObjectInv
<1>2. CASE /\ UNCHANGED apiVars
           /\ \E current \in {TRUE, FALSE} :
                Hold(otherwise, [copy EXCEPT !.status = status], current)
  BY <1>2, HoldCall DEF apiVars
<1> QED
  BY <1>1, <1>2 DEF StatusUpdate

\* A status write that is no scale-down and no rollout is quiet.
LEMMA StatusUpdateQuiet ==
  ASSUME TypeOK, ObjectInv, NEW status, NEW next, NEW otherwise,
         StatusUpdate(status, next, otherwise), UNCHANGED clusterVars,
         status.phase = "Inactive" => copy.status.phase = "Inactive",
         status.lastDeployedAt = copy.status.lastDeployedAt,
         next \notin Watched, otherwise \notin Watched
  PROVE  Quiet
<1>1. UNCHANGED heldVars
  BY DEF heldVars, clusterVars, k8sVars, mongoVars
<1> QED
  BY <1>1, StatusUpdateStored DEF Quiet, Guarded, Alike

\* An Update of a stack that is not being deleted is quiet.
LEMMA SpecUpdateQuiet ==
  ASSUME TypeOK, ObjectInv, NEW c \in PRStack, c.finalizer,
         NEW next \in {"idle", "setCreatedAt", "checkReactivation"},
         SpecUpdate(c, next, "idle"), UNCHANGED clusterVars
  PROVE  Quiet
<1>1. UNCHANGED heldVars
  BY DEF heldVars, clusterVars, k8sVars, mongoVars
<1>2. pc' \in {next, "idle"} /\ stack' \in {stack, Stored(c)}
  BY HoldCall DEF SpecUpdate, Store, apiVars
<1>3. /\ Stored(c).exists = stack.exists /\ Stored(c).finalizer
      /\ Stored(c).status = stack.status
  BY DEF Stored, TypeOK, ApiOK, PRStack
<1>4. pc' \notin Watched
  BY <1>2 DEF Watched, LateCalls, LoopCalls
<1> QED
  BY <1>1, <1>2, <1>3, <1>4 DEF Quiet, Guarded

\* A call that only reads, or only writes what is not held, is quiet.
LEMMA CallQuiet ==
  ASSUME UNCHANGED stack, UNCHANGED heldVars, pc' \notin Watched
  PROVE  Quiet
BY DEF Quiet

\* A dispatch never leads into the middle of a cleanup or of a loop.
LEMMA DispatchUnwatched ==
  /\ \A phase : PhaseHandler(phase) \notin Watched
  /\ \A c : AfterGet(c) \notin Watched /\ Dispatch(c) \notin Watched
BY DEF PhaseHandler, AfterGet, DeletionHandler, Dispatch, Watched, LateCalls, LoopCalls

\* The steps of the worker that are quiet.
QuietWork ==
  \/ FetchPRStack \/ AddFinalizer \/ SetCreatedAt
  \/ CheckReactivation \/ CheckExpiration
  \/ CheckReplicas \/ CheckHealth \/ RecordRolloutError \/ UpdateStatusWithError
  \/ Reactivate \/ HandleInitialization
  \/ CreateCollections \/ SaveCredentials \/ CreateMongoDBSecret \/ FinishProvisioning
  \/ CreateRegistrySecret \/ CreateMongoDBResources
  \/ EnsureBackupStorage \/ FinishDeployment
  \/ MarkCleaning \/ CreateBackup

\* They are.
LEMMA QuietWorkQuiet == TypeOK /\ ObjectInv /\ QuietWork => Quiet
<1> SUFFICES ASSUME TypeOK, ObjectInv, QuietWork PROVE Quiet
  OBVIOUS
<1>a. copy \in PRStack /\ copy.status \in Status /\ Entitled(pc, copy)
  BY DEF TypeOK, WorkerOK, PRStack, ObjectInv
<1>b. {"idle", "setCreatedAt", "checkReactivation", "checkExpiration", "scaleUp",
       "checkHealth", "updateStatusWithError", "initialize", "saveCredentials",
       "createMongoDBSecret", "finishProvisioning", "createMongoDBResources",
       "createNATSResources", "createServices", "all.mongoDB"}
         \intersect Watched = {}
  BY DEF Watched, LateCalls, LoopCalls
<1>c. UNCHANGED clusterVars => UNCHANGED heldVars
  BY DEF heldVars, clusterVars, k8sVars, mongoVars
<1>d. UNCHANGED apiVars => UNCHANGED stack
  BY DEF apiVars
<1>1. CASE FetchPRStack
  BY <1>1, <1>c, <1>d, HoldCall, DispatchUnwatched, CallQuiet DEF FetchPRStack
<1>2. CASE AddFinalizer
  <2>1. /\ [copy EXCEPT !.finalizer = TRUE] \in PRStack
        /\ [copy EXCEPT !.finalizer = TRUE].finalizer
    BY <1>a DEF PRStack
  <2> QED
    BY <2>1, <1>2, SpecUpdateQuiet DEF AddFinalizer
<1>3. CASE SetCreatedAt
  BY <1>3, <1>a, <1>b, StatusUpdateQuiet DEF SetCreatedAt, Status
<1>4. CASE CheckReactivation
  <2>1. CASE BecomesActive(copy)
    BY <2>1, <1>4, <1>a, <1>b, DispatchUnwatched, StatusUpdateQuiet
       DEF CheckReactivation, Status
  <2>2. CASE ~BecomesActive(copy)
    BY <2>2, <1>4, <1>b, <1>c, <1>d, HoldCall, CallQuiet DEF CheckReactivation, Goto
  <2> QED
    BY <2>1, <2>2
<1>5. CASE CheckExpiration
  <2>1. /\ [copy EXCEPT !.active = FALSE] \in PRStack
        /\ [copy EXCEPT !.active = FALSE].finalizer = copy.finalizer
    BY <1>a DEF PRStack
  <2>2. copy.finalizer
    BY <1>5, <1>a
       DEF CheckExpiration, Entitled, Working, DeletionCalls, CleanupCalls, EarlyCalls
  <2>3. CASE IsStackExpired(copy.status) /\ copy.active
    BY <2>1, <2>2, <2>3, <1>5, SpecUpdateQuiet DEF CheckExpiration
  <2>4. CASE ~(IsStackExpired(copy.status) /\ copy.active)
    BY <2>4, <1>5, <1>c, <1>d, HoldCall, DispatchUnwatched, CallQuiet
       DEF CheckExpiration, Goto
  <2> QED
    BY <2>3, <2>4
<1>6. CASE CheckReplicas
  BY <1>6, <1>b, <1>c, <1>d, HoldCall, CallQuiet
     DEF CheckReplicas, CallFails, StartLoop, Goto
<1>7. CASE CheckHealth
  <2>1. CASE copy.status.unhealthy
    BY <2>1, <1>7, <1>b, StatusUpdateQuiet DEF CheckHealth
  <2>2. CASE ~copy.status.unhealthy
    BY <2>2, <1>7, <1>b, <1>c, <1>d, CallQuiet DEF CheckHealth, EndReconcile
  <2> QED
    BY <2>1, <2>2
<1>8. CASE RecordRolloutError
  BY <1>8, <1>b, StatusUpdateQuiet DEF RecordRolloutError
<1>9. CASE UpdateStatusWithError
  BY <1>9, <1>a, <1>b, StatusUpdateQuiet DEF UpdateStatusWithError, FailedStatus, Status
<1>10. CASE Reactivate
  BY <1>10, <1>a, <1>b, StatusUpdateQuiet DEF Reactivate, Status
<1>11. CASE HandleInitialization
  BY <1>11, <1>a, <1>b, StatusUpdateQuiet DEF HandleInitialization, Status
<1>12. CASE CreateCollections
  BY <1>12, <1>b, <1>d, HoldCall, CallQuiet
     DEF CreateCollections, CallFails, Goto, heldVars, k8sVars
<1>13. CASE SaveCredentials
  BY <1>13, <1>a, <1>b, StatusUpdateQuiet DEF SaveCredentials, WithCredentials, Status
<1>14. CASE CreateMongoDBSecret \/ CreateMongoDBResources
  BY <1>14, <1>b, <1>d, HoldCall, CallQuiet
     DEF CreateMongoDBSecret, CreateMongoDBResources, WriteSecret, CallFails,
         Goto, heldVars, mongoVars
<1>15. CASE FinishProvisioning
  BY <1>15, <1>a, <1>b, StatusUpdateQuiet DEF FinishProvisioning, Provisioned, Status
<1>16. CASE CreateRegistrySecret
  BY <1>16, <1>b, <1>c, <1>d, HoldCall, CallQuiet
     DEF CreateRegistrySecret, CallFails, Goto
<1>17. CASE EnsureBackupStorage
  BY <1>17, <1>b, <1>d, HoldCall, CallQuiet
     DEF EnsureBackupStorage, CallFails, StartLoop, Goto, heldVars, mongoVars
<1>18. CASE FinishDeployment
  <2>1. /\ DeployedStatus(copy.status).phase \in {"Failed", "Degraded", "Running"}
        /\ DeployedStatus(copy.status).lastDeployedAt = copy.status.lastDeployedAt
    BY <1>a DEF DeployedStatus, PhaseAfterDeployment, Status
  <2> QED
    BY <2>1, <1>18, <1>b, StatusUpdateQuiet DEF FinishDeployment
<1>19. CASE MarkCleaning
  BY <1>19, <1>a, <1>b, StatusUpdateQuiet DEF MarkCleaning, Status
<1>20. CASE CreateBackup
  BY <1>20, <1>b, <1>d, HoldCall, CallQuiet DEF CreateBackup, Goto, heldVars, mongoVars
<1> QED
  BY <1>1, <1>2, <1>3, <1>4, <1>5, <1>6, <1>7, <1>8, <1>9, <1>10, <1>11, <1>12,
     <1>13, <1>14, <1>15, <1>16, <1>17, <1>18, <1>19, <1>20 DEF QuietWork

\* The others, but for four, do not write the object.
LEMMA WorkWithoutWrite ==
  Worker => \/ QuietWork \/ UNCHANGED stack \/ RecordRollout
            \/ MarkInactive \/ MarkCleaned \/ RemoveFinalizer
<1> SUFFICES ASSUME Worker, ~QuietWork, ~RecordRollout, ~MarkInactive,
                    ~MarkCleaned, ~RemoveFinalizer
             PROVE  UNCHANGED stack
  OBVIOUS
<1>1. CASE ReconcileNext
  BY <1>1
     DEF ReconcileNext, QuietWork, ListForScaleDown, ScaleDown, ScaleDownFails,
         ScaleUp, ListForRollout, RolloutDeployment, RolloutFails, ItemFails,
         CallFails, StartLoop, LoopOn, apiVars
<1>2. CASE ProvisionNext
  BY <1>2
     DEF ProvisionNext, QuietWork, CreateNamespace, DropUser, CreateUser,
         CallFails, apiVars
<1>3. CASE DeployNext
  BY <1>3
     DEF DeployNext, QuietWork, CreateNATSResources, CreateRedisResources,
         DeployInfra, CreateServiceDeployment, CallFails, apiVars
<1>4. CASE CleanupNext
  BY <1>4
     DEF CleanupNext, QuietWork, CleanupAllMongoDB, CleanupAllNATS,
         CleanupAllRedis, CleanupAllServices, CleanupMongoDBAgain, CleanupNATS,
         CleanupRedis, CleanupMongoDB, CleanupDeployment, CleanupServices, apiVars
<1> QED
  BY <1>1, <1>2, <1>3, <1>4 DEF Worker

\* So is the rest of the system, but for the namespace controller, as far as
\* the worker's call is concerned that it does not make.
LEMMA OutsideQuiet ==
  TypeOK /\ ObjectInv /\ (Crash \/ User \/ CompleteBackup \/ Watch \/ Clock)
    => /\ UNCHANGED heldVars
       /\ pc' = "idle" \/ UNCHANGED <<pc, copy, todo>>
       /\ Guarded(stack) => Guarded(stack')
       /\ stack'.status.phase = "Inactive" => stack.status.phase = "Inactive"
       /\ stack.exists /\ stack'.exists
            => stack'.status.lastDeployedAt = stack.status.lastDeployedAt
<1> SUFFICES ASSUME TypeOK, ObjectInv, Crash \/ User \/ CompleteBackup \/ Watch \/ Clock
             PROVE  /\ UNCHANGED heldVars
                    /\ pc' = "idle" \/ UNCHANGED <<pc, copy, todo>>
                    /\ Guarded(stack) => Guarded(stack')
                    /\ stack'.status.phase = "Inactive" => stack.status.phase = "Inactive"
                    /\ stack.exists /\ stack'.exists
                         => stack'.status.lastDeployedAt = stack.status.lastDeployedAt
  OBVIOUS
<1>a. stack \in PRStack
  BY DEF TypeOK, ApiOK
<1>c. UNCHANGED clusterVars => UNCHANGED heldVars
  BY DEF heldVars, clusterVars, k8sVars, mongoVars
<1>1. CASE Crash
  BY <1>1, <1>c DEF Crash, EndReconcile
<1>2. CASE User
  <2>1. UNCHANGED heldVars /\ UNCHANGED <<pc, copy, todo>>
    BY <1>2, <1>c DEF User, SetActive, SetDeployedAt, DeleteStack, CreateStack, UserStore
  <2>2. CASE \E active \in BOOLEAN : SetActive(active)
    BY <2>1, <2>2, <1>a DEF SetActive, UserStore, PRStack, Guarded
  <2>3. CASE SetDeployedAt
    BY <2>1, <2>3, <1>a DEF SetDeployedAt, UserStore, PRStack, Guarded
  <2>4. CASE DeleteStack
    BY <2>1, <2>4, <1>a, NoStackFacts DEF DeleteStack, UserStore, PRStack, Guarded
  <2>5. CASE \E active \in BornActive : CreateStack(active)
    <3>1. stack'.status.phase = "" /\ ~stack.exists
      BY <2>5, FlagsAssumption, NewStackTyped, NoStackFacts DEF CreateStack, UserStore
    <3> QED
      BY <2>1, <3>1 DEF Guarded
  <2> QED
    BY <2>2, <2>3, <2>4, <2>5, <1>2 DEF User
<1>3. CASE CompleteBackup
  BY <1>3 DEF CompleteBackup, heldVars, mongoVars, apiVars, workerVars
<1>4. CASE Watch \/ Clock
  BY <1>4, <1>c DEF Watch, SyncCache, Clock, Tick, apiVars, workerVars
<1> QED
  BY <1>1, <1>2, <1>3, <1>4

-----------------------------------------------------------------------------
(* The finalizer *)

HoldingInv ==
  /\ FinalizerGuards
  /\ pc \in LateCalls => namespace # "active"
  /\ pc \in LastCalls => mongoUser = Nil

\* A step after which nothing more is held, and which does not go on in the
\* second round of the cleanup.
LEMMA HoldsNoMore ==
  ASSUME HoldingInv, namespace' \in {namespace, "terminating", "absent"},
         mongoUser' \in {mongoUser, Nil},
         Guarded(stack) => Guarded(stack'), pc' \notin LateCalls
  PROVE  HoldingInv'
BY DEF HoldingInv, FinalizerGuards, Guarded, LastCalls

\* The finalizer is there when the worker provisions.
LEMMA ProvisionGuarded ==
  ASSUME ObjectInv, pc \in ProvisionCalls
  PROVE  Guarded(stack)
<1>1. Working(copy)
  BY DEF ObjectInv, Entitled, ProvisionCalls, DeletionCalls, CleanupCalls, EarlyCalls
<1> QED
  BY <1>1 DEF ObjectInv, AsOld, Guarded

\* The steps of Reconcile and of the two handlers.
LEMMA WorkHolds ==
  TypeOK /\ ObjectInv /\ HoldingInv /\ (ReconcileNext \/ ProvisionNext \/ DeployNext)
    => HoldingInv'
<1> SUFFICES ASSUME TypeOK, ObjectInv, HoldingInv,
                    ReconcileNext \/ ProvisionNext \/ DeployNext
             PROVE  HoldingInv'
  OBVIOUS
<1>a. {"scaleDown", "scaleUp", "checkHealth", "rollout", "updateStatusWithError",
       "recordRolloutError", "idle", "dropUser", "createUser", "createCollections",
       "createRedisResources", "ensureBackupStorage", "createServices"}
         \intersect LateCalls = {}
  BY DEF LateCalls
<1>b. UNCHANGED clusterVars => UNCHANGED <<namespace, mongoUser>>
  BY DEF clusterVars, k8sVars, mongoVars
<1>1. CASE QuietWork
  BY <1>1, QuietWorkQuiet, HoldsNoMore DEF Quiet, heldVars, Watched
<1>2. CASE ListForScaleDown \/ ListForRollout
  BY <1>2, <1>a, <1>b, HoldCall, HoldsNoMore
     DEF ListForScaleDown, ListForRollout, StartLoop, CallFails, Goto, apiVars
<1>3. CASE ScaleDown \/ ScaleUp \/ RolloutDeployment
  BY <1>3, <1>a, <1>b, HoldCall, HoldsNoMore
     DEF ScaleDown, ScaleDownFails, ScaleUp, RolloutDeployment, RolloutFails,
         ItemFails, LoopOn, Goto, apiVars, mongoVars
<1>4. CASE MarkInactive
  BY <1>4, <1>a, <1>b, StatusUpdateStored, HoldsNoMore DEF MarkInactive, Guarded
<1>5. CASE RecordRollout
  BY <1>5, <1>a, <1>b, StatusUpdateStored, DispatchUnwatched, HoldsNoMore
     DEF RecordRollout, Guarded, Watched
<1>6. CASE CreateNamespace \/ DropUser \/ CreateUser
  <2>1. Guarded(stack)
    BY <1>6, ProvisionGuarded DEF CreateNamespace, DropUser, CreateUser, ProvisionCalls
  <2>2. UNCHANGED stack /\ pc' \notin LateCalls
    BY <1>6, <1>a, HoldCall
       DEF CreateNamespace, DropUser, CreateUser, CallFails, Goto, apiVars
  <2> QED
    BY <2>1, <2>2 DEF HoldingInv, FinalizerGuards, Guarded, LastCalls
<1>7. CASE CreateNATSResources \/ CreateRedisResources
  BY <1>7, <1>a, HoldCall, HoldsNoMore
     DEF CreateNATSResources, CreateRedisResources, DeployInfra, CallFails, Goto,
         apiVars, mongoVars
<1>8. CASE CreateServiceDeployment
  BY <1>8, <1>a, HoldsNoMore DEF CreateServiceDeployment, apiVars, mongoVars
<1> QED
  BY <1>1, <1>2, <1>3, <1>4, <1>5, <1>6, <1>7, <1>8
     DEF ReconcileNext, ProvisionNext, DeployNext, QuietWork

\* The steps of the cleanup, when it notices every error it meets.
LEMMA CleanupHolds ==
  ASSUME ~SilentErrors
  PROVE  TypeOK /\ ObjectInv /\ HoldingInv /\ CleanupNext => HoldingInv'
<1> SUFFICES ASSUME TypeOK, ObjectInv, HoldingInv, CleanupNext PROVE HoldingInv'
  OBVIOUS
<1>a. namespace \in {"absent", "active", "terminating"}
  BY DEF TypeOK, ClusterOK
<1>b. UNCHANGED clusterVars => UNCHANGED <<namespace, mongoUser>>
  BY DEF clusterVars, k8sVars, mongoVars
<1>1. CASE MarkCleaning \/ CreateBackup
  BY <1>1, QuietWorkQuiet, HoldsNoMore DEF QuietWork, Quiet, heldVars, Watched
<1>2. CASE CleanupAllMongoDB \/ CleanupAllNATS \/ CleanupAllRedis
  <2>1. pc' \notin LateCalls
    BY <1>2, HoldCall
       DEF CleanupAllMongoDB, CleanupAllNATS, CleanupAllRedis, CleanupMongoDB,
           CleanupDeployment, Goto, LateCalls
  <2>2. /\ UNCHANGED <<stack, namespace>>
        /\ mongoUser' \in {mongoUser, Nil}
    BY <1>2
       DEF CleanupAllMongoDB, CleanupAllNATS, CleanupAllRedis, CleanupMongoDB,
           CleanupDeployment, apiVars, k8sVars, mongoVars
  <2> QED
    BY <2>1, <2>2, HoldsNoMore
<1>3. CASE CleanupAllServices
  <2>1. UNCHANGED <<stack, mongoUser>>
    BY <1>3 DEF CleanupAllServices, CleanupServices, apiVars, mongoVars
  <2>2. \/ pc' = "cleanupMongoDB" /\ namespace' \in {"absent", "terminating"}
        \/ pc' = "updateStatusWithError" /\ namespace' = namespace
    BY <1>3, <1>a, HoldCall DEF CleanupAllServices, CleanupServices, Goto
  <2> QED
    BY <2>1, <2>2 DEF HoldingInv, FinalizerGuards, LateCalls, LastCalls
<1>4. CASE CleanupMongoDBAgain
  <2>1. UNCHANGED <<stack, namespace>> /\ pc = "cleanupMongoDB"
    BY <1>4 DEF CleanupMongoDBAgain, CleanupMongoDB, apiVars, k8sVars
  <2>2. \/ pc' = "cleanupNATS" /\ mongoUser' = Nil
        \/ pc' = "updateStatusWithError" /\ mongoUser' = mongoUser
    BY <1>4, HoldCall
       DEF CleanupMongoDBAgain, CleanupMongoDB, MongoDBCleanupFailed, Goto, mongoVars
  <2> QED
    BY <2>1, <2>2 DEF HoldingInv, FinalizerGuards, LateCalls, LastCalls
<1>5. CASE CleanupNATS \/ CleanupRedis
  <2>1. UNCHANGED <<stack, namespace, mongoUser>> /\ pc \in LastCalls
    BY <1>5
       DEF CleanupNATS, CleanupRedis, CleanupDeployment, apiVars, mongoVars,
           LastCalls, LateCalls
  <2> QED
    BY <2>1 DEF HoldingInv, FinalizerGuards, LastCalls
<1>6. CASE MarkCleaned
  <2>1. /\ UNCHANGED <<namespace, mongoUser>> /\ pc \in LastCalls
        /\ Guarded(stack) => Guarded(stack')
    BY <1>6, <1>b, StatusUpdateStored DEF MarkCleaned, Guarded, LastCalls, LateCalls
  <2> QED
    BY <2>1 DEF HoldingInv, FinalizerGuards, Guarded, LastCalls
<1>7. CASE RemoveFinalizer
  <2>1. UNCHANGED <<namespace, mongoUser>> /\ pc \in LastCalls
    BY <1>7, <1>b DEF RemoveFinalizer, LastCalls, LateCalls
  <2> QED
    BY <2>1 DEF HoldingInv, FinalizerGuards, LastCalls
<1> QED
  BY <1>1, <1>2, <1>3, <1>4, <1>5, <1>6, <1>7 DEF CleanupNext

\* The invariant is inductive.
LEMMA NextHolds ==
  ASSUME ~SilentErrors
  PROVE  TypeOK /\ ObjectInv /\ HoldingInv /\ [Next]_vars => HoldingInv'
<1> SUFFICES ASSUME TypeOK, ObjectInv, HoldingInv, [Next]_vars PROVE HoldingInv'
  OBVIOUS
<1>1. CASE Worker
  BY <1>1, WorkHolds, CleanupHolds DEF Worker
<1>2. CASE Crash \/ User \/ CompleteBackup \/ Watch \/ Clock
  <2>1. "idle" \notin LateCalls
    BY DEF LateCalls
  <2> QED
    BY <2>1, <1>2, OutsideQuiet
       DEF heldVars, HoldingInv, FinalizerGuards, Guarded, LastCalls
<1>3. CASE PurgeNamespace
  BY <1>3
     DEF PurgeNamespace, apiVars, workerVars, mongoVars, HoldingInv, FinalizerGuards
<1>4. CASE UNCHANGED vars
  BY <1>4
     DEF vars, apiVars, workerVars, clusterVars, k8sVars, mongoVars, HoldingInv,
         FinalizerGuards
<1> QED
  BY <1>1, <1>2, <1>3, <1>4 DEF Next, Cluster

\* Every reachable state has it, when the cleanup notices every error it meets.
LEMMA HoldingInvariant ==
  ASSUME ~SilentErrors
  PROVE  Spec => []HoldingInv
<1>1. Init => HoldingInv
  BY DEF Init, HoldingInv, FinalizerGuards, LateCalls, LastCalls
<1> QED
  BY <1>1, NextHolds, TypeCorrect, ObjectInvariant, PTL DEF Spec

\* The finalizer is there before the namespace and the MongoDB user are and
\* until both are gone, whatever the user, the crashes and the stale reads do,
\* when the cleanup notices every error it meets.
THEOREM FinalizerCovers ==
  ASSUME ~SilentErrors
  PROVE  Spec => []FinalizerGuards
<1>1. HoldingInv => FinalizerGuards
  BY DEF HoldingInv
<1> QED
  BY <1>1, HoldingInvariant, PTL

-----------------------------------------------------------------------------
(* The loops *)

LoopInv ==
  /\ pc = "scaleDown" => \A d \in Existing : replicas[d] = 0 \/ d \in todo
  /\ pc = "rollout" => \A d \in Existing : restartedAt[d] = copy.deployedAt \/ d \in todo
  /\ InactiveIsScaledDown

\* A step outside the loops that leaves deployments alone or removes them.
LEMMA LoopsRest ==
  ASSUME LoopInv, pc' \notin LoopCalls,
         \A d \in Deployments : replicas'[d] \in {replicas[d], Absent},
         stack'.status.phase = "Inactive" => stack.status.phase = "Inactive"
  PROVE  LoopInv'
<1>1. \A d \in Existing' : d \in Existing /\ replicas'[d] = replicas[d]
  BY DEF Existing
<1>2. InactiveIsScaledDown'
  BY <1>1 DEF LoopInv, InactiveIsScaledDown
<1> QED
  BY <1>2 DEF LoopInv, LoopCalls

\* A stack whose deployments the worker starts does not report Inactive.
LEMMA StartedIsNotInactive ==
  ASSUME ObjectInv, pc \in DeployCalls \union ServeCalls
  PROVE  stack.status.phase # "Inactive"
<1>1. copy.active /\ copy.status.phase \in {"Deploying", "Running", "Degraded"}
  BY DEF ObjectInv, Entitled, DeployCalls, ServeCalls, ActiveCalls
<1> QED
  BY <1>1 DEF ObjectInv, AsOld, Parked

\* The steps of Reconcile, when the List shows all deployments.
LEMMA ReconcileLoops ==
  ASSUME ~ListLag
  PROVE  TypeOK /\ ObjectInv /\ LoopInv /\ ReconcileNext => LoopInv'
<1> SUFFICES ASSUME TypeOK, ObjectInv, LoopInv, ReconcileNext PROVE LoopInv'
  OBVIOUS
<1>a. {"updateStatusWithError", "checkHealth", "recordRolloutError", "idle", "scaleUp"}
         \intersect LoopCalls = {}
  BY DEF LoopCalls
<1>b. UNCHANGED clusterVars => UNCHANGED <<replicas, restartedAt>>
  BY DEF clusterVars, k8sVars
<1>c. /\ UNCHANGED replicas => \A d \in Deployments : replicas'[d] \in {replicas[d], Absent}
      /\ replicas \in [Deployments -> {0, 1, Absent}]
      /\ restartedAt \in [Deployments -> 0..MaxDeployedAt]
      /\ Existing \subseteq Deployments
      /\ InactiveIsScaledDown
  BY DEF TypeOK, ClusterOK, Existing, LoopInv
<1>1. CASE QuietWork
  BY <1>1, <1>c, QuietWorkQuiet, LoopsRest DEF Quiet, heldVars, Watched
<1>2. CASE ListForScaleDown
  <2>1. CASE CallFails("updateStatusWithError")
    BY <2>1, <1>2, <1>a, <1>b, <1>c, HoldCall, LoopsRest
       DEF ListForScaleDown, CallFails, Goto, apiVars
  <2>2. CASE StartLoop("scaleDown", ToScale(0, Existing))
    BY <2>2, <1>2, <1>b, <1>c
       DEF ListForScaleDown, StartLoop, ToScale, apiVars, LoopInv,
           InactiveIsScaledDown, Existing
  <2> QED
    BY <2>1, <2>2, <1>2 DEF ListForScaleDown, ListDeployments
<1>3. CASE ScaleDown
  <2>1. ASSUME NEW d \in todo, ScaleDownFails(d), UNCHANGED replicas PROVE LoopInv'
    BY <2>1, <1>a, <1>c, HoldCall, LoopsRest
       DEF ScaleDownFails, ItemFails, Goto, apiVars
  <2>2. ASSUME NEW d \in todo, replicas[d] # Absent,
               replicas' = [replicas EXCEPT ![d] = 0], LoopOn(d)
        PROVE  LoopInv'
    <3>1. UNCHANGED <<pc, stack>> /\ todo' = todo \ {d} /\ pc = "scaleDown"
      BY <2>2, <1>3 DEF LoopOn, ScaleDown, apiVars
    <3>a. replicas \in [Deployments -> {0, 1, Absent}]
      BY <1>c
    <3>b. \A e \in Deployments : replicas'[e] = IF e = d THEN 0 ELSE replicas[e]
      BY <3>a, <2>2
    <3>2. \A e \in Existing' :
            /\ e \in Existing
            /\ replicas'[e] = 0 \/ (replicas'[e] = replicas[e] /\ e # d)
      BY <3>b, <2>2 DEF Existing
    <3>3. \A e \in Existing' : replicas'[e] = 0 \/ e \in todo'
      BY <3>1, <3>2 DEF LoopInv
    <3>4. InactiveIsScaledDown'
      BY <3>1, <3>2, <1>c DEF InactiveIsScaledDown
    <3> QED
      BY <3>1, <3>3, <3>4 DEF LoopInv
  <2> QED
    BY <2>1, <2>2, <1>3 DEF ScaleDown
<1>4. CASE MarkInactive
  <2>1. UNCHANGED replicas /\ \A d \in Existing : replicas[d] = 0
    BY <1>4, <1>b DEF MarkInactive, LoopInv
  <2>2. pc' = "idle"
    BY <1>4, StatusUpdateStored DEF MarkInactive
  <2> QED
    BY <2>1, <2>2 DEF LoopInv, InactiveIsScaledDown, Existing
<1>5. CASE ScaleUp
  <2>1. stack.status.phase # "Inactive" /\ UNCHANGED stack
    BY <1>5, StartedIsNotInactive
       DEF ServeCalls, ScaleUp, LoopOn, ItemFails, apiVars
  <2>2. pc' \in {"scaleUp", "checkHealth"}
    BY <1>5, HoldCall DEF ScaleUp, LoopOn, ItemFails, Goto
  <2> QED
    BY <2>1, <2>2 DEF LoopInv, InactiveIsScaledDown
<1>6. CASE ListForRollout
  <2>1. CASE CallFails("recordRolloutError")
    BY <2>1, <1>6, <1>a, <1>b, <1>c, HoldCall, LoopsRest
       DEF ListForRollout, CallFails, Goto, apiVars
  <2>2. CASE StartLoop("rollout", Existing)
    BY <2>2, <1>6, <1>b, <1>c
       DEF ListForRollout, StartLoop, apiVars, LoopInv, InactiveIsScaledDown, Existing
  <2> QED
    BY <2>1, <2>2, <1>6 DEF ListForRollout, ListDeployments
<1>7. CASE RolloutDeployment
  <2>1. ASSUME NEW d \in todo, RolloutFails(d), UNCHANGED restartedAt PROVE LoopInv'
    BY <2>1, <1>7, <1>a, <1>c, HoldCall, LoopsRest
       DEF RolloutDeployment, RolloutFails, ItemFails, Goto, apiVars
  <2>2. ASSUME NEW d \in todo, replicas[d] # Absent, LoopOn(d), UNCHANGED replicas,
               restartedAt' = [restartedAt EXCEPT ![d] = copy.deployedAt]
        PROVE  LoopInv'
    <3>1. UNCHANGED <<pc, stack, copy>> /\ todo' = todo \ {d} /\ pc = "rollout"
      BY <2>2, <1>7 DEF LoopOn, RolloutDeployment, apiVars
    <3>2. Existing' = Existing
      BY <2>2 DEF Existing
    <3>a. restartedAt \in [Deployments -> 0..MaxDeployedAt]
      BY <1>c
    <3>b. \A e \in Deployments :
            restartedAt'[e] = IF e = d THEN copy.deployedAt ELSE restartedAt[e]
      BY <3>a, <2>2
    <3>3. \A e \in Existing :
            \/ restartedAt'[e] = copy.deployedAt
            \/ restartedAt'[e] = restartedAt[e] /\ e # d
      BY <3>b, <1>c
    <3>4. \A e \in Existing : restartedAt'[e] = copy.deployedAt \/ e \in todo'
      BY <3>1, <3>3 DEF LoopInv
    <3>5. InactiveIsScaledDown'
      BY <3>1, <3>2, <2>2, <1>c DEF InactiveIsScaledDown
    <3> QED
      BY <3>1, <3>2, <3>4, <3>5 DEF LoopInv
  <2> QED
    BY <2>1, <2>2, <1>7 DEF RolloutDeployment
<1>8. CASE RecordRollout
  <2>1. RolledOut(copy).phase = copy.status.phase
    BY DEF RolledOut, TypeOK, WorkerOK, PRStack, Status
  <2>2. stack'.status.phase = "Inactive" => stack.status.phase = "Inactive"
    BY <2>1, <1>8, StatusUpdateStored DEF RecordRollout, Alike
  <2>3. pc' \notin LoopCalls
    BY <1>8, <1>a, StatusUpdateStored, DispatchUnwatched DEF RecordRollout, Watched
  <2> QED
    BY <2>2, <2>3, <1>8, <1>b, <1>c, LoopsRest DEF RecordRollout
<1> QED
  BY <1>1, <1>2, <1>3, <1>4, <1>5, <1>6, <1>7, <1>8 DEF ReconcileNext, QuietWork

\* The steps of the other handlers.
LEMMA HandlersLoop ==
  TypeOK /\ ObjectInv /\ LoopInv /\ (ProvisionNext \/ DeployNext \/ CleanupNext)
    => LoopInv'
<1> SUFFICES ASSUME TypeOK, ObjectInv, LoopInv,
                    ProvisionNext \/ DeployNext \/ CleanupNext
             PROVE  LoopInv'
  OBVIOUS
<1>b. UNCHANGED clusterVars => UNCHANGED replicas
  BY DEF clusterVars, k8sVars
<1>c. UNCHANGED replicas => \A d \in Deployments : replicas'[d] \in {replicas[d], Absent}
  OBVIOUS
<1>1. CASE QuietWork
  BY <1>1, <1>c, QuietWorkQuiet, LoopsRest DEF Quiet, heldVars, Watched
<1>2. CASE CreateNamespace \/ DropUser \/ CreateUser
  <2>1. UNCHANGED <<stack, replicas>>
    BY <1>2 DEF CreateNamespace, DropUser, CreateUser, CallFails, apiVars, k8sVars
  <2>2. pc' \notin LoopCalls
    BY <1>2, HoldCall DEF CreateNamespace, DropUser, CreateUser, CallFails, Goto, LoopCalls
  <2> QED
    BY <2>1, <2>2, <1>c, LoopsRest
<1>3. CASE CreateNATSResources \/ CreateRedisResources \/ CreateServiceDeployment
  <2>1. pc \in DeployCalls /\ UNCHANGED stack
    BY <1>3
       DEF CreateNATSResources, CreateRedisResources, CreateServiceDeployment,
           DeployInfra, CallFails, apiVars, DeployCalls
  <2>2. pc' \notin LoopCalls
    BY <1>3, HoldCall
       DEF CreateNATSResources, CreateRedisResources, CreateServiceDeployment,
           DeployInfra, CallFails, Goto, LoopCalls
  <2>3. stack'.status.phase # "Inactive"
    BY <2>1, StartedIsNotInactive
  <2> QED
    BY <2>2, <2>3 DEF LoopInv, InactiveIsScaledDown, LoopCalls
<1>4. CASE \/ CleanupAllMongoDB \/ CleanupMongoDBAgain \/ CleanupAllServices
  <2>1. UNCHANGED <<stack, replicas>>
    BY <1>4
       DEF CleanupAllMongoDB, CleanupMongoDBAgain, CleanupMongoDB,
           CleanupAllServices, CleanupServices, apiVars, k8sVars
  <2>2. pc' \notin LoopCalls
    BY <1>4, HoldCall
       DEF CleanupAllMongoDB, CleanupMongoDBAgain, CleanupMongoDB,
           MongoDBCleanupFailed, CleanupAllServices, CleanupServices, Goto, LoopCalls
  <2> QED
    BY <2>1, <2>2, <1>c, LoopsRest
<1>5. CASE CleanupAllNATS \/ CleanupAllRedis \/ CleanupNATS \/ CleanupRedis
  <2>1. UNCHANGED stack
    BY <1>5
       DEF CleanupAllNATS, CleanupAllRedis, CleanupNATS, CleanupRedis,
           CleanupDeployment, apiVars
  <2>2. \E d : Remove(d) \/ UNCHANGED replicas
    BY <1>5
       DEF CleanupAllNATS, CleanupAllRedis, CleanupNATS, CleanupRedis, CleanupDeployment
  <2>3. \A d \in Deployments : replicas'[d] \in {replicas[d], Absent}
    BY <2>2 DEF Remove, TypeOK, ClusterOK
  <2>4. pc' \notin LoopCalls
    BY <1>5, HoldCall
       DEF CleanupAllNATS, CleanupAllRedis, CleanupNATS, CleanupRedis,
           CleanupDeployment, Goto, LoopCalls
  <2> QED
    BY <2>1, <2>3, <2>4, LoopsRest
<1>6. CASE MarkCleaned
  <2> DEFINE status == [copy.status EXCEPT !.phase = "Cleaned"]
  <2>1. status.phase = "Cleaned"
    BY DEF TypeOK, WorkerOK, PRStack, Status
  <2> HIDE DEF status
  <2>a. StatusUpdate(status, "removeFinalizer", "idle")
    BY <1>6 DEF MarkCleaned, status
  <2>2. /\ pc' \notin LoopCalls
        /\ stack'.status.phase = "Inactive" => stack.status.phase = "Inactive"
    BY <2>1, <2>a, StatusUpdateStored DEF LoopCalls
  <2> QED
    BY <2>2, <1>6, <1>b, <1>c, LoopsRest DEF MarkCleaned
<1>7. CASE RemoveFinalizer
  <2>1. /\ pc' \notin LoopCalls
        /\ stack'.status \in {stack.status, NoStatus}
    <3>1. [copy EXCEPT !.finalizer = FALSE] \in PRStack
      BY DEF TypeOK, WorkerOK, PRStack
    <3> QED
      BY <3>1, <1>7, HoldCall, StoredTyped
         DEF RemoveFinalizer, SpecUpdate, Store, apiVars, LoopCalls
  <2> QED
    BY <2>1, <1>7, <1>b, <1>c, LoopsRest, NoStackFacts DEF RemoveFinalizer
<1> QED
  BY <1>1, <1>2, <1>3, <1>4, <1>5, <1>6, <1>7
     DEF ProvisionNext, DeployNext, CleanupNext, QuietWork

\* The invariant is inductive.
LEMMA NextLoops ==
  ASSUME ~ListLag
  PROVE  TypeOK /\ ObjectInv /\ LoopInv /\ [Next]_vars => LoopInv'
<1> SUFFICES ASSUME TypeOK, ObjectInv, LoopInv, [Next]_vars PROVE LoopInv'
  OBVIOUS
<1>1. CASE Worker
  BY <1>1, ReconcileLoops, HandlersLoop DEF Worker
<1>2. CASE Crash \/ User \/ CompleteBackup \/ Watch \/ Clock
  <2>1. /\ UNCHANGED <<replicas, restartedAt>>
        /\ pc' = "idle" \/ UNCHANGED <<pc, copy, todo>>
        /\ stack'.status.phase = "Inactive" => stack.status.phase = "Inactive"
    BY <1>2, OutsideQuiet DEF heldVars
  <2> QED
    BY <2>1 DEF LoopInv, InactiveIsScaledDown, Existing
<1>3. CASE PurgeNamespace
  <2>1. Existing' = {} /\ UNCHANGED <<stack, pc, todo>>
    BY <1>3 DEF PurgeNamespace, Existing, NoDeployments, apiVars, workerVars
  <2> QED
    BY <2>1 DEF LoopInv, InactiveIsScaledDown
<1>4. CASE UNCHANGED vars
  BY <1>4
     DEF vars, apiVars, workerVars, clusterVars, k8sVars, LoopInv,
         InactiveIsScaledDown, Existing
<1> QED
  BY <1>1, <1>2, <1>3, <1>4 DEF Next, Cluster

\* Every reachable state has it, when the List shows all deployments.
LEMMA LoopInvariant ==
  ASSUME ~ListLag
  PROVE  Spec => []LoopInv
<1>1. Init => LoopInv
  BY DEF Init, LoopInv, InactiveIsScaledDown, Existing, NoDeployments
<1> QED
  BY <1>1, NextLoops, TypeCorrect, ObjectInvariant, PTL DEF Spec

\* Inactive is the truth about every deployment that exists, also after a
\* scale-down that failed half way, a crash in it and a reconcile with an old
\* copy, when the List shows all deployments.
THEOREM InactiveIsDown ==
  ASSUME ~ListLag
  PROVE  Spec => []InactiveIsScaledDown
<1>1. LoopInv => InactiveIsScaledDown
  BY DEF LoopInv
<1> QED
  BY <1>1, LoopInvariant, PTL

\* The record of the last rollout of a stack only changes when the loop over
\* the deployments has come to its end, and from a copy that is the latest.
LEMMA RolloutRecorded ==
  ASSUME TypeOK, ObjectInv, Next, stack.exists, stack'.exists,
         stack'.status.lastDeployedAt # stack.status.lastDeployedAt
  PROVE  /\ pc = "rollout" /\ todo = {} /\ copyCurrent
         /\ UNCHANGED <<replicas, restartedAt>>
         /\ stack'.status.lastDeployedAt = copy.deployedAt
<1>1. CASE QuietWork
  BY <1>1, QuietWorkQuiet DEF Quiet
<1>2. CASE Crash \/ User \/ CompleteBackup \/ Watch \/ Clock
  BY <1>2, OutsideQuiet
<1>3. CASE UNCHANGED stack
  BY <1>3
<1>4. CASE RecordRollout
  <2>1. pc = "rollout" /\ todo = {} /\ RolledOut(copy).lastDeployedAt = copy.deployedAt
    BY <1>4 DEF RecordRollout, RolledOut, TypeOK, WorkerOK, PRStack, Status
  <2>2. copyCurrent /\ stack'.status = RolledOut(copy)
    BY <1>3, <1>4, StatusUpdateStored DEF RecordRollout
  <2> QED
    BY <2>1, <2>2, <1>4 DEF RecordRollout, clusterVars, k8sVars
<1>5. CASE MarkInactive \/ MarkCleaned
  <2> DEFINE status(phase) == [copy.status EXCEPT !.phase = phase]
  <2>1. status("Inactive").lastDeployedAt = copy.status.lastDeployedAt
    BY DEF TypeOK, WorkerOK, PRStack, Status
  <2>2. status("Cleaned").lastDeployedAt = copy.status.lastDeployedAt
    BY DEF TypeOK, WorkerOK, PRStack, Status
  <2> HIDE DEF status
  <2>3. \E phase \in {"Inactive", "Cleaned"} : \E next \in {"idle", "removeFinalizer"} :
          StatusUpdate(status(phase), next, "idle")
    BY <1>5 DEF MarkInactive, MarkCleaned, status
  <2> QED
    BY <2>1, <2>2, <2>3, <1>3, StatusUpdateStored DEF Alike
<1>6. CASE RemoveFinalizer
  <2>1. copy.exists /\ copy.deleting
    BY <1>6 DEF RemoveFinalizer, ObjectInv, Entitled, DeletionCalls, CleanupCalls
  <2>2. copyCurrent => stack.deleting
    BY <2>1 DEF ObjectInv, Alike, TypeOK, ApiOK, WorkerOK, PRStack
  <2>3. ~[copy EXCEPT !.finalizer = FALSE].finalizer
    BY DEF TypeOK, WorkerOK, PRStack
  <2> QED
    BY <2>2, <2>3, <1>3, <1>6, NoStackFacts
       DEF RemoveFinalizer, SpecUpdate, Store, Stored, apiVars
<1>7. Worker => \/ QuietWork \/ UNCHANGED stack \/ RecordRollout
                \/ MarkInactive \/ MarkCleaned \/ RemoveFinalizer
  BY WorkWithoutWrite DEF Worker
<1> QED
  BY <1>1, <1>2, <1>3, <1>4, <1>5, <1>6, <1>7 DEF Next, Cluster, PurgeNamespace, apiVars

\* A rollout is only recorded as done when it has reached every deployment
\* there is, whatever fails or crashes on the way, when the List shows all.
THEOREM RolloutIsHonest ==
  ASSUME ~ListLag
  PROVE  Spec => RolloutReachesAll
<1> DEFINE Recorded ==
      /\ stack.exists /\ stack'.exists
      /\ stack.status.lastDeployedAt # stack'.status.lastDeployedAt
      => \A d \in Existing : restartedAt[d] = stack'.status.lastDeployedAt
<1>1. TypeOK /\ ObjectInv /\ LoopInv /\ [Next]_vars => [Recorded]_vars
  BY RolloutRecorded DEF LoopInv
<1> QED
  BY <1>1, TypeCorrect, ObjectInvariant, LoopInvariant, PTL DEF Spec, RolloutReachesAll

=============================================================================
