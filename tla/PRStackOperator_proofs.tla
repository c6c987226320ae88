----------------------- MODULE PRStackOperator_proofs -----------------------
(***************************************************************************)
(* Proofs, for every value of the constants, that the operator keeps its   *)
(* types and that a stack is only deployed with complete records.          *)
(***************************************************************************)
EXTENDS PRStackOperator, TLAPS

-----------------------------------------------------------------------------
(* Values *)

\* The zero value of the object is an object.
LEMMA NoStackTyped == NoStack \in PRStack /\ NoStatus \in Status
<1>1. MaxHours \in Nat /\ MaxDeployedAt \in Nat
  BY BoundsAssumption
<1>2. NoStatus \in Status
  BY <1>1 DEF NoStatus, Status, Phases, Nil
<1> QED
  BY <1>1, <1>2 DEF NoStack, PRStack, Nil

\* What kubectl creates is an object.
LEMMA NewStackTyped ==
  ASSUME NEW active \in BOOLEAN
  PROVE  NewStack(active) \in PRStack /\ NewStack(active).status = NoStatus
BY NoStackTyped DEF NewStack, NoStack, PRStack

\* The names of the infrastructure are deployments.
LEMMA InfraDeployed ==
  "nats" \in Deployments /\ "redis" \in Deployments /\ Services \subseteq Deployments
BY DEF Deployments, Infra

\* A write replaces the status of an object and keeps it an object.
LEMMA WithStatusTyped ==
  ASSUME NEW s \in PRStack, NEW status \in Status
  PROVE  /\ [s EXCEPT !.status = status] \in PRStack
         /\ [s EXCEPT !.status = status].status = status
BY DEF PRStack

-----------------------------------------------------------------------------
(* The worker's control *)

\* The variables of WorkerOK after Hold.
LEMMA HoldTyped ==
  ASSUME TypeOK, NEW next \in Control, NEW c \in PRStack,
         NEW current \in BOOLEAN, Hold(next, c, current)
  PROVE  WorkerOK'
<1> USE DEF TypeOK, WorkerOK
<1>1. CASE next = "idle"
  BY <1>1, NoStackTyped DEF Hold, EndReconcile, HoldNothing, Nil, Control, Calls
<1>2. CASE next # "idle"
  BY <1>2 DEF Hold
<1> QED
  BY <1>1, <1>2

\* Goto is Hold of the copy the worker has.
LEMMA GotoTyped ==
  ASSUME TypeOK, NEW next \in Control, Goto(next)
  PROVE  WorkerOK'
BY HoldTyped DEF Goto, TypeOK, WorkerOK

\* A fault stays within its budget.
LEMMA FaultTyped ==
  ASSUME TypeOK, Fault \/ NoFault
  PROVE  faults' \in 0..MaxFaults
BY BoundsAssumption DEF TypeOK, BudgetOK, Fault, NoFault

\* A status write keeps the types, wherever it leads.
LEMMA StatusUpdateTyped ==
  ASSUME TypeOK, NEW status \in Status, NEW next \in Control,
         NEW otherwise \in Control, StatusUpdate(status, next, otherwise)
  PROVE  ApiOK' /\ WorkerOK' /\ faults' \in 0..MaxFaults
<1>1. /\ [stack EXCEPT !.status = status] \in PRStack
      /\ [copy EXCEPT !.status = status] \in PRStack
  BY WithStatusTyped DEF TypeOK, ApiOK, WorkerOK
<1>2. faults' \in 0..MaxFaults
  BY FaultTyped DEF StatusUpdate
<1>3. ApiOK'
  BY <1>1 DEF StatusUpdate, Store, TypeOK, ApiOK, apiVars
<1>4. WorkerOK'
  BY <1>1, HoldTyped DEF StatusUpdate
<1> QED
  BY <1>2, <1>3, <1>4

\* What an Update stores is an object with the status of the stored one, or
\* nothing.
LEMMA StoredTyped ==
  ASSUME TypeOK, NEW c \in PRStack
  PROVE  /\ Stored(c) \in PRStack
         /\ Stored(c).status \in {stack.status, NoStatus}
<1> USE DEF Stored
<1>1. CASE stack.deleting /\ ~c.finalizer
  BY <1>1, NoStackTyped DEF NoStack
<1>2. CASE ~(stack.deleting /\ ~c.finalizer)
  BY <1>2 DEF Defaulted, TypeOK, ApiOK, PRStack
<1> QED
  BY <1>1, <1>2

\* An Update keeps the types.
LEMMA SpecUpdateTyped ==
  ASSUME TypeOK, NEW c \in PRStack, NEW next \in Control,
         NEW otherwise \in Control, SpecUpdate(c, next, otherwise)
  PROVE  ApiOK' /\ WorkerOK' /\ faults' \in 0..MaxFaults
<1>1. Stored(c) \in PRStack
  BY StoredTyped
<1>2. faults' \in 0..MaxFaults
  BY FaultTyped DEF SpecUpdate
<1>3. ApiOK'
  BY <1>1 DEF SpecUpdate, Store, TypeOK, ApiOK, apiVars
<1>4. WorkerOK'
  BY <1>1, HoldTyped DEF SpecUpdate
<1> QED
  BY <1>2, <1>3, <1>4

-----------------------------------------------------------------------------
(* Steps that leave the cluster alone *)

\* The frame most actions share.
LEMMA FrameTyped ==
  ASSUME TypeOK, UNCHANGED <<now, edits, stacks>>, faults' \in 0..MaxFaults
  PROVE  BudgetOK'
BY DEF TypeOK, BudgetOK

\* ClusterOK only speaks of clusterVars.
LEMMA ClusterFrame ==
  ASSUME TypeOK, UNCHANGED clusterVars
  PROVE  ClusterOK'
BY DEF TypeOK, ClusterOK, clusterVars, k8sVars, secretVars, backupVars, mongoVars

\* An action that is one status write.
LEMMA StatusStep ==
  ASSUME TypeOK, NEW status \in Status, NEW next \in Control,
         NEW otherwise \in Control, StatusUpdate(status, next, otherwise),
         UNCHANGED <<now, edits, stacks, clusterVars>>
  PROVE  TypeOK'
BY StatusUpdateTyped, FrameTyped, ClusterFrame DEF TypeOK

\* An action that is one Update.
LEMMA SpecStep ==
  ASSUME TypeOK, NEW c \in PRStack, NEW next \in Control,
         NEW otherwise \in Control, SpecUpdate(c, next, otherwise),
         UNCHANGED <<now, edits, stacks, clusterVars>>
  PROVE  TypeOK'
BY SpecUpdateTyped, FrameTyped, ClusterFrame DEF TypeOK

\* A call that does not write the object.
LEMMA GotoCall ==
  ASSUME TypeOK, NEW next \in Control, Goto(next), Fault \/ NoFault,
         UNCHANGED apiVars, UNCHANGED <<now, edits, stacks>>
  PROVE  ApiOK' /\ WorkerOK' /\ BudgetOK'
<1>1. ApiOK'
  BY DEF TypeOK, ApiOK, apiVars
<1> QED
  BY <1>1, GotoTyped, FaultTyped, FrameTyped

\* A List that starts a loop.
LEMMA StartLoopCall ==
  ASSUME TypeOK, NEW loop \in Control, NEW items \in SUBSET Deployments,
         loop = "createServices" => items \subseteq Services,
         StartLoop(loop, items), Fault \/ NoFault, UNCHANGED <<now, edits, stacks>>
  PROVE  ApiOK' /\ WorkerOK' /\ BudgetOK'
<1>1. ApiOK' /\ WorkerOK'
  BY DEF StartLoop, TypeOK, ApiOK, WorkerOK, apiVars
<1> QED
  BY <1>1, FaultTyped, FrameTyped

\* An item of a loop that is done.
LEMMA LoopOnCall ==
  ASSUME TypeOK, NEW item, LoopOn(item), Fault \/ NoFault,
         UNCHANGED <<now, edits, stacks>>
  PROVE  ApiOK' /\ WorkerOK' /\ BudgetOK'
<1>1. ApiOK' /\ WorkerOK'
  BY DEF LoopOn, TypeOK, ApiOK, WorkerOK, apiVars
<1> QED
  BY <1>1, FaultTyped, FrameTyped

\* Every dispatch of Reconcile leads to a call.
LEMMA DispatchTyped ==
  /\ \A status : DeletionHandler(status) \in Control
  /\ \A phase : PhaseHandler(phase) \in Control
  /\ \A c : AfterGet(c) \in Control /\ Dispatch(c) \in Control
BY DEF DeletionHandler, PhaseHandler, AfterGet, Dispatch,
       Control, Calls, CleanupCalls

-----------------------------------------------------------------------------
(* Reconcile keeps the types *)

\* A step of Reconcile, or of the handlers of an active or inactive stack.
LEMMA ReconcileTyped == TypeOK /\ ReconcileNext => TypeOK'
<1> SUFFICES ASSUME TypeOK, ReconcileNext PROVE TypeOK'
  OBVIOUS
<1>a. /\ now \in 0..MaxHours /\ Timestamp \in 0..MaxHours
      /\ copy \in PRStack /\ copy.status \in Status /\ cached \in PRStack
      /\ copy.deployedAt \in 0..MaxDeployedAt
      /\ todo \in SUBSET Deployments
  BY BoundsAssumption
     DEF TypeOK, ApiOK, WorkerOK, BudgetOK, PRStack, Timestamp
<1>b. {"idle", "updateStatusWithError", "setCreatedAt", "checkReactivation",
       "checkExpiration", "scaleDown", "scaleUp", "checkHealth", "rollout",
       "recordRolloutError"} \subseteq Control
  BY DEF Control, Calls
<1>c. \A listed \in SUBSET Existing :
        /\ listed \in SUBSET Deployments
        /\ \A n : ToScale(n, listed) \in SUBSET Deployments
        /\ ListDeployments(listed) => Fault \/ NoFault
  BY DEF Existing, ToScale, ListDeployments
<1>1. CASE FetchPRStack
  <2>1. Hold(AfterGet(cached), cached, cacheCurrent) /\ cacheCurrent \in BOOLEAN
    BY <1>1 DEF FetchPRStack, TypeOK, ApiOK
  <2>2. WorkerOK'
    BY <2>1, <1>a, DispatchTyped, HoldTyped
  <2>3. ApiOK'
    BY <1>1 DEF FetchPRStack, TypeOK, ApiOK, apiVars
  <2>4. BudgetOK' /\ ClusterOK'
    BY <1>1, FaultTyped, FrameTyped, ClusterFrame DEF FetchPRStack
  <2> QED
    BY <2>2, <2>3, <2>4 DEF TypeOK
<1>2. CASE AddFinalizer
  <2>1. [copy EXCEPT !.finalizer = TRUE] \in PRStack
    BY <1>a DEF PRStack
  <2> QED
    BY <2>1, <1>2, <1>b, SpecStep DEF AddFinalizer
<1>3. CASE SetCreatedAt
  <2>1. [copy.status EXCEPT !.createdAt = Timestamp, !.lastActiveAt = Timestamp]
          \in Status
    BY <1>a DEF Status
  <2> QED
    BY <2>1, <1>3, <1>b, StatusStep DEF SetCreatedAt
<1>4. CASE CheckReactivation
  <2>1. [copy.status EXCEPT !.lastActiveAt = Timestamp] \in Status
    BY <1>a DEF Status
  <2>2. CASE BecomesActive(copy)
    BY <2>1, <2>2, <1>4, <1>b, DispatchTyped, StatusStep DEF CheckReactivation
  <2>3. CASE ~BecomesActive(copy)
    BY <2>3, <1>4, <1>b, GotoCall, ClusterFrame DEF CheckReactivation, TypeOK
  <2> QED
    BY <2>2, <2>3
<1>5. CASE CheckExpiration
  <2>1. [copy EXCEPT !.active = FALSE] \in PRStack
    BY <1>a DEF PRStack
  <2>2. CASE IsStackExpired(copy.status) /\ copy.active
    BY <2>1, <2>2, <1>5, <1>b, SpecStep DEF CheckExpiration
  <2>3. CASE ~(IsStackExpired(copy.status) /\ copy.active)
    BY <2>3, <1>5, DispatchTyped, GotoCall, ClusterFrame
       DEF CheckExpiration, TypeOK
  <2> QED
    BY <2>2, <2>3
<1>6. CASE ListForScaleDown
  BY <1>6, <1>b, <1>c, StartLoopCall, GotoCall, ClusterFrame
     DEF ListForScaleDown, CallFails, TypeOK
<1>7. CASE ScaleDown
  <2>1. ClusterOK'
    BY <1>7, <1>a DEF ScaleDown, ScaleDownFails, ItemFails, mongoVars, secretVars, backupVars, TypeOK, ClusterOK
  <2>2. ApiOK' /\ WorkerOK' /\ BudgetOK'
    BY <1>7, <1>b, LoopOnCall, GotoCall DEF ScaleDown, ScaleDownFails, ItemFails
  <2> QED
    BY <2>1, <2>2 DEF TypeOK
<1>8. CASE MarkInactive
  <2>1. [copy.status EXCEPT !.phase = "Inactive"] \in Status
    BY <1>a DEF Status, Phases
  <2> QED
    BY <2>1, <1>8, <1>b, StatusStep DEF MarkInactive
<1>9. CASE CheckReplicas
  BY <1>9, <1>b, <1>c, StartLoopCall, GotoCall, ClusterFrame
     DEF CheckReplicas, CallFails, TypeOK
<1>10. CASE ScaleUp
  <2>1. ClusterOK'
    BY <1>10, <1>a DEF ScaleUp, ItemFails, mongoVars, secretVars, backupVars, TypeOK, ClusterOK
  <2>2. ApiOK' /\ WorkerOK' /\ BudgetOK'
    BY <1>10, <1>b, LoopOnCall, GotoCall DEF ScaleUp, ItemFails
  <2> QED
    BY <2>1, <2>2 DEF TypeOK
<1>11. CASE CheckHealth
  <2>1. CASE copy.status.unhealthy
    BY <2>1, <1>11, <1>a, <1>b, StatusStep DEF CheckHealth
  <2>2. CASE ~copy.status.unhealthy
    BY <2>2, <1>11, <1>a, <1>b, HoldTyped, FaultTyped, FrameTyped, ClusterFrame
       DEF CheckHealth, EndReconcile, TypeOK, ApiOK, apiVars, Hold, WorkerOK
  <2> QED
    BY <2>1, <2>2
<1>12. CASE ListForRollout
  BY <1>12, <1>b, <1>c, StartLoopCall, GotoCall, ClusterFrame
     DEF ListForRollout, CallFails, TypeOK
<1>13. CASE RolloutDeployment
  <2>1. ClusterOK'
    BY <1>13, <1>a
       DEF RolloutDeployment, RolloutFails, ItemFails, mongoVars, secretVars, backupVars, TypeOK, ClusterOK
  <2>2. ApiOK' /\ WorkerOK' /\ BudgetOK'
    BY <1>13, <1>b, LoopOnCall, GotoCall
       DEF RolloutDeployment, RolloutFails, ItemFails
  <2> QED
    BY <2>1, <2>2 DEF TypeOK
<1>14. CASE RecordRollout
  <2>1. RolledOut(copy) \in Status
    BY <1>a DEF RolledOut, Status
  <2> QED
    BY <2>1, <1>14, <1>b, DispatchTyped, StatusStep DEF RecordRollout
<1>15. CASE RecordRolloutError
  BY <1>15, <1>a, <1>b, StatusStep DEF RecordRolloutError
<1>16. CASE UpdateStatusWithError
  <2>1. FailedStatus(copy.status) \in Status
    BY <1>a DEF FailedStatus, Status, Phases
  <2> QED
    BY <2>1, <1>16, <1>b, StatusStep DEF UpdateStatusWithError
<1> QED
  BY <1>1, <1>2, <1>3, <1>4, <1>5, <1>6, <1>7, <1>8, <1>9, <1>10, <1>11,
     <1>12, <1>13, <1>14, <1>15, <1>16 DEF ReconcileNext

-----------------------------------------------------------------------------
(* Provisioning and deployment keep the types *)

\* A step of handleInitialization or of handleProvisioning.
LEMMA ProvisionTyped == TypeOK /\ ProvisionNext => TypeOK'
<1> SUFFICES ASSUME TypeOK, ProvisionNext PROVE TypeOK'
  OBVIOUS
<1>a. /\ copy.status \in Status
      /\ password \in Passwords \union {Nil}
      /\ copy.status.mongoDB \in Passwords \union {Nil}
  BY DEF TypeOK, WorkerOK, PRStack, Status
<1>b. {"idle", "updateStatusWithError", "initialize", "dropUser", "createUser",
       "createCollections", "saveCredentials", "createMongoDBSecret",
       "finishProvisioning"} \subseteq Control
  BY DEF Control, Calls
<1>1. CASE Reactivate
  <2>1. [copy.status EXCEPT !.phase = ""] \in Status
    BY <1>a DEF Status, Phases
  <2> QED
    BY <2>1, <1>1, <1>b, StatusStep DEF Reactivate
<1>2. CASE HandleInitialization
  <2>1. [copy.status EXCEPT !.phase = "Provisioning"] \in Status
    BY <1>a DEF Status, Phases
  <2> QED
    BY <2>1, <1>2, <1>b, StatusStep DEF HandleInitialization
<1>3. CASE CreateNamespace
  <2>1. ClusterOK'
    BY <1>3 DEF CreateNamespace, mongoVars, secretVars, backupVars, TypeOK, ClusterOK
  <2> QED
    BY <2>1, <1>3, <1>b, GotoCall DEF CreateNamespace, CallFails, TypeOK
<1>4. CASE DropUser
  <2>1. ClusterOK'
    BY <1>4 DEF DropUser, CallFails, k8sVars, secretVars, backupVars, TypeOK, ClusterOK
  <2>2. CASE CallFails("updateStatusWithError")
    BY <2>1, <2>2, <1>4, <1>b, GotoCall DEF DropUser, CallFails, TypeOK
  <2>3. CASE ~CallFails("updateStatusWithError")
    <3>1. ApiOK' /\ WorkerOK'
      BY <2>3, <1>4, <1>b DEF DropUser, TypeOK, ApiOK, WorkerOK, apiVars
    <3> QED
      BY <3>1, <2>1, <2>3, <1>4, FaultTyped, FrameTyped DEF DropUser, TypeOK
  <2> QED
    BY <2>2, <2>3
<1>5. CASE CreateUser
  <2>1. ClusterOK'
    BY <1>5, <1>a DEF CreateUser, k8sVars, secretVars, backupVars, TypeOK, ClusterOK
  <2> QED
    BY <2>1, <1>5, <1>b, GotoCall DEF CreateUser, CallFails, TypeOK
<1>6. CASE CreateCollections
  <2>1. PICK made \in SUBSET DefaultServices :
          /\ databases' = databases \union {GetDatabaseName(s) : s \in made}
          /\ \/ made = DefaultServices
                /\ Goto("saveCredentials") /\ NoFault /\ UNCHANGED apiVars
             \/ CallFails("saveCredentials")
             \/ CallFails("updateStatusWithError")
    BY <1>6 DEF CreateCollections
  <2>2. databases' \in SUBSET DatabaseNames
    <3>1. \A s \in made : GetDatabaseName(s) \in DatabaseNames
      BY DEF GetDatabaseName, DatabaseNames
    <3> QED
      BY <2>1, <3>1 DEF TypeOK, ClusterOK
  <2>3. ClusterOK'
    BY <2>2, <1>6 DEF CreateCollections, k8sVars, secretVars, backupVars, TypeOK, ClusterOK
  <2>4. ApiOK' /\ WorkerOK' /\ BudgetOK'
    BY <2>1, <1>6, <1>b, GotoCall DEF CreateCollections, CallFails
  <2> QED
    BY <2>3, <2>4 DEF TypeOK
<1>7. CASE SaveCredentials
  <2>1. WithCredentials(copy.status) \in Status
    BY <1>a DEF WithCredentials, Status
  <2> QED
    BY <2>1, <1>7, <1>b, StatusStep DEF SaveCredentials
<1>8. CASE CreateMongoDBSecret
  <2>1. ClusterOK'
    BY <1>8, <1>a
       DEF CreateMongoDBSecret, WriteSecret, SecretData, mongoVars, secretVars, backupVars,
           TypeOK, ClusterOK
  <2> QED
    BY <2>1, <1>8, <1>b, GotoCall
       DEF CreateMongoDBSecret, WriteSecret, CallFails, TypeOK
<1>9. CASE FinishProvisioning
  <2>1. Provisioned(copy.status) \in Status
    BY <1>a DEF Provisioned, Status, Phases
  <2> QED
    BY <2>1, <1>9, <1>b, StatusStep DEF FinishProvisioning
<1> QED
  BY <1>1, <1>2, <1>3, <1>4, <1>5, <1>6, <1>7, <1>8, <1>9 DEF ProvisionNext

\* NATS and Redis.
LEMMA DeployInfraTyped ==
  ASSUME TypeOK, NEW d \in Deployments, NEW next \in Control, DeployInfra(d, next)
  PROVE  TypeOK'
<1>1. ClusterOK'
  BY BoundsAssumption
     DEF DeployInfra, Deploy, mongoVars, secretVars, backupVars, Nil, TypeOK, ClusterOK
<1>2. "updateStatusWithError" \in Control
  BY DEF Control, Calls
<1> QED
  BY <1>1, <1>2, GotoCall DEF DeployInfra, CallFails, TypeOK

\* A step of handleDeployment.
LEMMA DeployTyped == TypeOK /\ DeployNext => TypeOK'
<1> SUFFICES ASSUME TypeOK, DeployNext PROVE TypeOK'
  OBVIOUS
<1>a. /\ copy.status \in Status
      /\ copy.status.mongoDB \in Passwords \union {Nil}
  BY DEF TypeOK, WorkerOK, PRStack, Status
<1>b. {"idle", "updateStatusWithError", "createMongoDBResources",
       "createNATSResources", "createRedisResources", "ensureBackupStorage",
       "createServices"} \subseteq Control
  BY DEF Control, Calls
<1>1. CASE CreateRegistrySecret
  BY <1>1, <1>b, GotoCall, ClusterFrame DEF CreateRegistrySecret, CallFails, TypeOK
<1>2. CASE CreateMongoDBResources
  <2>1. ClusterOK'
    BY <1>2, <1>a
       DEF CreateMongoDBResources, WriteSecret, SecretData, mongoVars, secretVars, backupVars,
           TypeOK, ClusterOK
  <2> QED
    BY <2>1, <1>2, <1>b, GotoCall
       DEF CreateMongoDBResources, WriteSecret, CallFails, TypeOK
<1>3. CASE CreateNATSResources
  BY <1>3, <1>b, InfraDeployed, DeployInfraTyped DEF CreateNATSResources
<1>4. CASE CreateRedisResources
  BY <1>4, <1>b, InfraDeployed, DeployInfraTyped DEF CreateRedisResources
<1>5. CASE EnsureBackupStorage
  <2>1. ClusterOK'
    BY <1>5, FlagsAssumption DEF EnsureBackupStorage, mongoVars, secretVars, backupVars, TypeOK, ClusterOK
  <2>2. ApiOK' /\ WorkerOK' /\ BudgetOK'
    BY <1>5, <1>b, InfraDeployed, StartLoopCall, GotoCall
       DEF EnsureBackupStorage, CallFails
  <2> QED
    BY <2>1, <2>2 DEF TypeOK
<1>6. CASE CreateServiceDeployment
  <2>1. PICK s \in todo :
          /\ todo' = todo \ {s}
          /\ \/ Deploy(s) /\ NoFault /\ failed' = failed
             \/ /\ failed' = failed \union {s}
                /\ \/ Deploy(s) /\ Fault
                   \/ Fault /\ UNCHANGED <<replicas, restartedAt>>
                   \/ /\ ~Accepts(replicas[s] # Absent)
                      /\ NoFault
                      /\ UNCHANGED <<replicas, restartedAt>>
    BY <1>6 DEF CreateServiceDeployment
  <2>2. s \in Services
    BY <2>1, <1>6 DEF CreateServiceDeployment, TypeOK, WorkerOK
  <2>3. ClusterOK'
    BY <2>1, <2>2, <1>6, BoundsAssumption, InfraDeployed
       DEF CreateServiceDeployment, Deploy, Nil, mongoVars, secretVars, backupVars, TypeOK, ClusterOK
  <2>4. ApiOK' /\ WorkerOK'
    BY <2>1, <2>2, <1>6
       DEF CreateServiceDeployment, TypeOK, ApiOK, WorkerOK, apiVars
  <2> QED
    BY <2>1, <2>3, <2>4, <1>6, FaultTyped, FrameTyped
       DEF CreateServiceDeployment, TypeOK
<1>7. CASE FinishDeployment
  <2>1. PhaseAfterDeployment \in Phases
    BY DEF PhaseAfterDeployment, Phases
  <2>2. DeployedStatus(copy.status) \in Status
    BY <2>1, <1>a DEF DeployedStatus, Status
  <2> QED
    BY <2>2, <1>7, <1>b, StatusStep DEF FinishDeployment
<1> QED
  BY <1>1, <1>2, <1>3, <1>4, <1>5, <1>6, <1>7 DEF DeployNext

-----------------------------------------------------------------------------
(* Cleanup keeps the types *)

\* cleanupMongoDB, wherever it leads.
LEMMA CleanupMongoDBTyped ==
  ASSUME TypeOK, NEW next \in Control, NEW onError \in Control,
         CleanupMongoDB(next, onError)
  PROVE  TypeOK'
<1>1. ClusterOK'
  BY DEF CleanupMongoDB, k8sVars, mongoVars, secretVars, backupVars, TypeOK, ClusterOK
<1> QED
  BY <1>1, GotoCall DEF CleanupMongoDB, TypeOK

\* cleanupNATS and cleanupRedis.
LEMMA CleanupDeploymentTyped ==
  ASSUME TypeOK, NEW d \in Deployments, NEW next \in Control,
         NEW onError \in Control, CleanupDeployment(d, next, onError)
  PROVE  TypeOK'
<1>1. ClusterOK'
  BY BoundsAssumption
     DEF CleanupDeployment, Remove, mongoVars, secretVars, backupVars, Nil, TypeOK, ClusterOK
<1> QED
  BY <1>1, GotoCall DEF CleanupDeployment, TypeOK

\* cleanupServices.
LEMMA CleanupServicesTyped ==
  ASSUME TypeOK, NEW next \in Control, NEW onError \in Control,
         CleanupServices(next, onError)
  PROVE  TypeOK'
<1>1. ClusterOK'
  BY DEF CleanupServices, mongoVars, secretVars, backupVars, TypeOK, ClusterOK
<1> QED
  BY <1>1, GotoCall DEF CleanupServices, TypeOK

\* A step of handleDeletion or of handleCleaning.
LEMMA CleanupTyped == TypeOK /\ CleanupNext => TypeOK'
<1> SUFFICES ASSUME TypeOK, CleanupNext PROVE TypeOK'
  OBVIOUS
<1>a. copy \in PRStack /\ copy.status \in Status
  BY DEF TypeOK, WorkerOK, PRStack
<1>b. CleanupCalls \union {"idle", "updateStatusWithError"} \subseteq Control
  BY DEF Control, Calls
<1>c. {"all.mongoDB", "all.nats", "all.redis", "all.services", "cleanupMongoDB",
       "cleanupNATS", "cleanupRedis", "markCleaned", "removeFinalizer"}
      \subseteq CleanupCalls
  BY DEF CleanupCalls
<1>1. CASE MarkCleaning
  <2>1. [copy.status EXCEPT !.phase = "Cleaning"] \in Status
    BY <1>a DEF Status, Phases
  <2> QED
    BY <2>1, <1>1, <1>b, StatusStep DEF MarkCleaning
<1>2. CASE CreateBackup
  <2>1. ClusterOK'
    BY <1>2 DEF CreateBackup, mongoVars, secretVars, backupVars, TypeOK, ClusterOK
  <2>2. Fault \/ NoFault
    BY <1>2 DEF CreateBackup
  <2> QED
    BY <2>1, <2>2, <1>2, <1>b, <1>c, GotoCall DEF CreateBackup, TypeOK
<1>3. CASE CleanupAllMongoDB \/ CleanupMongoDBAgain
  BY <1>3, <1>b, <1>c, CleanupMongoDBTyped
     DEF CleanupAllMongoDB, CleanupMongoDBAgain, MongoDBCleanupFailed
<1>4. CASE CleanupAllNATS \/ CleanupNATS
  BY <1>4, <1>b, <1>c, InfraDeployed, CleanupDeploymentTyped
     DEF CleanupAllNATS, CleanupNATS
<1>5. CASE CleanupAllRedis \/ CleanupRedis
  BY <1>5, <1>b, <1>c, InfraDeployed, CleanupDeploymentTyped
     DEF CleanupAllRedis, CleanupRedis
<1>6. CASE CleanupAllServices
  BY <1>6, <1>b, <1>c, CleanupServicesTyped DEF CleanupAllServices
<1>7. CASE MarkCleaned
  <2>1. [copy.status EXCEPT !.phase = "Cleaned"] \in Status
    BY <1>a DEF Status, Phases
  <2> QED
    BY <2>1, <1>7, <1>b, <1>c, StatusStep DEF MarkCleaned
<1>8. CASE RemoveFinalizer
  <2>1. [copy EXCEPT !.finalizer = FALSE] \in PRStack
    BY <1>a DEF PRStack
  <2> QED
    BY <2>1, <1>8, <1>b, SpecStep DEF RemoveFinalizer
<1> QED
  BY <1>1, <1>2, <1>3, <1>4, <1>5, <1>6, <1>7, <1>8 DEF CleanupNext

-----------------------------------------------------------------------------
(* The environment keeps the types *)

\* A crash forgets what the worker held.
LEMMA CrashTyped == TypeOK /\ Crash => TypeOK'
<1> SUFFICES ASSUME TypeOK, Crash PROVE TypeOK'
  OBVIOUS
<1>1. ApiOK'
  BY DEF Crash, TypeOK, ApiOK
<1>2. WorkerOK'
  BY NoStackTyped
     DEF Crash, EndReconcile, HoldNothing, Nil, TypeOK, WorkerOK, Control, Calls
<1>3. BudgetOK' /\ ClusterOK'
  BY FaultTyped, FrameTyped, ClusterFrame DEF Crash
<1> QED
  BY <1>1, <1>2, <1>3 DEF TypeOK

\* What a write of the user needs.
LEMMA UserStoreTyped ==
  ASSUME TypeOK, NEW c \in PRStack, UserStore(c)
  PROVE  ApiOK' /\ WorkerOK' /\ now' = now /\ faults' = faults
BY DEF UserStore, TypeOK, ApiOK, WorkerOK

\* An edit, a deletion or a creation.
LEMMA UserTyped == TypeOK /\ User => TypeOK'
<1> SUFFICES ASSUME TypeOK, User PROVE TypeOK'
  OBVIOUS
<1>1. ClusterOK'
  BY ClusterFrame DEF User
<1>2. stack \in PRStack
  BY DEF TypeOK, ApiOK
<1>3. ASSUME NEW active \in BOOLEAN, SetActive(active)
      PROVE  ApiOK' /\ WorkerOK' /\ BudgetOK'
  <2>1. [stack EXCEPT !.active = active] \in PRStack
    BY <1>2 DEF PRStack
  <2> QED
    BY <2>1, <1>3, UserStoreTyped, BoundsAssumption
       DEF SetActive, TypeOK, BudgetOK
<1>4. CASE SetDeployedAt
  <2>1. [stack EXCEPT !.deployedAt = @ + 1] \in PRStack
    BY <1>2, <1>4, BoundsAssumption DEF SetDeployedAt, PRStack
  <2> QED
    BY <2>1, <1>1, <1>4, UserStoreTyped DEF SetDeployedAt, TypeOK, BudgetOK
<1>5. CASE DeleteStack
  <2>1. [stack EXCEPT !.deleting = TRUE] \in PRStack
    BY <1>2 DEF PRStack
  <2> QED
    BY <2>1, <1>1, <1>5, NoStackTyped, UserStoreTyped
       DEF DeleteStack, TypeOK, BudgetOK
<1>6. ASSUME NEW active \in BornActive, CreateStack(active)
      PROVE  ApiOK' /\ WorkerOK' /\ BudgetOK'
  BY <1>6, FlagsAssumption, NewStackTyped, UserStoreTyped
     DEF CreateStack, TypeOK, BudgetOK
<1> QED
  BY <1>1, <1>3, <1>4, <1>5, <1>6 DEF User, TypeOK

\* A namespace without deployments.
LEMMA NoDeploymentsTyped ==
  /\ NoDeployments \in [Deployments -> {0, 1, Absent}]
  /\ NoAnnotations \in [Deployments -> 0..MaxDeployedAt]
  /\ Nil \in Passwords \union {Nil}
<1>1. Nil \in 0..MaxDeployedAt
  BY BoundsAssumption DEF Nil
<1> QED
  BY <1>1 DEF NoDeployments, NoAnnotations

\* The cluster, the watch and the clock.
LEMMA EnvironmentTyped == TypeOK /\ (Cluster \/ Watch \/ Clock) => TypeOK'
<1> SUFFICES ASSUME TypeOK, Cluster \/ Watch \/ Clock PROVE TypeOK'
  OBVIOUS
<1> USE DEF TypeOK, ApiOK, WorkerOK, BudgetOK, apiVars, workerVars, budgetVars
<1>1. CASE PurgeNamespace
  <2>1. ClusterOK'
    BY <1>1, NoDeploymentsTyped DEF PurgeNamespace, mongoVars, ClusterOK
  <2> QED
    BY <2>1, <1>1 DEF PurgeNamespace
<1>2. CASE CompleteBackup
  <2>1. ClusterOK'
    BY <1>2 DEF CompleteBackup, mongoVars, secretVars, backupVars, ClusterOK
  <2> QED
    BY <2>1, <1>2 DEF CompleteBackup
<1>3. CASE Watch
  BY <1>3, ClusterFrame DEF Watch, SyncCache
<1>4. CASE Clock
  BY <1>4, ClusterFrame, BoundsAssumption DEF Clock, Tick
<1> QED
  BY <1>1, <1>2, <1>3, <1>4 DEF Cluster

-----------------------------------------------------------------------------
(* Type correctness *)

\* The types hold at first.
LEMMA InitTyped == Init => TypeOK
<1> SUFFICES ASSUME Init PROVE TypeOK
  OBVIOUS
<1>1. ApiOK
  BY FlagsAssumption, NewStackTyped DEF Init, ApiOK
<1>2. WorkerOK
  BY NoStackTyped DEF Init, WorkerOK, Nil, Control, Calls
<1>3. BudgetOK
  BY BoundsAssumption DEF Init, BudgetOK
<1>4. ClusterOK
  BY NoDeploymentsTyped DEF Init, ClusterOK
<1> QED
  BY <1>1, <1>2, <1>3, <1>4 DEF TypeOK

\* The types are kept by every step.
LEMMA NextTyped == TypeOK /\ [Next]_vars => TypeOK'
<1> SUFFICES ASSUME TypeOK, [Next]_vars PROVE TypeOK'
  OBVIOUS
<1>1. CASE Next
  BY <1>1, ReconcileTyped, ProvisionTyped, DeployTyped, CleanupTyped,
     CrashTyped, UserTyped, EnvironmentTyped DEF Next, Worker
<1>2. CASE UNCHANGED vars
  BY <1>2, ClusterFrame
     DEF vars, TypeOK, ApiOK, WorkerOK, BudgetOK, apiVars, workerVars, budgetVars
<1> QED
  BY <1>1, <1>2

\* Every variable keeps its type, and the loops over the deployments and the
\* services only visit deployments and services of the stack.
THEOREM TypeCorrect == Spec => []TypeOK
BY InitTyped, NextTyped, PTL DEF Spec

-----------------------------------------------------------------------------
(* ProvisionedBeforeDeployed.  Its strengthening speaks of every copy of    *)
(* the object, since an old one may be dispatched and written later, and of *)
(* what each call of handleProvisioning and handleDeployment has already    *)
(* established.                                                             *)

Consistent(c) == c.status.phase \in Deployed => Complete(c.status)

NewCredentialsCalls == {"createUser", "createCollections", "saveCredentials"}

SavedCredentialsCalls == {"createMongoDBSecret", "finishProvisioning"}

DeployCalls ==
  {"createRegistrySecret", "createMongoDBResources", "createNATSResources",
   "createRedisResources", "ensureBackupStorage", "createServices"}

\* What the handler relies on when it makes call.
Supports(call, status, pw) ==
  /\ call \in NewCredentialsCalls => pw # Nil
  /\ call \in SavedCredentialsCalls => status.mongoDB # Nil
  /\ call \in DeployCalls => Complete(status)

ProvisioningInv ==
  /\ Consistent(stack) /\ Consistent(cached) /\ Consistent(copy)
  /\ Supports(pc, copy.status, password)

\* Calls the two handlers do not make rely on nothing.
LEMMA SupportsOther ==
  ASSUME NEW call, NEW status, NEW pw,
         call \notin NewCredentialsCalls \union SavedCredentialsCalls \union DeployCalls
  PROVE  Supports(call, status, pw)
BY DEF Supports

\* Every call a dispatch leads to has what it relies on.
LEMMA SupportsDispatch ==
  ASSUME NEW c, Consistent(c), NEW pw, NEW status, NEW d,
         Complete(c.status) => Complete(status)
  PROVE  /\ Supports(PhaseHandler(c.status.phase), status, pw)
         /\ Supports(Dispatch(c), status, pw)
         /\ Supports(AfterGet(d), status, pw)
<1>1. PhaseHandler(c.status.phase) \in DeployCalls => Complete(status)
  BY DEF PhaseHandler, DeployCalls, Consistent, Deployed
<1>2. PhaseHandler(c.status.phase)
        \notin NewCredentialsCalls \union SavedCredentialsCalls
  BY DEF PhaseHandler, NewCredentialsCalls, SavedCredentialsCalls
<1>3. Supports(PhaseHandler(c.status.phase), status, pw)
  BY <1>1, <1>2 DEF Supports
<1>4. Dispatch(c) \in {"listForScaleDown", "listForRollout",
                       PhaseHandler(c.status.phase)}
  BY DEF Dispatch
<1>5. Supports(Dispatch(c), status, pw)
  BY <1>3, <1>4, SupportsOther
     DEF NewCredentialsCalls, SavedCredentialsCalls, DeployCalls
<1>6. AfterGet(d) \in {"idle", "createBackup", "markCleaning", "addFinalizer",
                       "setCreatedAt", "checkReactivation"}
  BY DEF AfterGet, DeletionHandler
<1>7. Supports(AfterGet(d), status, pw)
  BY <1>6, SupportsOther
     DEF NewCredentialsCalls, SavedCredentialsCalls, DeployCalls
<1> QED
  BY <1>3, <1>5, <1>7

\* The zero value is consistent.
LEMMA NoStackConsistent == Consistent(NoStack)
BY DEF Consistent, NoStack, NoStatus, Deployed

\* So is a stack the user creates.
LEMMA NewStackConsistent == \A active \in BornActive : Consistent(NewStack(active))
<1>1. NoStatus.phase \notin Deployed
  BY DEF NoStatus, Deployed
<1> QED
  BY <1>1, NewStackTyped, FlagsAssumption DEF Consistent

\* Hold keeps what it takes over.
LEMMA HoldKeeps ==
  ASSUME NEW next, NEW c, NEW current, Hold(next, c, current),
         Consistent(c), Supports(next, c.status, password)
  PROVE  Consistent(copy)' /\ Supports(pc, copy.status, password)'
<1>1. CASE next = "idle"
  <2>1. pc' = "idle" /\ copy' = NoStack
    BY <1>1 DEF Hold, EndReconcile, HoldNothing
  <2>2. Supports(pc', copy'.status, password')
    BY <2>1, SupportsOther
       DEF NewCredentialsCalls, SavedCredentialsCalls, DeployCalls
  <2> QED
    BY <2>1, <2>2, NoStackConsistent DEF Consistent, Supports
<1>2. CASE next # "idle"
  BY <1>2 DEF Hold, Consistent, Supports
<1> QED
  BY <1>1, <1>2

\* A status write keeps the invariant when the status it writes is consistent
\* and enough for the calls after it.
LEMMA StatusUpdateKeeps ==
  ASSUME TypeOK, ProvisioningInv, NEW status, NEW next, NEW otherwise,
         StatusUpdate(status, next, otherwise),
         status.phase \in Deployed => Complete(status),
         Supports(next, status, password), Supports(otherwise, status, password)
  PROVE  ProvisioningInv'
<1>1. /\ [stack EXCEPT !.status = status].status = status
      /\ [copy EXCEPT !.status = status].status = status
  BY DEF TypeOK, ApiOK, WorkerOK, PRStack
<1>2. Consistent(copy)' /\ Supports(pc, copy.status, password)'
  BY <1>1, HoldKeeps DEF StatusUpdate, Consistent
<1>3. Consistent(stack)' /\ Consistent(cached)'
  BY <1>1 DEF StatusUpdate, Store, apiVars, ProvisioningInv, Consistent
<1> QED
  BY <1>2, <1>3 DEF ProvisioningInv

\* An Update never writes a status.
LEMMA SpecUpdateKeeps ==
  ASSUME TypeOK, ProvisioningInv, NEW c \in PRStack, c.status = copy.status,
         NEW next, NEW otherwise, SpecUpdate(c, next, otherwise),
         \A status : Supports(next, status, password),
         \A status : Supports(otherwise, status, password)
  PROVE  ProvisioningInv'
<1>1. Consistent(Stored(c)) /\ Consistent(c)
  BY StoredTyped, NoStackConsistent
     DEF ProvisioningInv, Consistent, NoStack
<1>2. Consistent(copy)' /\ Supports(pc, copy.status, password)'
  BY <1>1, HoldKeeps DEF SpecUpdate
<1>3. Consistent(stack)' /\ Consistent(cached)'
  BY <1>1 DEF SpecUpdate, Store, apiVars, ProvisioningInv, Consistent
<1> QED
  BY <1>2, <1>3 DEF ProvisioningInv

\* A call that does not write the object.
LEMMA GotoKeeps ==
  ASSUME ProvisioningInv, NEW next, Goto(next), UNCHANGED apiVars,
         Supports(next, copy.status, password)
  PROVE  ProvisioningInv'
<1>1. Consistent(copy)' /\ Supports(pc, copy.status, password)'
  BY HoldKeeps DEF Goto, ProvisioningInv
<1>2. Consistent(stack)' /\ Consistent(cached)'
  BY DEF apiVars, ProvisioningInv, Consistent
<1> QED
  BY <1>1, <1>2 DEF ProvisioningInv

\* A step of a loop.
LEMMA LoopKeeps ==
  ASSUME ProvisioningInv, UNCHANGED <<copy, password, apiVars>>,
         Supports(pc', copy.status, password)
  PROVE  ProvisioningInv'
BY DEF apiVars, ProvisioningInv, Consistent, Supports

\* Calls that rely on nothing, by name.
LEMMA FreeCalls ==
  ASSUME NEW status, NEW pw,
         NEW call \in CleanupCalls \union
           {"idle", "markCleaning", "addFinalizer", "setCreatedAt",
            "checkReactivation", "checkExpiration", "listForScaleDown",
            "scaleDown", "checkReplicas", "scaleUp", "checkHealth",
            "listForRollout", "rollout", "recordRolloutError", "reactivate",
            "updateStatusWithError", "initialize", "createNamespace", "dropUser"}
  PROVE  Supports(call, status, pw)
BY SupportsOther
   DEF CleanupCalls, NewCredentialsCalls, SavedCredentialsCalls, DeployCalls

\* The steps of Reconcile write the records as they read them.
LEMMA ReconcileKeeps == TypeOK /\ ProvisioningInv /\ ReconcileNext => ProvisioningInv'
<1> SUFFICES ASSUME TypeOK, ProvisioningInv, ReconcileNext PROVE ProvisioningInv'
  OBVIOUS
<1>a. copy \in PRStack /\ copy.status \in Status
  BY DEF TypeOK, WorkerOK, PRStack
<1>b. Consistent(copy) /\ Consistent(cached)
  BY DEF ProvisioningInv
<1>1. CASE FetchPRStack
  <2>1. Supports(AfterGet(cached), cached.status, password)
    BY <1>b, SupportsDispatch
  <2>2. Consistent(copy)' /\ Supports(pc, copy.status, password)'
    BY <2>1, <1>1, <1>b, HoldKeeps DEF FetchPRStack
  <2> QED
    BY <2>2, <1>1 DEF FetchPRStack, apiVars, ProvisioningInv, Consistent
<1>2. CASE AddFinalizer
  <2>1. /\ [copy EXCEPT !.finalizer = TRUE] \in PRStack
        /\ [copy EXCEPT !.finalizer = TRUE].status = copy.status
    BY <1>a DEF PRStack
  <2> QED
    BY <2>1, <1>2, FreeCalls, SpecUpdateKeeps DEF AddFinalizer
<1>3. CASE SetCreatedAt
  <2> DEFINE status == [copy.status EXCEPT !.createdAt = Timestamp,
                                           !.lastActiveAt = Timestamp]
  <2>1. status.phase \in Deployed => Complete(status)
    BY <1>a, <1>b DEF Consistent, Complete, Status
  <2> HIDE DEF status
  <2> QED
    BY <2>1, <1>3, FreeCalls, StatusUpdateKeeps DEF SetCreatedAt, status
<1>4. CASE CheckReactivation
  <2> DEFINE status == [copy.status EXCEPT !.lastActiveAt = Timestamp]
  <2>1. /\ status.phase \in Deployed => Complete(status)
        /\ Complete(copy.status) => Complete(status)
    BY <1>a, <1>b DEF Consistent, Complete, Status
  <2> HIDE DEF status
  <2>2. Supports(Dispatch(copy), status, password)
    BY <2>1, <1>b, SupportsDispatch
  <2>3. CASE BecomesActive(copy)
    BY <2>1, <2>2, <2>3, <1>4, FreeCalls, StatusUpdateKeeps
       DEF CheckReactivation, status
  <2>4. CASE ~BecomesActive(copy)
    BY <2>4, <1>4, FreeCalls, GotoKeeps DEF CheckReactivation
  <2> QED
    BY <2>3, <2>4
<1>5. CASE CheckExpiration
  <2>1. /\ [copy EXCEPT !.active = FALSE] \in PRStack
        /\ [copy EXCEPT !.active = FALSE].status = copy.status
    BY <1>a DEF PRStack
  <2>2. CASE IsStackExpired(copy.status) /\ copy.active
    BY <2>1, <2>2, <1>5, FreeCalls, SpecUpdateKeeps DEF CheckExpiration
  <2>3. CASE ~(IsStackExpired(copy.status) /\ copy.active)
    <3>1. Supports(Dispatch(copy), copy.status, password)
      BY <1>b, SupportsDispatch
    <3> QED
      BY <3>1, <2>3, <1>5, GotoKeeps DEF CheckExpiration
  <2> QED
    BY <2>2, <2>3
<1>6. CASE ListForScaleDown
  BY <1>6, FreeCalls, GotoKeeps, LoopKeeps
     DEF ListForScaleDown, StartLoop, CallFails, apiVars
<1>7. CASE ScaleDown
  BY <1>7, FreeCalls, GotoKeeps, LoopKeeps
     DEF ScaleDown, ScaleDownFails, ItemFails, LoopOn, apiVars
<1>8. CASE MarkInactive
  <2>1. [copy.status EXCEPT !.phase = "Inactive"].phase \notin Deployed
    BY <1>a DEF Deployed, Status
  <2> QED
    BY <2>1, <1>8, FreeCalls, StatusUpdateKeeps DEF MarkInactive
<1>9. CASE CheckReplicas
  BY <1>9, FreeCalls, GotoKeeps, LoopKeeps
     DEF CheckReplicas, StartLoop, CallFails, apiVars
<1>10. CASE ScaleUp
  BY <1>10, FreeCalls, GotoKeeps, LoopKeeps
     DEF ScaleUp, ItemFails, LoopOn, apiVars
<1>11. CASE CheckHealth
  <2>1. CASE copy.status.unhealthy
    BY <2>1, <1>11, <1>b, FreeCalls, StatusUpdateKeeps DEF CheckHealth, Consistent
  <2>2. CASE ~copy.status.unhealthy
    <3>1. Goto("idle") /\ UNCHANGED apiVars
      BY <2>2, <1>11 DEF CheckHealth, Goto, Hold
    <3> QED
      BY <3>1, FreeCalls, GotoKeeps
  <2> QED
    BY <2>1, <2>2
<1>12. CASE ListForRollout
  BY <1>12, FreeCalls, GotoKeeps, LoopKeeps
     DEF ListForRollout, StartLoop, CallFails, apiVars
<1>13. CASE RolloutDeployment
  BY <1>13, FreeCalls, GotoKeeps, LoopKeeps
     DEF RolloutDeployment, RolloutFails, ItemFails, LoopOn, apiVars
<1>14. CASE RecordRollout
  <2>1. /\ RolledOut(copy).phase \in Deployed => Complete(RolledOut(copy))
        /\ Complete(copy.status) => Complete(RolledOut(copy))
    BY <1>a, <1>b DEF RolledOut, Consistent, Complete, Status
  <2>2. Supports(PhaseHandler(copy.status.phase), RolledOut(copy), password)
    BY <2>1, <1>b, SupportsDispatch
  <2> QED
    BY <2>1, <2>2, <1>14, FreeCalls, StatusUpdateKeeps DEF RecordRollout
<1>15. CASE RecordRolloutError
  BY <1>15, <1>b, FreeCalls, StatusUpdateKeeps DEF RecordRolloutError, Consistent
<1>16. CASE UpdateStatusWithError
  <2>1. FailedStatus(copy.status).phase \notin Deployed
    BY <1>a DEF FailedStatus, Deployed, Status
  <2> QED
    BY <2>1, <1>16, FreeCalls, StatusUpdateKeeps DEF UpdateStatusWithError
<1> QED
  BY <1>1, <1>2, <1>3, <1>4, <1>5, <1>6, <1>7, <1>8, <1>9, <1>10, <1>11,
     <1>12, <1>13, <1>14, <1>15, <1>16 DEF ReconcileNext

\* handleProvisioning fills in the records before it writes Deploying.
LEMMA ProvisionKeeps == TypeOK /\ ProvisioningInv /\ ProvisionNext => ProvisioningInv'
<1> SUFFICES ASSUME TypeOK, ProvisioningInv, ProvisionNext PROVE ProvisioningInv'
  OBVIOUS
<1>a. copy.status \in Status
  BY DEF TypeOK, WorkerOK, PRStack
<1>b. Supports(pc, copy.status, password)
  BY DEF ProvisioningInv
<1>c. /\ NewCredentialsCalls \intersect SavedCredentialsCalls = {}
      /\ NewCredentialsCalls \intersect DeployCalls = {}
      /\ SavedCredentialsCalls \intersect DeployCalls = {}
  BY DEF NewCredentialsCalls, SavedCredentialsCalls, DeployCalls
<1>d. /\ {"createUser", "createCollections", "saveCredentials"}
           \subseteq NewCredentialsCalls
      /\ {"createMongoDBSecret", "finishProvisioning"}
           \subseteq SavedCredentialsCalls
  BY DEF NewCredentialsCalls, SavedCredentialsCalls
<1>1. CASE Reactivate
  <2>1. [copy.status EXCEPT !.phase = ""].phase \notin Deployed
    BY <1>a DEF Deployed, Status
  <2> QED
    BY <2>1, <1>1, FreeCalls, StatusUpdateKeeps DEF Reactivate
<1>2. CASE HandleInitialization
  <2>1. [copy.status EXCEPT !.phase = "Provisioning"].phase \notin Deployed
    BY <1>a DEF Deployed, Status
  <2> QED
    BY <2>1, <1>2, FreeCalls, StatusUpdateKeeps DEF HandleInitialization
<1>3. CASE CreateNamespace
  BY <1>3, FreeCalls, GotoKeeps DEF CreateNamespace, CallFails
<1>4. CASE DropUser
  <2>1. CASE CallFails("updateStatusWithError")
    BY <2>1, FreeCalls, GotoKeeps DEF CallFails
  <2>2. CASE ~CallFails("updateStatusWithError")
    <3>1. /\ password' # Nil /\ pc' = "createUser"
          /\ UNCHANGED <<copy, apiVars>>
      BY <2>2, <1>4, PasswordsAssumption DEF DropUser, Nil
    <3>2. Supports(pc', copy.status', password')
      BY <3>1, <1>c, <1>d DEF Supports
    <3> QED
      BY <3>1, <3>2 DEF apiVars, ProvisioningInv, Consistent, Supports
  <2> QED
    BY <2>1, <2>2
<1>5. CASE CreateUser
  <2>1. Supports("createCollections", copy.status, password)
    BY <1>5, <1>b, <1>c, <1>d DEF CreateUser, Supports
  <2> QED
    BY <2>1, <1>5, FreeCalls, GotoKeeps DEF CreateUser, CallFails
<1>6. CASE CreateCollections
  <2>1. Supports("saveCredentials", copy.status, password)
    BY <1>6, <1>b, <1>c, <1>d DEF CreateCollections, Supports
  <2> QED
    BY <2>1, <1>6, FreeCalls, GotoKeeps DEF CreateCollections, CallFails
<1>7. CASE SaveCredentials
  <2>1. password # Nil
    BY <1>7, <1>b, <1>d DEF SaveCredentials, Supports
  <2>2. /\ WithCredentials(copy.status).mongoDB = password
        /\ WithCredentials(copy.status).phase \in Deployed =>
             Complete(WithCredentials(copy.status))
    BY <2>1, <1>a DEF WithCredentials, ProvisioningInv, Consistent, Complete, Status
  <2>3. Supports("createMongoDBSecret", WithCredentials(copy.status), password)
    BY <2>1, <2>2, <1>c, <1>d DEF Supports
  <2> QED
    BY <2>2, <2>3, <1>7, FreeCalls, StatusUpdateKeeps DEF SaveCredentials
<1>8. CASE CreateMongoDBSecret
  <2>1. Supports("finishProvisioning", copy.status, password)
    BY <1>8, <1>b, <1>c, <1>d DEF CreateMongoDBSecret, Supports
  <2> QED
    BY <2>1, <1>8, FreeCalls, GotoKeeps
       DEF CreateMongoDBSecret, WriteSecret, CallFails
<1>9. CASE FinishProvisioning
  <2>1. copy.status.mongoDB # Nil
    BY <1>9, <1>b, <1>d DEF FinishProvisioning, Supports
  <2>2. Complete(Provisioned(copy.status))
    BY <2>1, <1>a DEF Provisioned, Complete, Status
  <2> QED
    BY <2>2, <1>9, FreeCalls, StatusUpdateKeeps DEF FinishProvisioning
<1> QED
  BY <1>1, <1>2, <1>3, <1>4, <1>5, <1>6, <1>7, <1>8, <1>9 DEF ProvisionNext

\* handleDeployment starts with the records and never drops them.
LEMMA DeployKeeps == TypeOK /\ ProvisioningInv /\ DeployNext => ProvisioningInv'
<1> SUFFICES ASSUME TypeOK, ProvisioningInv, DeployNext PROVE ProvisioningInv'
  OBVIOUS
<1>a. copy.status \in Status
  BY DEF TypeOK, WorkerOK, PRStack
<1>b. Complete(copy.status)
  BY DEF DeployNext, CreateRegistrySecret, CreateMongoDBResources,
         CreateNATSResources, CreateRedisResources, EnsureBackupStorage,
         CreateServiceDeployment, FinishDeployment, ProvisioningInv, Supports,
         DeployCalls
<1>c. \A call \in DeployCalls : Supports(call, copy.status, password)
  BY <1>b DEF Supports, DeployCalls, NewCredentialsCalls, SavedCredentialsCalls
<1>d. {"createMongoDBResources", "createNATSResources", "createRedisResources",
       "ensureBackupStorage", "createServices"} \subseteq DeployCalls
  BY DEF DeployCalls
<1>1. CASE CreateRegistrySecret
  BY <1>1, <1>c, <1>d, FreeCalls, GotoKeeps DEF CreateRegistrySecret, CallFails
<1>2. CASE CreateMongoDBResources
  BY <1>2, <1>c, <1>d, FreeCalls, GotoKeeps
     DEF CreateMongoDBResources, WriteSecret, CallFails
<1>3. CASE CreateNATSResources
  BY <1>3, <1>c, <1>d, FreeCalls, GotoKeeps
     DEF CreateNATSResources, DeployInfra, CallFails
<1>4. CASE CreateRedisResources
  BY <1>4, <1>c, <1>d, FreeCalls, GotoKeeps
     DEF CreateRedisResources, DeployInfra, CallFails
<1>5. CASE EnsureBackupStorage
  BY <1>5, <1>c, <1>d, FreeCalls, GotoKeeps, LoopKeeps
     DEF EnsureBackupStorage, StartLoop, CallFails, apiVars
<1>6. CASE CreateServiceDeployment
  BY <1>6, <1>c, <1>d, LoopKeeps DEF CreateServiceDeployment
<1>7. CASE FinishDeployment
  <2>1. Complete(DeployedStatus(copy.status))
    BY <1>a, <1>b DEF DeployedStatus, Complete, Status
  <2> QED
    BY <2>1, <1>7, FreeCalls, StatusUpdateKeeps DEF FinishDeployment
<1> QED
  BY <1>1, <1>2, <1>3, <1>4, <1>5, <1>6, <1>7 DEF DeployNext

\* The cleanup writes no deployed phase.
LEMMA CleanupKeeps == TypeOK /\ ProvisioningInv /\ CleanupNext => ProvisioningInv'
<1> SUFFICES ASSUME TypeOK, ProvisioningInv, CleanupNext PROVE ProvisioningInv'
  OBVIOUS
<1>a. copy \in PRStack /\ copy.status \in Status
  BY DEF TypeOK, WorkerOK, PRStack
<1>1. CASE MarkCleaning
  <2>1. [copy.status EXCEPT !.phase = "Cleaning"].phase \notin Deployed
    BY <1>a DEF Deployed, Status
  <2> QED
    BY <2>1, <1>1, FreeCalls, StatusUpdateKeeps DEF MarkCleaning
<1>2. CASE CreateBackup
  BY <1>2, FreeCalls, GotoKeeps DEF CreateBackup, CleanupCalls
<1>3. CASE CleanupAllMongoDB \/ CleanupMongoDBAgain
  BY <1>3, FreeCalls, GotoKeeps
     DEF CleanupAllMongoDB, CleanupMongoDBAgain, MongoDBCleanupFailed,
         CleanupMongoDB, CleanupCalls
<1>4. CASE CleanupAllNATS \/ CleanupNATS \/ CleanupAllRedis \/ CleanupRedis
  BY <1>4, FreeCalls, GotoKeeps
     DEF CleanupAllNATS, CleanupNATS, CleanupAllRedis, CleanupRedis,
         CleanupDeployment, CleanupCalls
<1>5. CASE CleanupAllServices
  BY <1>5, FreeCalls, GotoKeeps
     DEF CleanupAllServices, CleanupServices, CleanupCalls
<1>6. CASE MarkCleaned
  <2>1. [copy.status EXCEPT !.phase = "Cleaned"].phase \notin Deployed
    BY <1>a DEF Deployed, Status
  <2>2. "removeFinalizer" \in CleanupCalls
    BY DEF CleanupCalls
  <2> QED
    BY <2>1, <2>2, <1>6, FreeCalls, StatusUpdateKeeps DEF MarkCleaned
<1>7. CASE RemoveFinalizer
  <2>1. /\ [copy EXCEPT !.finalizer = FALSE] \in PRStack
        /\ [copy EXCEPT !.finalizer = FALSE].status = copy.status
    BY <1>a DEF PRStack
  <2> QED
    BY <2>1, <1>7, FreeCalls, SpecUpdateKeeps DEF RemoveFinalizer
<1> QED
  BY <1>1, <1>2, <1>3, <1>4, <1>5, <1>6, <1>7 DEF CleanupNext

\* Nobody else writes the status, and a new stack has none.
LEMMA EnvironmentKeeps ==
  TypeOK /\ ProvisioningInv /\ (Crash \/ User \/ Cluster \/ Watch \/ Clock)
    => ProvisioningInv'
<1> SUFFICES ASSUME TypeOK, ProvisioningInv,
                    Crash \/ User \/ Cluster \/ Watch \/ Clock
             PROVE  ProvisioningInv'
  OBVIOUS
<1>1. CASE Crash
  <2>1. Goto("idle")
    BY <1>1 DEF Crash, Goto, Hold
  <2>2. Consistent(copy)' /\ Supports(pc, copy.status, password)'
    BY <2>1, FreeCalls, HoldKeeps DEF Goto, ProvisioningInv
  <2> QED
    BY <2>2, <1>1 DEF Crash, ProvisioningInv, Consistent
<1>2. CASE User
  <2>1. ASSUME NEW c, UserStore(c), Consistent(c) PROVE ProvisioningInv'
    BY <2>1 DEF UserStore, ProvisioningInv, Consistent, Supports
  <2>2. /\ \A active : [stack EXCEPT !.active = active].status = stack.status
        /\ [stack EXCEPT !.deployedAt = @ + 1].status = stack.status
        /\ [stack EXCEPT !.deleting = TRUE].status = stack.status
    BY DEF TypeOK, ApiOK, PRStack
  <2>3. Consistent(stack)
    BY DEF ProvisioningInv
  <2>4. CASE \E active \in BOOLEAN : SetActive(active)
    BY <2>1, <2>2, <2>3, <2>4 DEF SetActive, Consistent
  <2>5. CASE SetDeployedAt
    BY <2>1, <2>2, <2>3, <2>5 DEF SetDeployedAt, Consistent
  <2>6. CASE DeleteStack
    BY <2>1, <2>2, <2>3, <2>6, NoStackConsistent DEF DeleteStack, Consistent
  <2>7. CASE \E active \in BornActive : CreateStack(active)
    BY <2>1, <2>7, NewStackConsistent DEF CreateStack
  <2> QED
    BY <2>4, <2>5, <2>6, <2>7, <1>2 DEF User
<1>3. CASE Cluster
  BY <1>3
     DEF Cluster, PurgeNamespace, CompleteBackup, apiVars, workerVars,
         ProvisioningInv, Consistent, Supports
<1>4. CASE Watch
  BY <1>4 DEF Watch, SyncCache, workerVars, ProvisioningInv, Consistent, Supports
<1>5. CASE Clock
  BY <1>5
     DEF Clock, Tick, apiVars, workerVars, ProvisioningInv, Consistent, Supports
<1> QED
  BY <1>1, <1>2, <1>3, <1>4, <1>5

\* The strengthening is inductive.
LEMMA NextKeeps == TypeOK /\ ProvisioningInv /\ [Next]_vars => ProvisioningInv'
<1> SUFFICES ASSUME TypeOK, ProvisioningInv, [Next]_vars PROVE ProvisioningInv'
  OBVIOUS
<1>1. CASE Next
  BY <1>1, ReconcileKeeps, ProvisionKeeps, DeployKeeps, CleanupKeeps,
     EnvironmentKeeps DEF Next, Worker
<1>2. CASE UNCHANGED vars
  BY <1>2 DEF vars, apiVars, workerVars, ProvisioningInv, Consistent, Supports
<1> QED
  BY <1>1, <1>2

\* It holds at first.
LEMMA InitProvisioning == Init => ProvisioningInv
<1> SUFFICES ASSUME Init PROVE ProvisioningInv
  OBVIOUS
<1>1. Consistent(stack) /\ Consistent(cached)
  BY NewStackConsistent DEF Init
<1> QED
  BY <1>1, NoStackConsistent, FreeCalls DEF Init, ProvisioningInv

\* A stack is only deployed with all three records, and handleDeployment never
\* reads through a nil pointer, whatever the user, the crashes and the stale
\* reads do.
THEOREM DeployedIsProvisioned == Spec => []ProvisionedBeforeDeployed
<1>1. ProvisioningInv => ProvisionedBeforeDeployed
  BY DEF ProvisioningInv, ProvisionedBeforeDeployed, Consistent, Supports, DeployCalls
<1>2. Spec => []ProvisioningInv
  BY InitProvisioning, NextKeeps, TypeCorrect, PTL DEF Spec
<1> QED
  BY <1>1, <1>2, PTL

=============================================================================
