----------------------- MODULE PRStackLifecycle_proofs -----------------------
(***************************************************************************)
(* The proof, for every value of the constants, that the operator          *)
(* implements PRStackLifecycle.  The invariants of PRStackObject_proofs    *)
(* and PRStackHoldings_proofs say what a call may rely on; here every call *)
(* is shown to be a step of the promise, or none.                          *)
(***************************************************************************)
EXTENDS PRStackHoldings_proofs

-----------------------------------------------------------------------------
(* What can be seen *)

Object(s) == IF ~s.exists THEN "absent" ELSE IF s.deleting THEN "leaving" ELSE "present"

Up == {d \in Deployments : replicas[d] = 1}

\* The stored object as the promise sees it, but for the phase.
SameObject ==
  /\ Object(stack)' = Object(stack) /\ stack'.finalizer = stack.finalizer

SamePhase == stack'.status.phase = stack.status.phase

\* What is held, as the promise sees it.
SameHoldings ==
  /\ (namespace' = "active") = (namespace = "active")
  /\ (mongoUser' # Nil) = (mongoUser # Nil)

SameUp == Up' = Up

\* A step of the promise, or none.
Promised == [Lifecycle!Next]_(Lifecycle!vars)

\* Nothing that can be seen changes.
LEMMA UnseenPromised ==
  ASSUME SameObject, SamePhase, SameHoldings, SameUp
  PROVE  Promised
BY DEF SameObject, SamePhase, SameHoldings, SameUp, Object, Up, Promised, Lifecycle!vars

\* Deployments go down.
LEMMA StopPromised ==
  ASSUME SameObject, SamePhase, SameHoldings, Up' \subseteq Up
  PROVE  Promised
BY DEF SameObject, SamePhase, SameHoldings, Object, Up, Promised,
       Lifecycle!Next, Lifecycle!Stop

\* One goes up.
LEMMA StartPromised ==
  ASSUME SameObject, SamePhase, SameHoldings, NEW d \in Deployments,
         Up' = Up \union {d}, stack.finalizer, stack.status.phase # "Inactive"
  PROVE  Promised
BY DEF SameObject, SamePhase, SameHoldings, Object, Up, Promised,
       Lifecycle!Next, Lifecycle!Start

\* The namespace is made, or goes.
LEMMA SpacePromised ==
  ASSUME SameObject, SamePhase, SameUp,
         (mongoUser' # Nil) = (mongoUser # Nil),
         \/ stack.finalizer /\ namespace' = "active"
         \/ Object(stack) = "leaving" /\ namespace' # "active"
  PROVE  Promised
<1>1. CASE stack.finalizer /\ namespace' = "active"
  BY <1>1
     DEF SameObject, SamePhase, SameUp, Object, Up, Promised, Lifecycle!Next,
         Lifecycle!TakeSpace
<1>2. CASE Object(stack) = "leaving" /\ namespace' # "active"
  BY <1>2
     DEF SameObject, SamePhase, SameUp, Object, Up, Promised, Lifecycle!Next,
         Lifecycle!ReleaseSpace
<1> QED
  BY <1>1, <1>2

\* The MongoDB user is made, or goes.
LEMMA AccountPromised ==
  ASSUME SameObject, SamePhase, SameUp,
         (namespace' = "active") = (namespace = "active"),
         stack.finalizer
  PROVE  Promised
<1>1. CASE (mongoUser' # Nil) = (mongoUser # Nil)
  BY <1>1, UnseenPromised DEF SameHoldings
<1>2. CASE (mongoUser' # Nil) = ~(mongoUser # Nil)
  BY <1>2
     DEF SameObject, SamePhase, SameUp, Object, Up, Promised, Lifecycle!Next,
         Lifecycle!TakeOrDropAccount
<1> QED
  BY <1>1, <1>2

-----------------------------------------------------------------------------
(* Phases *)

LivePhases == {"", "Provisioning", "Deploying", "Running", "Degraded", "Inactive", "Failed"}

\* The phases that may follow another, one by one.
LEMMA Successions ==
  /\ DOMAIN Lifecycle!Successors = LivePhases
  /\ \A p \in LivePhases : {"Inactive", "Failed"} \subseteq Lifecycle!Successors[p]
  /\ "Provisioning" \in Lifecycle!Successors[""]
  /\ "Deploying" \in Lifecycle!Successors["Provisioning"]
  /\ {"Running", "Degraded"} \subseteq Lifecycle!Successors["Deploying"]
  /\ "" \in Lifecycle!Successors["Inactive"]
BY DEF LivePhases, Lifecycle!Successors

\* A stack in use takes the next phase.
LEMMA AdvancePromised ==
  ASSUME SameObject, SameHoldings, SameUp,
         Object(stack) = "present", stack.finalizer,
         stack.status.phase \in LivePhases, stack'.status.phase \in LivePhases,
         stack'.status.phase \in Lifecycle!Successors[stack.status.phase],
         stack'.status.phase = "Inactive" => Up = {}
  PROVE  Promised
<1>1. Lifecycle!Advance(stack'.status.phase)
  BY Successions DEF SameObject, SameHoldings, SameUp, Object, Up, Lifecycle!Advance
<1>2. stack'.status.phase \in DOMAIN Lifecycle!Successors
  BY Successions
<1> QED
  BY <1>1, <1>2 DEF Promised, Lifecycle!Next

\* A stack that is being deleted is cleaned.
LEMMA LeavePromised ==
  ASSUME SameObject, SameHoldings, SameUp, Object(stack) = "leaving",
         \/ stack'.status.phase \in {"Cleaning", "Failed"}
         \/ /\ stack'.status.phase = "Cleaned" /\ stack.status.phase = "Cleaning"
            /\ namespace # "active" /\ mongoUser = Nil
  PROVE  Promised
<1>1. Lifecycle!Leave(stack'.status.phase)
  BY DEF SameObject, SameHoldings, SameUp, Object, Up, Lifecycle!Leave
<1> QED
  BY <1>1 DEF Promised, Lifecycle!Next

-----------------------------------------------------------------------------
(* The writes of the object *)

\* A write leaves what is held as it is.
LEMMA ClusterHeld ==
  UNCHANGED clusterVars => SameHoldings /\ SameUp
BY DEF clusterVars, k8sVars, mongoVars, SameHoldings, SameUp, Up

\* A step that changes neither the object nor what is held.
LEMMA StillPromised ==
  ASSUME UNCHANGED stack, SameHoldings, SameUp
  PROVE  Promised
BY UnseenPromised DEF SameObject, SamePhase

\* A status write stores its status, or nothing; the copy tells what the stack
\* is when it is stored.
LEMMA StatusWritten ==
  ASSUME TypeOK, ObjectInv, NEW status, NEW next, NEW otherwise,
         StatusUpdate(status, next, otherwise), UNCHANGED clusterVars
  PROVE  \/ Promised
         \/ /\ SameObject /\ SameHoldings /\ SameUp
            /\ Alike(copy, stack) /\ stack'.status = status
<1>1. CASE UNCHANGED stack
  BY <1>1, StillPromised, ClusterHeld
<1>2. CASE /\ Alike(copy, stack)
           /\ stack'.exists = stack.exists
           /\ stack'.deleting = stack.deleting
           /\ stack'.finalizer = stack.finalizer
           /\ stack'.status = status
  BY <1>2, ClusterHeld DEF SameObject, Object
<1> QED
  BY <1>1, <1>2, StatusUpdateStored

\* One that keeps the phase cannot be seen.
LEMMA StatusUpdatePromised ==
  ASSUME TypeOK, ObjectInv, NEW status, NEW next, NEW otherwise,
         StatusUpdate(status, next, otherwise), UNCHANGED clusterVars,
         status.phase = copy.status.phase
  PROVE  Promised
BY StatusWritten, UnseenPromised DEF SamePhase, Alike

\* The phases of a stack that is not being deleted.
LEMMA LiveStack ==
  ASSUME TypeOK, ObjectInv, Working(copy), Alike(copy, stack)
  PROVE  /\ Object(stack) = "present" /\ stack.finalizer
         /\ stack.status.phase = copy.status.phase
         /\ stack.status.phase \in LivePhases
<1>1. stack.status.phase \in Phases
  BY DEF TypeOK, ApiOK, PRStack, Status
<1> QED
  BY <1>1 DEF Working, Alike, Object, ObjectInv, Doomed, Phases, LivePhases

\* One that takes the next phase.
LEMMA AdvanceUpdatePromised ==
  ASSUME TypeOK, ObjectInv, NEW status, NEW next, NEW otherwise,
         StatusUpdate(status, next, otherwise), UNCHANGED clusterVars,
         Working(copy), status.phase \in LivePhases,
         copy.status.phase \in LivePhases =>
           status.phase \in Lifecycle!Successors[copy.status.phase],
         status.phase = "Inactive" => Up = {}
  PROVE  Promised
BY StatusWritten, LiveStack, AdvancePromised

\* One that reports on the cleanup.
LEMMA LeaveUpdatePromised ==
  ASSUME TypeOK, ObjectInv, NEW status, NEW next, NEW otherwise,
         StatusUpdate(status, next, otherwise), UNCHANGED clusterVars,
         copy.exists, copy.deleting,
         \/ status.phase \in {"Cleaning", "Failed"}
         \/ /\ status.phase = "Cleaned" /\ copy.status.phase = "Cleaning"
            /\ namespace # "active" /\ mongoUser = Nil
  PROVE  Promised
<1>1. Alike(copy, stack) => /\ Object(stack) = "leaving"
                            /\ stack.status.phase = copy.status.phase
  BY DEF Alike, Object
<1> QED
  BY <1>1, StatusWritten, LeavePromised

\* The calls that work on a stack in use.
LEMMA LiveCopy ==
  ASSUME ObjectInv, pc \notin DeletionCalls \union EarlyCalls
  PROVE  Working(copy) /\ stack.exists /\ stack.finalizer
<1>1. Working(copy)
  BY DEF ObjectInv, Entitled
<1> QED
  BY <1>1 DEF ObjectInv, AsOld

\* The calls of Reconcile and of handleDeletion that write.
LEMMA AddFinalizerPromised == TypeOK /\ ObjectInv /\ AddFinalizer => Promised
<1> SUFFICES ASSUME TypeOK, ObjectInv, AddFinalizer PROVE Promised
  OBVIOUS
<1> DEFINE c == [copy EXCEPT !.finalizer = TRUE]
<1>a. SameHoldings /\ SameUp
  BY ClusterHeld DEF AddFinalizer
<1>1. c.finalizer /\ copy.exists /\ ~copy.deleting
  BY DEF TypeOK, WorkerOK, PRStack, AddFinalizer, ObjectInv, Entitled
<1> HIDE DEF c
<1>2. \/ UNCHANGED stack
      \/ /\ Alike(copy, stack)
         /\ stack' = Stored(c)
  BY DEF AddFinalizer, c, SpecUpdate, Store, apiVars, ObjectInv
<1>3. CASE Alike(copy, stack) /\ stack' = Stored(c)
  <2>1. stack.exists /\ ~stack.deleting
    BY <1>1, <1>3 DEF Alike
  <2>2. /\ stack'.exists = stack.exists /\ stack'.deleting = stack.deleting
        /\ stack'.finalizer = TRUE /\ stack'.status = stack.status
    BY <1>1, <1>3, <2>1 DEF Stored, TypeOK, ApiOK, PRStack
  <2>3. CASE stack.finalizer
    BY <2>1, <2>2, <2>3, <1>a, UnseenPromised
       DEF SameObject, SamePhase, Object, TypeOK, ApiOK, PRStack
  <2>4. CASE ~stack.finalizer
    BY <2>1, <2>2, <2>4, <1>a
       DEF SameHoldings, SameUp, Object, Up, Promised, Lifecycle!Next, Lifecycle!Guard,
           TypeOK, ApiOK, PRStack
  <2> QED
    BY <2>3, <2>4
<1> QED
  BY <1>2, <1>3, <1>a, StillPromised

LEMMA CheckExpirationPromised == TypeOK /\ ObjectInv /\ CheckExpiration => Promised
<1> SUFFICES ASSUME TypeOK, ObjectInv, CheckExpiration PROVE Promised
  OBVIOUS
<1> DEFINE c == [copy EXCEPT !.active = FALSE]
<1>a. SameHoldings /\ SameUp
  BY ClusterHeld DEF CheckExpiration
<1>1. c.finalizer = copy.finalizer /\ Working(copy)
  BY LiveCopy
     DEF TypeOK, WorkerOK, PRStack, CheckExpiration, DeletionCalls, CleanupCalls, EarlyCalls
<1> HIDE DEF c
<1>2. \/ UNCHANGED stack
      \/ Alike(copy, stack) /\ stack' = Stored(c)
  BY DEF CheckExpiration, c, SpecUpdate, Store, apiVars, ObjectInv
<1>3. CASE Alike(copy, stack) /\ stack' = Stored(c)
  <2>1. stack.exists /\ ~stack.deleting /\ stack.finalizer
    BY <1>1, <1>3 DEF Alike, Working
  <2>2. /\ stack'.exists = stack.exists /\ stack'.deleting = stack.deleting
        /\ stack'.finalizer = stack.finalizer /\ stack'.status = stack.status
    BY <1>1, <1>3, <2>1 DEF Stored, TypeOK, ApiOK, PRStack, Working, Alike
  <2> QED
    BY <2>2, <1>a, UnseenPromised DEF SameObject, SamePhase, Object
<1> QED
  BY <1>2, <1>3, <1>a, StillPromised

LEMMA RemoveFinalizerPromised ==
  TypeOK /\ ObjectInv /\ HoldingInv /\ RemoveFinalizer => Promised
<1> SUFFICES ASSUME TypeOK, ObjectInv, HoldingInv, RemoveFinalizer PROVE Promised
  OBVIOUS
<1> DEFINE c == [copy EXCEPT !.finalizer = FALSE]
<1>a. SameHoldings /\ SameUp
  BY ClusterHeld DEF RemoveFinalizer
<1>b. namespace # "active" /\ mongoUser = Nil
  BY DEF RemoveFinalizer, HoldingInv, LastCalls, LateCalls
<1>1. /\ ~c.finalizer
      /\ copy.exists /\ copy.deleting /\ copy.status.phase = "Cleaned"
  BY DEF TypeOK, WorkerOK, PRStack, RemoveFinalizer, ObjectInv, Entitled, DeletionCalls,
         CleanupCalls
<1> HIDE DEF c
<1>2. \/ UNCHANGED stack
      \/ Alike(copy, stack) /\ stack' = Stored(c)
  BY DEF RemoveFinalizer, c, SpecUpdate, Store, apiVars, ObjectInv
<1>3. CASE Alike(copy, stack) /\ stack' = Stored(c)
  <2>1. stack.exists /\ stack.deleting /\ stack.status.phase = "Cleaned"
    BY <1>1, <1>3 DEF Alike
  <2>2. stack'.exists = FALSE /\ stack'.finalizer = FALSE /\ stack'.status.phase = ""
    BY <1>1, <1>3, <2>1 DEF Stored, NoStack, NoStatus
  <2>3. Lifecycle!Finish
    BY <2>1, <2>2, <1>a, <1>b
       DEF SameHoldings, SameUp, Object, Up, Lifecycle!Finish
  <2> QED
    BY <2>3 DEF Promised, Lifecycle!Next
<1> QED
  BY <1>2, <1>3, <1>a, StillPromised

\* The calls that neither write the object nor change what is held.
QuietCalls ==
  \/ FetchPRStack \/ CheckReplicas \/ CreateCollections
  \/ CreateMongoDBSecret \/ CreateRegistrySecret \/ CreateMongoDBResources
  \/ EnsureBackupStorage \/ CreateBackup
  \/ ListForScaleDown \/ ListForRollout \/ RolloutDeployment

LEMMA QuietCallsPromised == QuietCalls => Promised
<1> SUFFICES ASSUME QuietCalls PROVE Promised
  OBVIOUS
<1>1. UNCHANGED stack
  BY DEF QuietCalls, FetchPRStack, CheckReplicas, CreateCollections,
         CreateMongoDBSecret, CreateRegistrySecret, CreateMongoDBResources,
         WriteSecret, EnsureBackupStorage, CreateBackup, ListForScaleDown,
         ListForRollout, RolloutDeployment, RolloutFails, ItemFails, CallFails,
         StartLoop, LoopOn, apiVars
<1>2. UNCHANGED <<namespace, replicas>>
  BY DEF QuietCalls, FetchPRStack, CheckReplicas, CreateCollections,
         CreateMongoDBSecret, CreateRegistrySecret, CreateMongoDBResources,
         EnsureBackupStorage, CreateBackup, ListForScaleDown, ListForRollout,
         RolloutDeployment, clusterVars, k8sVars
<1>3. UNCHANGED mongoUser
  BY DEF QuietCalls, FetchPRStack, CheckReplicas, CreateCollections,
         CreateMongoDBSecret, CreateRegistrySecret, CreateMongoDBResources,
         EnsureBackupStorage, CreateBackup, ListForScaleDown, ListForRollout,
         RolloutDeployment, clusterVars, mongoVars
<1> QED
  BY <1>1, <1>2, <1>3, StillPromised DEF SameHoldings, SameUp, Up

\* The status writes that keep the phase.
LEMMA RecordsPromised ==
  /\ TypeOK /\ ObjectInv
  /\ \/ SetCreatedAt \/ CheckReactivation \/ CheckHealth \/ RecordRolloutError
     \/ RecordRollout \/ SaveCredentials
  => Promised
<1> SUFFICES ASSUME TypeOK, ObjectInv,
                    \/ SetCreatedAt \/ CheckReactivation \/ CheckHealth
                    \/ RecordRolloutError \/ RecordRollout \/ SaveCredentials
             PROVE  Promised
  OBVIOUS
<1>a. copy.status \in Status
  BY DEF TypeOK, WorkerOK, PRStack
<1>b. UNCHANGED stack /\ UNCHANGED clusterVars => Promised
  BY ClusterHeld, StillPromised
<1>1. CASE SetCreatedAt
  BY <1>1, <1>a, StatusUpdatePromised DEF SetCreatedAt, Status
<1>2. CASE CheckReactivation
  <2>1. CASE BecomesActive(copy)
    BY <2>1, <1>2, <1>a, StatusUpdatePromised DEF CheckReactivation, Status
  <2>2. CASE ~BecomesActive(copy)
    BY <2>2, <1>2, <1>b DEF CheckReactivation, apiVars
  <2> QED
    BY <2>1, <2>2
<1>3. CASE CheckHealth
  <2>1. CASE copy.status.unhealthy
    BY <2>1, <1>3, StatusUpdatePromised DEF CheckHealth
  <2>2. CASE ~copy.status.unhealthy
    BY <2>2, <1>3, <1>b DEF CheckHealth, apiVars
  <2> QED
    BY <2>1, <2>2
<1>4. CASE RecordRolloutError
  BY <1>4, StatusUpdatePromised DEF RecordRolloutError
<1>5. CASE RecordRollout
  <2>1. RolledOut(copy).phase = copy.status.phase
    BY <1>a DEF RolledOut, Status
  <2> QED
    BY <2>1, <1>5, StatusUpdatePromised DEF RecordRollout
<1>6. CASE SaveCredentials
  <2>1. WithCredentials(copy.status).phase = copy.status.phase
    BY <1>a DEF WithCredentials, Status
  <2> QED
    BY <2>1, <1>6, StatusUpdatePromised DEF SaveCredentials
<1> QED
  BY <1>1, <1>2, <1>3, <1>4, <1>5, <1>6

\* The status writes that take the next phase.
LEMMA AdvancesPromised ==
  /\ TypeOK /\ ObjectInv /\ LoopInv
  /\ MarkInactive \/ Reactivate \/ HandleInitialization \/ FinishProvisioning
       \/ FinishDeployment
  => Promised
<1> SUFFICES ASSUME TypeOK, ObjectInv, LoopInv,
                    \/ MarkInactive \/ Reactivate \/ HandleInitialization
                    \/ FinishProvisioning \/ FinishDeployment
             PROVE  Promised
  OBVIOUS
<1>a. copy.status \in Status /\ Entitled(pc, copy)
  BY DEF TypeOK, WorkerOK, PRStack, ObjectInv
<1>b. Working(copy)
  BY LiveCopy
     DEF MarkInactive, Reactivate, HandleInitialization, FinishProvisioning,
         FinishDeployment, DeletionCalls, CleanupCalls, EarlyCalls
<1>1. CASE MarkInactive
  <2> DEFINE status == [copy.status EXCEPT !.phase = "Inactive"]
  <2>1. status.phase = "Inactive"
    BY <1>a DEF Status
  <2>2. Up = {}
    BY <1>1 DEF MarkInactive, LoopInv, Up, Existing, Absent
  <2>3. StatusUpdate(status, "idle", "idle") /\ UNCHANGED clusterVars
    BY <1>1 DEF MarkInactive
  <2> HIDE DEF status
  <2> QED
    BY <2>1, <2>2, <2>3, <1>b, Successions, AdvanceUpdatePromised DEF LivePhases
<1>2. CASE Reactivate
  <2> DEFINE status == [copy.status EXCEPT !.phase = ""]
  <2>1. status.phase = "" /\ copy.status.phase = "Inactive"
    BY <1>2, <1>a DEF Status, Reactivate, Entitled
  <2>3. StatusUpdate(status, "initialize", "idle") /\ UNCHANGED clusterVars
    BY <1>2 DEF Reactivate
  <2> HIDE DEF status
  <2> QED
    BY <2>1, <2>3, <1>b, Successions, AdvanceUpdatePromised DEF LivePhases
<1>3. CASE HandleInitialization
  <2> DEFINE status == [copy.status EXCEPT !.phase = "Provisioning"]
  <2>1. status.phase = "Provisioning" /\ copy.status.phase = ""
    BY <1>3, <1>a DEF Status, HandleInitialization, Entitled
  <2>3. StatusUpdate(status, "idle", "idle") /\ UNCHANGED clusterVars
    BY <1>3 DEF HandleInitialization
  <2> HIDE DEF status
  <2> QED
    BY <2>1, <2>3, <1>b, Successions, AdvanceUpdatePromised DEF LivePhases
<1>4. CASE FinishProvisioning
  <2>1. /\ Provisioned(copy.status).phase = "Deploying"
        /\ copy.status.phase = "Provisioning"
    BY <1>4, <1>a
       DEF Status, Provisioned, FinishProvisioning, Entitled, ProvisionCalls
  <2> QED
    BY <2>1, <1>4, <1>b, Successions, AdvanceUpdatePromised
       DEF FinishProvisioning, LivePhases
<1>5. CASE FinishDeployment
  <2>1. /\ DeployedStatus(copy.status).phase \in {"Failed", "Degraded", "Running"}
        /\ copy.status.phase = "Deploying"
    BY <1>5, <1>a
       DEF Status, DeployedStatus, PhaseAfterDeployment, FinishDeployment,
           Entitled, DeployCalls
  <2> QED
    BY <2>1, <1>5, <1>b, Successions, AdvanceUpdatePromised
       DEF FinishDeployment, LivePhases
<1> QED
  BY <1>1, <1>2, <1>3, <1>4, <1>5

\* The status writes of a failure and of the cleanup.
LEMMA LeavesPromised ==
  /\ TypeOK /\ ObjectInv /\ HoldingInv
  /\ UpdateStatusWithError \/ MarkCleaning \/ MarkCleaned
  => Promised
<1> SUFFICES ASSUME TypeOK, ObjectInv, HoldingInv,
                    UpdateStatusWithError \/ MarkCleaning \/ MarkCleaned
             PROVE  Promised
  OBVIOUS
<1>a. copy.status \in Status /\ Entitled(pc, copy)
  BY DEF TypeOK, WorkerOK, PRStack, ObjectInv
<1>1. CASE UpdateStatusWithError
  <2>1. /\ FailedStatus(copy.status).phase = "Failed"
        /\ StatusUpdate(FailedStatus(copy.status), "idle", "idle")
        /\ UNCHANGED clusterVars
    BY <1>1, <1>a DEF UpdateStatusWithError, FailedStatus, Status
  <2>2. copy.exists /\ (copy.deleting \/ copy.finalizer)
    BY <1>1, <1>a DEF UpdateStatusWithError, Entitled
  <2>3. CASE copy.deleting
    BY <2>1, <2>2, <2>3, LeaveUpdatePromised
  <2>4. CASE ~copy.deleting
    BY <2>1, <2>2, <2>4, Successions, AdvanceUpdatePromised DEF Working, LivePhases
  <2> QED
    BY <2>3, <2>4
<1>2. CASE MarkCleaning
  <2> DEFINE status == [copy.status EXCEPT !.phase = "Cleaning"]
  <2>1. status.phase = "Cleaning" /\ copy.exists /\ copy.deleting
    BY <1>2, <1>a DEF Status, MarkCleaning, Entitled, DeletionCalls
  <2>2. StatusUpdate(status, "idle", "idle") /\ UNCHANGED clusterVars
    BY <1>2 DEF MarkCleaning
  <2> HIDE DEF status
  <2> QED
    BY <2>1, <2>2, LeaveUpdatePromised
<1>3. CASE MarkCleaned
  <2> DEFINE status == [copy.status EXCEPT !.phase = "Cleaned"]
  <2>1. /\ status.phase = "Cleaned" /\ copy.status.phase = "Cleaning"
        /\ copy.exists /\ copy.deleting
    BY <1>3, <1>a DEF Status, MarkCleaned, Entitled, DeletionCalls, CleanupCalls
  <2>2. StatusUpdate(status, "removeFinalizer", "idle") /\ UNCHANGED clusterVars
    BY <1>3 DEF MarkCleaned
  <2>3. namespace # "active" /\ mongoUser = Nil
    BY <1>3 DEF MarkCleaned, HoldingInv, LastCalls, LateCalls
  <2> HIDE DEF status
  <2> QED
    BY <2>1, <2>2, <2>3, LeaveUpdatePromised
<1> QED
  BY <1>1, <1>2, <1>3

-----------------------------------------------------------------------------
(* What is held *)

\* The namespace and the MongoDB user of a stack that is being provisioned.
LEMMA ProvisionPromised ==
  ObjectInv /\ (CreateNamespace \/ DropUser \/ CreateUser) => Promised
<1> SUFFICES ASSUME ObjectInv, CreateNamespace \/ DropUser \/ CreateUser PROVE Promised
  OBVIOUS
<1>1. /\ UNCHANGED <<stack, replicas>>
      /\ stack.finalizer
  BY ProvisionGuarded
     DEF CreateNamespace, DropUser, CreateUser, CallFails, apiVars, k8sVars,
         ProvisionCalls, Guarded
<1>2. SameObject /\ SamePhase /\ SameUp
  BY <1>1 DEF SameObject, SamePhase, SameUp, Up
<1>3. CASE CreateNamespace
  <2>1. UNCHANGED mongoUser /\ namespace' \in {"active", namespace}
    BY <1>3 DEF CreateNamespace, mongoVars
  <2> QED
    BY <2>1, <1>1, <1>2, SpacePromised, UnseenPromised DEF SameHoldings
<1>4. CASE DropUser \/ CreateUser
  <2>1. UNCHANGED namespace
    BY <1>4 DEF DropUser, CreateUser, k8sVars
  <2> QED
    BY <2>1, <1>1, <1>2, AccountPromised
<1> QED
  BY <1>3, <1>4

\* The namespace and the MongoDB user of a stack that is being deleted.
LEMMA ReleasePromised ==
  /\ ObjectInv /\ HoldingInv
  /\ CleanupAllServices \/ CleanupAllMongoDB \/ CleanupMongoDBAgain
  => Promised
<1> SUFFICES ASSUME ObjectInv, HoldingInv,
                    CleanupAllServices \/ CleanupAllMongoDB \/ CleanupMongoDBAgain
             PROVE  Promised
  OBVIOUS
<1>1. UNCHANGED <<stack, replicas>> /\ copy.exists /\ copy.deleting
  BY DEF CleanupAllServices, CleanupAllMongoDB, CleanupMongoDBAgain,
         CleanupServices, CleanupMongoDB, apiVars, k8sVars, ObjectInv, Entitled,
         DeletionCalls, CleanupCalls
<1>2. SameObject /\ SamePhase /\ SameUp
  BY <1>1 DEF SameObject, SamePhase, SameUp, Up
<1>3. CASE CleanupAllServices
  <2>1. /\ UNCHANGED mongoUser
        /\ namespace' = namespace \/ (namespace = "active" /\ namespace' = "terminating")
    BY <1>3 DEF CleanupAllServices, CleanupServices, mongoVars
  <2>2. namespace = "active" => Object(stack) = "leaving"
    BY <1>1 DEF HoldingInv, FinalizerGuards, ObjectInv, AsOld, Object
  <2> QED
    BY <2>1, <2>2, <1>2, SpacePromised, UnseenPromised DEF SameHoldings
<1>4. CASE CleanupAllMongoDB \/ CleanupMongoDBAgain
  <2>1. UNCHANGED namespace /\ mongoUser' \in {mongoUser, Nil}
    BY <1>4
       DEF CleanupAllMongoDB, CleanupMongoDBAgain, CleanupMongoDB, k8sVars, mongoVars
  <2>2. mongoUser # Nil => stack.finalizer
    BY DEF HoldingInv, FinalizerGuards
  <2> QED
    BY <2>1, <2>2, <1>2, AccountPromised, UnseenPromised DEF SameHoldings
<1> QED
  BY <1>3, <1>4

\* A deployment that is started.
LEMMA StartedPromised ==
  ASSUME TypeOK, ObjectInv, pc \in DeployCalls \union ServeCalls,
         UNCHANGED <<stack, namespace, mongoUser>>,
         NEW d \in Deployments, replicas' = [replicas EXCEPT ![d] = 1]
  PROVE  Promised
<1>1. SameObject /\ SamePhase /\ SameHoldings
  BY DEF SameObject, SamePhase, SameHoldings
<1>2. Up' = Up \union {d}
  BY DEF Up, TypeOK, ClusterOK
<1>3. stack.finalizer /\ stack.status.phase # "Inactive"
  BY LiveCopy, StartedIsNotInactive
     DEF DeployCalls, ServeCalls, DeletionCalls, CleanupCalls, EarlyCalls
<1> QED
  BY <1>1, <1>2, <1>3, StartPromised

\* Those that are not, or that stop.
LEMMA StoppedPromised ==
  ASSUME UNCHANGED <<stack, namespace, mongoUser>>, Up' \subseteq Up
  PROVE  Promised
BY StopPromised DEF SameObject, SamePhase, SameHoldings

LEMMA DeploymentsPromised ==
  /\ TypeOK /\ ObjectInv
  /\ \/ ScaleDown \/ ScaleUp
     \/ CreateNATSResources \/ CreateRedisResources \/ CreateServiceDeployment
     \/ CleanupAllNATS \/ CleanupAllRedis \/ CleanupNATS \/ CleanupRedis
  => Promised
<1> SUFFICES ASSUME TypeOK, ObjectInv,
                    \/ ScaleDown \/ ScaleUp
                    \/ CreateNATSResources \/ CreateRedisResources
                    \/ CreateServiceDeployment
                    \/ CleanupAllNATS \/ CleanupAllRedis \/ CleanupNATS \/ CleanupRedis
             PROVE  Promised
  OBVIOUS
<1>a. replicas \in [Deployments -> {0, 1, Absent}] /\ todo \subseteq Deployments
  BY DEF TypeOK, ClusterOK, WorkerOK
<1>b. UNCHANGED replicas => Up' \subseteq Up
  BY DEF Up
<1>1. CASE ScaleDown
  <2>1. UNCHANGED <<stack, namespace, mongoUser>>
    BY <1>1 DEF ScaleDown, ScaleDownFails, ItemFails, LoopOn, apiVars, mongoVars
  <2>2. \/ UNCHANGED replicas
        \/ \E d \in Deployments : replicas' = [replicas EXCEPT ![d] = 0]
    BY <1>1, <1>a DEF ScaleDown
  <2>3. Up' \subseteq Up
    BY <2>2, <1>a, <1>b DEF Up
  <2> QED
    BY <2>1, <2>3, StoppedPromised
<1>2. CASE ScaleUp
  <2>1. UNCHANGED <<stack, namespace, mongoUser>> /\ pc \in ServeCalls
    BY <1>2 DEF ScaleUp, ItemFails, LoopOn, apiVars, mongoVars, ServeCalls
  <2>2. \/ UNCHANGED replicas
        \/ \E d \in Deployments : replicas' = [replicas EXCEPT ![d] = 1]
    BY <1>2, <1>a DEF ScaleUp
  <2> QED
    BY <2>1, <2>2, <1>b, StartedPromised, StoppedPromised
<1>3. CASE CreateNATSResources \/ CreateRedisResources \/ CreateServiceDeployment
  <2>1. UNCHANGED <<stack, namespace, mongoUser>> /\ pc \in DeployCalls
    BY <1>3
       DEF CreateNATSResources, CreateRedisResources, CreateServiceDeployment,
           DeployInfra, CallFails, apiVars, mongoVars, DeployCalls
  <2>2. \/ UNCHANGED replicas
        \/ \E d \in Deployments : replicas' = [replicas EXCEPT ![d] = 1]
    BY <1>3, <1>a
       DEF CreateNATSResources, CreateRedisResources, CreateServiceDeployment,
           DeployInfra, Deploy, Deployments, Infra
  <2> QED
    BY <2>1, <2>2, <1>b, StartedPromised, StoppedPromised
<1>4. CASE CleanupAllNATS \/ CleanupAllRedis \/ CleanupNATS \/ CleanupRedis
  <2>1. UNCHANGED <<stack, namespace, mongoUser>>
    BY <1>4
       DEF CleanupAllNATS, CleanupAllRedis, CleanupNATS, CleanupRedis,
           CleanupDeployment, apiVars, mongoVars
  <2>2. \E d : Remove(d) \/ UNCHANGED replicas
    BY <1>4
       DEF CleanupAllNATS, CleanupAllRedis, CleanupNATS, CleanupRedis, CleanupDeployment
  <2>3. Up' \subseteq Up
    BY <2>2, <1>a, <1>b DEF Up, Remove, Absent
  <2> QED
    BY <2>1, <2>3, StoppedPromised
<1> QED
  BY <1>1, <1>2, <1>3, <1>4

-----------------------------------------------------------------------------
(* The promise is kept *)

\* A new stack has nothing yet.
LEMMA NewStackFacts ==
  ASSUME NEW active
  PROVE  /\ NewStack(active).exists /\ ~NewStack(active).deleting
         /\ NewStack(active).finalizer = FALSE
         /\ NewStack(active).status.phase = ""
<1>1. /\ NewStack(active).exists
      /\ NewStack(active).deleting = NoStack.deleting
      /\ NewStack(active).finalizer = NoStack.finalizer
      /\ NewStack(active).status = NoStack.status
  BY DEF NewStack, NoStack
<1>2. ~NoStack.deleting /\ NoStack.finalizer = FALSE /\ NoStack.status.phase = ""
  BY DEF NoStack, NoStatus
<1> QED
  BY <1>1, <1>2

\* The user, who makes and deletes stacks and edits them.
LEMMA UserPromised == TypeOK /\ ObjectInv /\ User => Promised
<1> SUFFICES ASSUME TypeOK, ObjectInv, User PROVE Promised
  OBVIOUS
<1>a. SameHoldings /\ SameUp
  BY ClusterHeld DEF User
<1>b. stack \in PRStack
  BY DEF TypeOK, ApiOK
<1>1. CASE (\E active \in BOOLEAN : SetActive(active)) \/ SetDeployedAt
  <2>1. /\ stack'.exists = stack.exists /\ stack'.deleting = stack.deleting
        /\ stack'.finalizer = stack.finalizer /\ stack'.status = stack.status
    BY <1>1, <1>b DEF SetActive, SetDeployedAt, UserStore, PRStack
  <2> QED
    BY <2>1, <1>a, UnseenPromised DEF SameObject, SamePhase, Object
<1>2. CASE DeleteStack
  <2>1. stack.exists /\ ~stack.deleting
    BY <1>2 DEF DeleteStack
  <2>2. CASE stack.finalizer
    <3>1. /\ stack'.exists /\ stack'.deleting
          /\ stack'.finalizer = stack.finalizer /\ stack'.status = stack.status
      BY <1>2, <2>1, <2>2, <1>b DEF DeleteStack, UserStore, PRStack
    <3> QED
      BY <2>1, <2>2, <3>1, <1>a
         DEF SameHoldings, SameUp, Object, Up, Promised, Lifecycle!Next, Lifecycle!Delete
  <2>3. CASE ~stack.finalizer
    <3>1. /\ ~stack'.exists /\ stack'.finalizer = FALSE /\ stack'.status.phase = ""
          /\ stack.finalizer = FALSE /\ stack.status.phase = ""
      BY <1>2, <2>3, <1>b
         DEF DeleteStack, UserStore, NoStack, NoStatus, ObjectInv, Untouched, PRStack
    <3> QED
      BY <2>1, <2>3, <3>1, <1>a
         DEF SameHoldings, SameUp, Object, Up, Promised, Lifecycle!Next, Lifecycle!Delete
  <2> QED
    BY <2>2, <2>3
<1>3. CASE \E active \in BornActive : CreateStack(active)
  <2>1. /\ ~stack.exists /\ stack.finalizer = FALSE /\ stack.status.phase = ""
        /\ stack'.exists /\ ~stack'.deleting
        /\ stack'.finalizer = FALSE /\ stack'.status.phase = ""
    <3>1. stack = NoStack /\ \E active \in BornActive : stack' = NewStack(active)
      BY <1>3 DEF CreateStack, UserStore, ObjectInv
    <3>2. NoStack.finalizer = FALSE /\ NoStack.status.phase = ""
      BY DEF NoStack, NoStatus
    <3> QED
      BY <3>1, <3>2, NewStackFacts, NoStackFacts
  <2> QED
    BY <2>1, <1>a
       DEF SameHoldings, SameUp, Object, Up, Promised, Lifecycle!Next, Lifecycle!Create
<1> QED
  BY <1>1, <1>2, <1>3 DEF User

\* A crash, the clock, the watch and the cluster.
LEMMA OutsidePromised ==
  TypeOK /\ (Crash \/ Cluster \/ Watch \/ Clock) => Promised
<1> SUFFICES ASSUME TypeOK, Crash \/ Cluster \/ Watch \/ Clock PROVE Promised
  OBVIOUS
<1>1. CASE Crash \/ Watch \/ Clock
  BY <1>1, ClusterHeld, StillPromised
     DEF Crash, Watch, SyncCache, Clock, Tick, apiVars
<1>2. CASE PurgeNamespace
  <2>1. /\ UNCHANGED stack /\ SameHoldings
    BY <1>2 DEF PurgeNamespace, apiVars, mongoVars, SameHoldings
  <2>2. Up' = {}
    BY <1>2 DEF PurgeNamespace, NoDeployments, Up, Absent
  <2> QED
    BY <2>1, <2>2, StopPromised DEF SameObject, SamePhase
<1>3. CASE CompleteBackup
  BY <1>3, StillPromised
     DEF CompleteBackup, apiVars, mongoVars, SameHoldings, SameUp, Up
<1> QED
  BY <1>1, <1>2, <1>3 DEF Cluster

\* Every call of the worker.
LEMMA WorkerPromised ==
  TypeOK /\ ObjectInv /\ HoldingInv /\ LoopInv /\ Worker => Promised
<1> SUFFICES ASSUME TypeOK, ObjectInv, HoldingInv, LoopInv, Worker PROVE Promised
  OBVIOUS
<1>1. CASE ReconcileNext
  BY <1>1, QuietCallsPromised, AddFinalizerPromised, CheckExpirationPromised,
     RecordsPromised, AdvancesPromised, LeavesPromised, DeploymentsPromised
     DEF ReconcileNext, QuietCalls
<1>2. CASE ProvisionNext
  BY <1>2, QuietCallsPromised, ProvisionPromised, RecordsPromised, AdvancesPromised
     DEF ProvisionNext, QuietCalls
<1>3. CASE DeployNext
  BY <1>3, QuietCallsPromised, DeploymentsPromised, AdvancesPromised
     DEF DeployNext, QuietCalls
<1>4. CASE CleanupNext
  BY <1>4, QuietCallsPromised, ReleasePromised, DeploymentsPromised,
     LeavesPromised, RemoveFinalizerPromised
     DEF CleanupNext, QuietCalls
<1> QED
  BY <1>1, <1>2, <1>3, <1>4 DEF Worker

\* A new cluster and a new stack are where the promise starts.
LEMMA InitPromised == Init => Lifecycle!Init
<1> SUFFICES ASSUME Init PROVE Lifecycle!Init
  OBVIOUS
<1>1. /\ stack.exists /\ ~stack.deleting
      /\ ~stack.finalizer /\ stack.status.phase = ""
  BY NewStackFacts DEF Init
<1>2. Up = {}
  BY DEF Init, NoDeployments, Up, Absent
<1> QED
  BY <1>1, <1>2 DEF Init, Lifecycle!Init, Up

\* Whatever fails, crashes or is read too late, the operator moves a stack only
\* as PRStackLifecycle says, when the cleanup notices every error it meets and
\* the List shows all deployments.
THEOREM KeepsPromise ==
  ASSUME ~SilentErrors, ~ListLag
  PROVE  Spec => ImplementsLifecycle
<1>1. TypeOK /\ ObjectInv /\ HoldingInv /\ LoopInv /\ [Next]_vars => Promised
  <2> SUFFICES ASSUME TypeOK, ObjectInv, HoldingInv, LoopInv, [Next]_vars
               PROVE  Promised
    OBVIOUS
  <2>1. CASE Next
    BY <2>1, WorkerPromised, UserPromised, OutsidePromised DEF Next
  <2>2. CASE UNCHANGED vars
    BY <2>2, StillPromised, ClusterHeld DEF vars, apiVars
  <2> QED
    BY <2>1, <2>2
<1> QED
  BY <1>1, InitPromised, TypeCorrect, ObjectInvariant, HoldingInvariant,
     LoopInvariant, PTL
     DEF Spec, ImplementsLifecycle, Lifecycle!Spec, Promised

=============================================================================
