----------------------- MODULE PRStackRollouts_proofs -----------------------
(***************************************************************************)
(* Proofs, for every value of the constants, about the record of the last  *)
(* rollout: spec.deployedAt is read from a copy that may be old, written   *)
(* to one deployment after the other and taken away again by a             *)
(* redeployment, and still no deployment is left behind the record.        *)
(***************************************************************************)
EXTENDS PRStackReports_proofs

\* The rollout the status has on record.
Record == stack.status.lastDeployedAt

RolloutInv ==
  /\ stack.exists => stack.deployedAt >= Record
  /\ cached.exists => cached.deployedAt >= Record
  /\ copy.exists => copy.deployedAt >= Record
  /\ copyCurrent => cached.deployedAt = stack.deployedAt
  /\ NoneLeftBehind

\* A step keeps the record, makes a new one from the latest copy when the loop
\* has reached every deployment, or comes to a stack that has none.
LEMMA RecordMoves ==
  ASSUME TypeOK, ObjectInv, LoopInv, [Next]_vars
  PROVE  \/ Record' = Record
         \/ Record' = Nil
         \/ /\ Record' = copy.deployedAt /\ copyCurrent
            /\ UNCHANGED <<replicas, restartedAt>>
            /\ \A d \in Existing : restartedAt[d] = copy.deployedAt
<1>a. StackMoves /\ ObjectInv'
  BY NextMoves, NextObject
<1>b. NoStack.status.lastDeployedAt = Nil /\ NoStatus.lastDeployedAt = Nil
  BY DEF NoStack, NoStatus
<1>1. CASE UNCHANGED vars
  BY <1>1 DEF vars, apiVars, Record
<1>2. CASE Next /\ stack.exists /\ stack'.exists
  BY <1>2, RolloutRecorded DEF LoopInv, Record
<1>3. CASE ~stack'.exists
  BY <1>3, <1>a, <1>b DEF ObjectInv, Record
<1>4. CASE ~stack.exists /\ stack'.exists
  BY <1>4, <1>a, <1>b, NoStackFacts
     DEF ObjectInv, Record, StackMoves, StatusMoves, SpecMoves, RemovalMoves,
         UserMoves, SameFlags, Guarded
<1> QED
  BY <1>1, <1>2, <1>3, <1>4

\* The annotation of a deployment changes to that of the running rollout, or
\* goes away.
AnnotationsMove ==
  \A d \in Existing' :
    \/ restartedAt'[d] = Nil
    \/ d \in Existing /\ restartedAt'[d] = restartedAt[d]
    \/ pc = "rollout" /\ restartedAt'[d] = copy.deployedAt /\ UNCHANGED stack

\* A step that writes no deployment.
LEMMA AnnotationsStay ==
  ASSUME UNCHANGED <<replicas, restartedAt>>
  PROVE  AnnotationsMove
BY DEF AnnotationsMove, Existing

\* A deployment that is made anew, or removed, loses its annotation.
LEMMA AnnotationGoes ==
  ASSUME TypeOK, NEW d \in Deployments, Deploy(d) \/ Remove(d)
  PROVE  AnnotationsMove
<1>1. /\ replicas \in [Deployments -> {0, 1, Absent}]
      /\ restartedAt \in [Deployments -> 0..MaxDeployedAt]
  BY DEF TypeOK, ClusterOK
<1>2. \A e \in Deployments : restartedAt'[e] = IF e = d THEN Nil ELSE restartedAt[e]
  BY <1>1 DEF Deploy, Remove
<1>3. \A e \in Deployments \ {d} : replicas'[e] = replicas[e]
  BY <1>1 DEF Deploy, Remove
<1> QED
  BY <1>2, <1>3 DEF AnnotationsMove, Existing

\* A deployment that is scaled keeps it.
LEMMA ScalingMoves ==
  ASSUME TypeOK, NEW d \in Deployments, replicas[d] # Absent, NEW n,
         replicas' = [replicas EXCEPT ![d] = n], UNCHANGED restartedAt
  PROVE  AnnotationsMove
BY DEF AnnotationsMove, Existing, TypeOK, ClusterOK

\* The steps of Reconcile.
LEMMA ReconcileAnnotations ==
  TypeOK /\ ObjectInv /\ ReconcileNext => AnnotationsMove
<1> SUFFICES ASSUME TypeOK, ObjectInv, ReconcileNext PROVE AnnotationsMove
  OBVIOUS
<1>a. /\ todo \subseteq Deployments
      /\ restartedAt \in [Deployments -> 0..MaxDeployedAt]
  BY DEF TypeOK, WorkerOK, ClusterOK
<1>1. CASE QuietWork
  BY <1>1, QuietWorkQuiet, AnnotationsStay DEF Quiet, heldVars
<1>2. CASE ListForScaleDown \/ MarkInactive \/ ListForRollout \/ RecordRollout
  BY <1>2, AnnotationsStay
     DEF ListForScaleDown, MarkInactive, ListForRollout, RecordRollout, clusterVars, k8sVars
<1>3. CASE ScaleDown \/ ScaleUp
  <2>1. UNCHANGED restartedAt
    BY <1>3 DEF ScaleDown, ScaleUp
  <2>2. \/ UNCHANGED replicas
        \/ \E d \in todo, n \in {0, 1} :
             replicas[d] # Absent /\ replicas' = [replicas EXCEPT ![d] = n]
    BY <1>3 DEF ScaleDown, ScaleUp
  <2> QED
    BY <2>1, <2>2, <1>a, ScalingMoves, AnnotationsStay
<1>4. CASE RolloutDeployment
  <2>1. UNCHANGED replicas /\ pc = "rollout"
    BY <1>4 DEF RolloutDeployment
  <2>2. CASE UNCHANGED restartedAt
    BY <2>1, <2>2, AnnotationsStay
  <2>3. ASSUME NEW d \in todo, LoopOn(d),
               restartedAt' = [restartedAt EXCEPT ![d] = copy.deployedAt]
        PROVE  AnnotationsMove
    <3>1. UNCHANGED stack
      BY <2>3 DEF LoopOn, apiVars
    <3>2. \A e \in Deployments :
            restartedAt'[e] = IF e = d THEN copy.deployedAt ELSE restartedAt[e]
      BY <2>3, <1>a
    <3> QED
      BY <3>1, <3>2, <2>1 DEF AnnotationsMove, Existing
  <2> QED
    BY <2>2, <2>3, <1>4 DEF RolloutDeployment
<1> QED
  BY <1>1, <1>2, <1>3, <1>4 DEF ReconcileNext, QuietWork

\* The steps of the other handlers.
LEMMA HandlerAnnotations ==
  TypeOK /\ ObjectInv /\ (ProvisionNext \/ DeployNext \/ CleanupNext)
    => AnnotationsMove
<1> SUFFICES ASSUME TypeOK, ObjectInv, ProvisionNext \/ DeployNext \/ CleanupNext
             PROVE  AnnotationsMove
  OBVIOUS
<1>a. /\ {"nats", "redis"} \subseteq Deployments
      /\ todo \subseteq Deployments
  BY DEF Deployments, Infra, TypeOK, WorkerOK
<1>1. CASE QuietWork
  BY <1>1, QuietWorkQuiet, AnnotationsStay DEF Quiet, heldVars
<1>2. CASE \/ CreateNamespace \/ DropUser \/ CreateUser
           \/ CleanupAllMongoDB \/ CleanupMongoDBAgain \/ CleanupAllServices
           \/ MarkCleaned \/ RemoveFinalizer
  BY <1>2, AnnotationsStay
     DEF CreateNamespace, DropUser, CreateUser, CleanupAllMongoDB, CleanupMongoDBAgain,
         CleanupMongoDB, CleanupAllServices, CleanupServices, MarkCleaned,
         RemoveFinalizer, clusterVars, k8sVars
<1>3. CASE CreateNATSResources \/ CreateRedisResources \/ CreateServiceDeployment
  <2>1. (\E d \in Deployments : Deploy(d)) \/ UNCHANGED <<replicas, restartedAt>>
    BY <1>3, <1>a
       DEF CreateNATSResources, CreateRedisResources, DeployInfra, CreateServiceDeployment
  <2> QED
    BY <2>1, AnnotationGoes, AnnotationsStay
<1>4. CASE CleanupAllNATS \/ CleanupAllRedis \/ CleanupNATS \/ CleanupRedis
  <2>1. (\E d \in Deployments : Remove(d)) \/ UNCHANGED <<replicas, restartedAt>>
    BY <1>4, <1>a
       DEF CleanupAllNATS, CleanupAllRedis, CleanupNATS, CleanupRedis, CleanupDeployment
  <2> QED
    BY <2>1, AnnotationGoes, AnnotationsStay
<1> QED
  BY <1>1, <1>2, <1>3, <1>4 DEF ProvisionNext, DeployNext, CleanupNext, QuietWork

\* Every step.
LEMMA NextAnnotations == TypeOK /\ ObjectInv /\ [Next]_vars => AnnotationsMove
<1> SUFFICES ASSUME TypeOK, ObjectInv, [Next]_vars PROVE AnnotationsMove
  OBVIOUS
<1>1. CASE Worker
  BY <1>1, ReconcileAnnotations, HandlerAnnotations DEF Worker
<1>2. CASE Crash \/ User \/ CompleteBackup \/ Watch \/ Clock
  BY <1>2, OutsideQuiet, AnnotationsStay DEF heldVars
<1>3. CASE PurgeNamespace
  BY <1>3 DEF PurgeNamespace, NoDeployments, AnnotationsMove, Existing
<1>4. CASE UNCHANGED vars
  BY <1>4, AnnotationsStay DEF vars, clusterVars, k8sVars
<1> QED
  BY <1>1, <1>2, <1>3, <1>4 DEF Next, Cluster

-----------------------------------------------------------------------------
(* The invariant *)

\* Whatever was read from the latest copy, the cache has it as well.
LEMMA CacheFollows ==
  ASSUME TypeOK, ObjectInv, RolloutInv, StackMoves, CopyMoves
  PROVE  copyCurrent' => cached'.deployedAt = stack'.deployedAt
<1> SUFFICES ASSUME copyCurrent' PROVE cached'.deployedAt = stack'.deployedAt
  OBVIOUS
<1>1. CASE UNCHANGED stack
  <2>1. CASE cached' = stack
    BY <2>1, <1>1
  <2>2. CASE cached' = cached
    BY <2>2, <1>1 DEF CopyMoves, RolloutInv
  <2> QED
    BY <2>1, <2>2 DEF CopyMoves
<1>2. CASE ~UNCHANGED stack
  <2>1. copyCurrent /\ cached' = cached
    BY <1>2 DEF CopyMoves
  <2>2. stack'.deployedAt = stack.deployedAt
    BY <1>2 DEF StackMoves, StatusMoves, SpecMoves, UserMoves, RemovalMoves
  <2> QED
    BY <2>1, <2>2 DEF RolloutInv
<1> QED
  BY <1>1, <1>2

\* The user only moves spec.deployedAt on, until the stack is made anew.
LEMMA RequestGrows ==
  ASSUME TypeOK, ObjectInv, StackMoves
  PROVE  \/ Record' = Nil
         \/ stack'.exists => stack.exists /\ stack'.deployedAt >= stack.deployedAt
<1>a. stack.deployedAt \in Nat
  BY BoundsAssumption DEF TypeOK, ApiOK, PRStack
<1>b. NoStack.status.lastDeployedAt = Nil /\ NoStatus.lastDeployedAt = Nil
  BY DEF NoStack, NoStatus
<1>1. CASE UNCHANGED stack
  BY <1>1, <1>a
<1>2. CASE StatusMoves \/ SpecMoves
  BY <1>2, <1>a DEF StatusMoves, SpecMoves, SameFlags
<1>3. CASE RemovalMoves
  BY <1>3, <1>b DEF RemovalMoves, Record
<1>4. CASE UserMoves
  BY <1>4, <1>a, <1>b DEF UserMoves, SameFlags, Guarded, Record
<1> QED
  BY <1>1, <1>2, <1>3, <1>4 DEF StackMoves

\* The invariant is inductive.
LEMMA NextRollouts ==
  TypeOK /\ ObjectInv /\ LoopInv /\ RolloutInv /\ [Next]_vars => RolloutInv'
<1> SUFFICES ASSUME TypeOK, ObjectInv, LoopInv, RolloutInv, [Next]_vars
             PROVE  RolloutInv'
  OBVIOUS
<1>a. StackMoves /\ CopyMoves /\ AnnotationsMove /\ TypeOK'
  BY NextMoves, NextAnnotations, NextTyped
<1>b. /\ {stack.deployedAt, cached.deployedAt, copy.deployedAt, Record} \subseteq Nat
      /\ {stack'.deployedAt, cached'.deployedAt, copy'.deployedAt, Record'} \subseteq Nat
      /\ \A d \in Deployments : restartedAt'[d] \in Nat
  BY <1>a, BoundsAssumption
     DEF TypeOK, ApiOK, WorkerOK, ClusterOK, PRStack, Status, Record
<1>1. /\ stack.exists => stack.deployedAt >= Record'
      /\ cached.exists => cached.deployedAt >= Record'
      /\ copy.exists => copy.deployedAt >= Record'
  <2>1. CASE Record' = Record \/ Record' = Nil
    BY <2>1, <1>b DEF RolloutInv, Nil
  <2>2. CASE Record' = copy.deployedAt /\ copyCurrent
    BY <2>2, <1>b DEF RolloutInv, ObjectInv, Alike
  <2> QED
    BY <2>1, <2>2, RecordMoves
<1>2. stack'.exists => stack'.deployedAt >= Record'
  <2>1. CASE Record' = Nil
    BY <2>1, <1>b DEF Nil
  <2>2. CASE stack'.exists => stack.exists /\ stack'.deployedAt >= stack.deployedAt
    BY <2>2, <1>1, <1>b
  <2> QED
    BY <2>1, <2>2, <1>a, RequestGrows
<1>3. cached'.exists => cached'.deployedAt >= Record'
  BY <1>1, <1>a DEF CopyMoves
<1>4. copy'.exists => copy'.deployedAt >= Record'
  BY <1>1, <1>2, <1>a, NoStackFacts DEF CopyMoves
<1>5. copyCurrent' => cached'.deployedAt = stack'.deployedAt
  BY <1>a, CacheFollows
<1>6. ASSUME NEW d \in Existing', restartedAt'[d] # Nil
      PROVE  restartedAt'[d] >= Record'
  <2>1. CASE d \in Existing /\ restartedAt'[d] = restartedAt[d]
    BY <2>1, <1>6, <1>b, RecordMoves DEF RolloutInv, NoneLeftBehind, Existing, Record, Nil
  <2>2. CASE pc = "rollout" /\ restartedAt'[d] = copy.deployedAt
    <3>1. copy.exists
      BY <2>2 DEF ObjectInv, Entitled, Working, DeletionCalls, CleanupCalls, EarlyCalls
    <3> QED
      BY <3>1, <2>2, <1>1
  <2> QED
    BY <2>1, <2>2, <1>6, <1>a DEF AnnotationsMove
<1> QED
  BY <1>2, <1>3, <1>4, <1>5, <1>6 DEF RolloutInv, NoneLeftBehind, Record, Existing

\* Every reachable state has it, when the List shows all deployments.
LEMMA RolloutInvariant ==
  ASSUME ~ListLag
  PROVE  Spec => []RolloutInv
<1>1. Init => RolloutInv
  <2> SUFFICES ASSUME Init PROVE RolloutInv
    OBVIOUS
  <2>1. Existing = {}
    BY DEF Init, Existing, NoDeployments
  <2>2. PICK active \in BornActive : stack = NewStack(active)
    BY DEF Init
  <2>3. stack.deployedAt = Nil /\ Record = Nil /\ cached = stack /\ ~copy.exists /\ ~copyCurrent
    BY <2>2, NoStackFacts DEF Init, NewStack, NoStack, NoStatus, Record
  <2> QED
    BY <2>1, <2>3 DEF RolloutInv, NoneLeftBehind, Nil
<1> QED
  BY <1>1, NextRollouts, TypeCorrect, ObjectInvariant, LoopInvariant, PTL DEF Spec

\* No deployment carries the annotation of an older rollout than the one on
\* record: not one that a rollout which failed half way or worked from an old
\* copy has annotated, nor one that was redeployed since, when the List shows
\* all deployments.
THEOREM NoneIsLeftBehind ==
  ASSUME ~ListLag
  PROVE  Spec => []NoneLeftBehind
<1>1. RolloutInv => NoneLeftBehind
  BY DEF RolloutInv
<1> QED
  BY <1>1, RolloutInvariant, PTL

=============================================================================
