---------------------- MODULE PRStackCredentials_proofs ----------------------
(***************************************************************************)
(* Proofs, for every value of the other constants, about the credentials,  *)
(* when the cleanup notices every error: with a cache that is never behind *)
(* the status, mongodb-secret and MongoDB agree on them, and however old   *)
(* the reads are mongodb-secret has what the status says.                  *)
(***************************************************************************)
EXTENDS PRStackReports_proofs

-----------------------------------------------------------------------------
(* The invariant *)

\* The version c has the credentials MongoDB accepts.
Agrees(c) == c.status.phase \in Deployed => c.status.mongoDB = mongoUser

\* The services of a stack that has been deployed find them.
Served ==
  stack.status.phase \in {"Running", "Degraded"} =>
    namespace = "active" /\ secret = mongoUser

\* The calls with the password of the user that has just been created.
PasswordCalls == {"createCollections", "saveCredentials"}

CredentialsInv ==
  /\ pc # "idle" => copy.status.phase = stack.status.phase
  /\ Agrees(stack) /\ Agrees(copy)
  /\ pc \in SavedCredentialsCalls => copy.status.mongoDB = mongoUser
  /\ pc \in PasswordCalls => password = mongoUser
  /\ Served

FreshCalls == SavedCredentialsCalls \union PasswordCalls

-----------------------------------------------------------------------------
(* What the steps are made of *)

\* A worker without a reconcile agrees with everything.
LEMMA IdleAgrees ==
  ASSUME copy' = NoStack, pc' = "idle"
  PROVE  Agrees(copy)' /\ pc' \notin FreshCalls
BY NoStackFacts DEF Agrees, Deployed, FreshCalls, SavedCredentialsCalls, PasswordCalls

\* What Hold does to pc, the copy and the password.
LEMMA HoldCopy ==
  ASSUME NEW next, NEW c, NEW current, Hold(next, c, current)
  PROVE  /\ pc' = next
         /\ \/ next # "idle" /\ copy' = c /\ password' = password
            \/ next = "idle" /\ copy' = NoStack
BY DEF Hold, EndReconcile, HoldNothing

\* A status write.
LEMMA StatusUpdateCredentials ==
  ASSUME TypeOK, ObjectInv, CredentialsInv, NEW status, NEW next, NEW otherwise,
         StatusUpdate(status, next, otherwise), UNCHANGED clusterVars, pc # "idle",
         copyCurrent /\ status.phase \in Deployed => status.mongoDB = mongoUser,
         copyCurrent /\ status.phase \in {"Running", "Degraded"} =>
           namespace = "active" /\ secret = mongoUser,
         otherwise # "idle" =>
           status.phase = copy.status.phase /\ status.phase \notin Deployed,
         {next, otherwise} \intersect PasswordCalls = {},
         next \in SavedCredentialsCalls => status.mongoDB = mongoUser,
         otherwise \notin SavedCredentialsCalls
  PROVE  CredentialsInv'
<1> DEFINE new == [copy EXCEPT !.status = status]
           put == [stack EXCEPT !.status = status]
<1>a. new.status = status /\ put.status = status
  BY WithStatusFacts DEF TypeOK, ApiOK, WorkerOK
<1>b. UNCHANGED <<namespace, secret, mongoUser>>
  BY DEF clusterVars, k8sVars, secretVars, mongoVars
<1> HIDE DEF new, put
<1>1. CASE copyCurrent /\ Store(put) /\ Hold(next, put, TRUE)
  <2>1. stack' = put /\ pc' = next
    BY <1>1, HoldCopy DEF Store
  <2>2. copy' = put \/ (copy' = NoStack /\ pc' = "idle")
    BY <1>1, HoldCopy
  <2>3. Agrees(stack)' /\ Served'
    BY <2>1, <1>1, <1>a, <1>b DEF Agrees, Served
  <2>4. CASE copy' = put
    BY <2>1, <2>3, <2>4, <1>a, <1>b DEF CredentialsInv, Agrees
  <2>5. CASE copy' = NoStack /\ pc' = "idle"
    BY <2>3, <2>5, IdleAgrees DEF CredentialsInv, FreshCalls
  <2> QED
    BY <2>2, <2>4, <2>5
<1>2. CASE /\ UNCHANGED apiVars
           /\ \E current \in BOOLEAN : Hold(otherwise, new, current)
  <2>1. UNCHANGED stack /\ pc' = otherwise
    BY <1>2, HoldCopy DEF apiVars
  <2>2. Agrees(stack)' /\ Served'
    BY <2>1, <1>b DEF CredentialsInv, Agrees, Served
  <2>3. CASE otherwise = "idle"
    <3>1. copy' = NoStack
      BY <2>3, <1>2, HoldCopy
    <3> QED
      BY <3>1, <2>1, <2>2, <2>3, IdleAgrees DEF CredentialsInv, FreshCalls
  <2>4. CASE otherwise # "idle"
    <3>1. copy' = new
      BY <2>4, <1>2, HoldCopy
    <3> QED
      BY <3>1, <2>1, <2>2, <2>4, <1>a DEF CredentialsInv, Agrees
  <2> QED
    BY <2>3, <2>4
<1> QED
  BY <1>1, <1>2 DEF StatusUpdate, new, put

\* A status write that leaves the credentials and, if it says the stack is
\* deployed, the phase alone.
LEMMA RecordCredentials ==
  ASSUME TypeOK, ObjectInv, CredentialsInv, NEW status, NEW next,
         StatusUpdate(status, next, "idle"), UNCHANGED clusterVars, pc # "idle",
         \/ status.phase \notin Deployed
         \/ status.phase = copy.status.phase /\ status.mongoDB = copy.status.mongoDB,
         next \notin FreshCalls
  PROVE  CredentialsInv'
<1>1. {"Running", "Degraded"} \subseteq Deployed
  BY DEF Deployed
<1>2. "idle" \notin FreshCalls
  BY DEF FreshCalls, SavedCredentialsCalls, PasswordCalls
<1>3. status.phase \in Deployed => status.mongoDB = mongoUser
  BY DEF CredentialsInv, Agrees
<1>4. status.phase \in {"Running", "Degraded"} => namespace = "active" /\ secret = mongoUser
  BY <1>1 DEF CredentialsInv, Served
<1> QED
  BY <1>2, <1>3, <1>4, StatusUpdateCredentials DEF FreshCalls

\* A write of the metadata or the spec.
LEMMA SpecUpdateCredentials ==
  ASSUME TypeOK, ObjectInv, CredentialsInv, NEW c \in PRStack, NEW next,
         SpecUpdate(c, next, "idle"), UNCHANGED clusterVars, pc # "idle",
         next \notin FreshCalls
  PROVE  CredentialsInv'
<1>a. UNCHANGED <<namespace, secret, mongoUser>>
  BY DEF clusterVars, k8sVars, secretVars, mongoVars
<1>1. CASE copyCurrent /\ Store(Stored(c)) /\ Hold(next, Stored(c), TRUE)
  <2>1. stack' = Stored(c) /\ pc' = next
    BY <1>1, HoldCopy DEF Store
  <2>2. copy' = stack' \/ (copy' = NoStack /\ pc' = "idle")
    BY <1>1, <2>1, HoldCopy
  <2>3. stack'.status = stack.status \/ stack' = NoStack
    BY <2>1 DEF Stored, TypeOK, ApiOK, PRStack
  <2>4. Agrees(stack)' /\ Served'
    BY <2>3, <1>a, NoStackFacts DEF CredentialsInv, Agrees, Served, Deployed
  <2>5. CASE copy' = stack'
    BY <2>1, <2>4, <2>5 DEF CredentialsInv, Agrees, FreshCalls
  <2>6. CASE copy' = NoStack /\ pc' = "idle"
    BY <2>4, <2>6, IdleAgrees DEF CredentialsInv, FreshCalls
  <2> QED
    BY <2>2, <2>5, <2>6
<1>2. CASE UNCHANGED apiVars /\ \E current \in BOOLEAN : Hold("idle", c, current)
  <2>1. UNCHANGED stack /\ copy' = NoStack /\ pc' = "idle"
    BY <1>2, HoldCopy DEF apiVars
  <2> QED
    BY <2>1, <1>a, IdleAgrees DEF CredentialsInv, Agrees, Served, FreshCalls
<1> QED
  BY <1>1, <1>2 DEF SpecUpdate

\* A call that does not write the object, and does to the credentials what the
\* phase it works in allows.
LEMMA CallCredentials ==
  ASSUME CredentialsInv, UNCHANGED stack, pc # "idle",
         copy' = copy \/ (copy' = NoStack /\ pc' = "idle"),
         \/ UNCHANGED <<namespace, secret, mongoUser>>
         \/ UNCHANGED mongoUser /\ copy.status.phase \notin {"Running", "Degraded"}
         \/ copy.status.phase \notin Deployed,
         pc' \in SavedCredentialsCalls => copy'.status.mongoDB = mongoUser',
         pc' \in PasswordCalls => password' = mongoUser'
  PROVE  CredentialsInv'
<1>1. {"Running", "Degraded"} \subseteq Deployed
  BY DEF Deployed
<1>2. Agrees(stack)' /\ Served'
  BY <1>1 DEF CredentialsInv, Agrees, Served
<1>3. CASE copy' = copy
  BY <1>2, <1>3 DEF CredentialsInv, Agrees
<1>4. CASE copy' = NoStack /\ pc' = "idle"
  BY <1>2, <1>4, IdleAgrees DEF CredentialsInv
<1> QED
  BY <1>3, <1>4

\* What Goto does to the copy and the password.
LEMMA GotoWhole ==
  ASSUME NEW next, Goto(next)
  PROVE  /\ pc' = next
         /\ copy' = copy \/ (copy' = NoStack /\ pc' = "idle")
         /\ next # "idle" => copy' = copy /\ password' = password
BY HoldCopy DEF Goto

\* No dispatch leads into the middle of provisioning.
LEMMA DispatchStale ==
  /\ \A phase : PhaseHandler(phase) \notin FreshCalls
  /\ \A c : AfterGet(c) \notin FreshCalls
  /\ \A c : Dispatch(c) \notin FreshCalls
BY DEF PhaseHandler, AfterGet, DeletionHandler, Dispatch, FreshCalls,
       SavedCredentialsCalls, PasswordCalls

-----------------------------------------------------------------------------
(* The steps *)

\* The steps of Reconcile.
LEMMA ReconcileCredentials ==
  ASSUME ~CacheLag
  PROVE  TypeOK /\ ObjectInv /\ CredentialsInv /\ ReconcileNext => CredentialsInv'
<1> SUFFICES ASSUME TypeOK, ObjectInv, CredentialsInv, ReconcileNext PROVE CredentialsInv'
  OBVIOUS
<1>a. copy \in PRStack /\ copy.status \in Status
  BY DEF TypeOK, WorkerOK, PRStack
<1>b. {"idle", "setCreatedAt", "checkReactivation", "checkExpiration", "scaleDown",
       "scaleUp", "checkHealth", "rollout", "recordRolloutError", "updateStatusWithError"}
         \intersect FreshCalls = {}
  BY DEF FreshCalls, SavedCredentialsCalls, PasswordCalls
<1>c. UNCHANGED clusterVars => UNCHANGED <<namespace, secret, mongoUser>>
  BY DEF clusterVars, k8sVars, secretVars, mongoVars
<1>d. UNCHANGED apiVars => UNCHANGED stack
  BY DEF apiVars
<1>e. {"Failed", "Inactive"} \intersect Deployed = {}
  BY DEF Deployed
<1>1. CASE FetchPRStack
  <2>1. /\ Hold(AfterGet(cached), cached, cacheCurrent)
        /\ UNCHANGED <<stack, namespace, secret, mongoUser>> /\ cached = stack
    BY <1>1, <1>c, <1>d DEF FetchPRStack, ObjectInv
  <2>2. pc' = AfterGet(cached) /\ pc' \notin FreshCalls
    BY <2>1, HoldCopy, DispatchStale
  <2>3. Agrees(stack)' /\ Served'
    BY <2>1 DEF CredentialsInv, Agrees, Served
  <2>4. copy' = stack' \/ (copy' = NoStack /\ pc' = "idle")
    BY <2>1, HoldCopy
  <2>5. CASE copy' = stack'
    BY <2>2, <2>3, <2>5 DEF CredentialsInv, Agrees, FreshCalls
  <2>6. CASE copy' = NoStack /\ pc' = "idle"
    BY <2>3, <2>6, IdleAgrees DEF CredentialsInv, FreshCalls
  <2> QED
    BY <2>4, <2>5, <2>6
<1>2. CASE AddFinalizer
  <2>1. [copy EXCEPT !.finalizer = TRUE] \in PRStack
    BY <1>a DEF PRStack
  <2> QED
    BY <2>1, <1>2, <1>b, SpecUpdateCredentials DEF AddFinalizer
<1>3. CASE SetCreatedAt
  <2> DEFINE status == [copy.status EXCEPT !.createdAt = Timestamp, !.lastActiveAt = Timestamp]
  <2>1. status.phase = copy.status.phase /\ status.mongoDB = copy.status.mongoDB
    BY <1>a DEF Status
  <2>2. /\ StatusUpdate(status, "checkReactivation", "idle") /\ UNCHANGED clusterVars
        /\ pc # "idle"
    BY <1>3 DEF SetCreatedAt
  <2> HIDE DEF status
  <2> QED
    BY <2>1, <2>2, <1>b, RecordCredentials
<1>4. CASE CheckReactivation
  <2> DEFINE status == [copy.status EXCEPT !.lastActiveAt = Timestamp]
  <2>1. status.phase = copy.status.phase /\ status.mongoDB = copy.status.mongoDB
    BY <1>a DEF Status
  <2>2. CASE BecomesActive(copy)
    <3>1. /\ StatusUpdate(status, Dispatch(copy), "idle") /\ UNCHANGED clusterVars
          /\ pc # "idle"
      BY <2>2, <1>4 DEF CheckReactivation
    <3> HIDE DEF status
    <3> QED
      BY <3>1, <2>1, DispatchStale, RecordCredentials
  <2>3. CASE ~BecomesActive(copy)
    BY <2>3, <1>4, <1>b, <1>c, <1>d, GotoWhole, CallCredentials
       DEF CheckReactivation, FreshCalls
  <2> QED
    BY <2>2, <2>3
<1>5. CASE CheckExpiration
  <2>1. [copy EXCEPT !.active = FALSE] \in PRStack
    BY <1>a DEF PRStack
  <2>2. CASE IsStackExpired(copy.status) /\ copy.active
    BY <2>1, <2>2, <1>5, <1>b, SpecUpdateCredentials DEF CheckExpiration
  <2>3. CASE ~(IsStackExpired(copy.status) /\ copy.active)
    BY <2>3, <1>5, <1>c, <1>d, DispatchStale, GotoWhole, CallCredentials
       DEF CheckExpiration, FreshCalls
  <2> QED
    BY <2>2, <2>3
<1>6. CASE MarkInactive
  <2>1. [copy.status EXCEPT !.phase = "Inactive"].phase = "Inactive"
    BY <1>a DEF Status
  <2> QED
    BY <2>1, <1>6, <1>b, <1>e, RecordCredentials DEF MarkInactive
<1>7. CASE CheckHealth
  <2>1. CASE copy.status.unhealthy
    BY <2>1, <1>7, <1>b, RecordCredentials DEF CheckHealth
  <2>2. CASE ~copy.status.unhealthy
    BY <2>2, <1>7, <1>b, <1>c, <1>d, CallCredentials
       DEF CheckHealth, EndReconcile, HoldNothing, FreshCalls
  <2> QED
    BY <2>1, <2>2
<1>8. CASE RecordRollout
  <2>1. /\ RolledOut(copy).phase = copy.status.phase
        /\ RolledOut(copy).mongoDB = copy.status.mongoDB
    BY <1>a DEF RolledOut, Status
  <2> QED
    BY <2>1, <1>8, DispatchStale, RecordCredentials DEF RecordRollout
<1>9. CASE RecordRolloutError
  BY <1>9, <1>b, RecordCredentials DEF RecordRolloutError
<1>10. CASE UpdateStatusWithError
  <2>1. FailedStatus(copy.status).phase = "Failed"
    BY <1>a DEF FailedStatus, Status
  <2> QED
    BY <2>1, <1>10, <1>b, <1>e, RecordCredentials DEF UpdateStatusWithError
<1>11. CASE \/ ListForScaleDown \/ ScaleDown \/ CheckReplicas \/ ScaleUp
            \/ ListForRollout \/ RolloutDeployment
  <2>1. UNCHANGED <<stack, namespace, secret, mongoUser>> /\ pc # "idle"
    BY <1>11, <1>c, <1>d
       DEF ListForScaleDown, ScaleDown, ScaleDownFails, CheckReplicas, ScaleUp,
           ListForRollout, RolloutDeployment, RolloutFails, ItemFails, CallFails,
           StartLoop, LoopOn, secretVars, mongoVars
  <2>2. /\ copy' = copy \/ (copy' = NoStack /\ pc' = "idle")
        /\ pc' \in {"scaleDown", "scaleUp", "checkHealth", "rollout",
                    "recordRolloutError", "updateStatusWithError"}
    BY <1>11, GotoWhole
       DEF ListForScaleDown, ScaleDown, ScaleDownFails, CheckReplicas, ScaleUp,
           ListForRollout, RolloutDeployment, RolloutFails, ItemFails, CallFails,
           StartLoop, LoopOn
  <2>3. pc' \notin FreshCalls
    BY <2>2, <1>b
  <2> QED
    BY <2>1, <2>2, <2>3, CallCredentials DEF FreshCalls
<1> QED
  BY <1>1, <1>2, <1>3, <1>4, <1>5, <1>6, <1>7, <1>8, <1>9, <1>10, <1>11
     DEF ReconcileNext

\* The steps of handleProvisioning and before it.
LEMMA ProvisionCredentials ==
  TypeOK /\ ObjectInv /\ CredentialsInv /\ ProvisionNext => CredentialsInv'
<1> SUFFICES ASSUME TypeOK, ObjectInv, CredentialsInv, ProvisionNext PROVE CredentialsInv'
  OBVIOUS
<1>a. copy \in PRStack /\ copy.status \in Status /\ Entitled(pc, copy)
  BY DEF TypeOK, WorkerOK, PRStack, ObjectInv
<1>b. /\ {"idle", "initialize", "dropUser", "createUser", "updateStatusWithError"}
           \intersect FreshCalls = {}
      /\ {"createCollections", "saveCredentials"} = PasswordCalls
      /\ {"createMongoDBSecret", "finishProvisioning"} = SavedCredentialsCalls
      /\ PasswordCalls \intersect SavedCredentialsCalls = {}
  BY DEF FreshCalls, SavedCredentialsCalls, PasswordCalls
<1>c. pc \in ProvisionCalls => copy.status.phase = "Provisioning" /\ pc # "idle"
  BY <1>a DEF Entitled, ProvisionCalls
<1>d. {"", "Provisioning"} \intersect Deployed = {}
  BY DEF Deployed
<1>1. CASE Reactivate \/ HandleInitialization
  <2>1. /\ [copy.status EXCEPT !.phase = ""].phase = ""
        /\ [copy.status EXCEPT !.phase = "Provisioning"].phase = "Provisioning"
    BY <1>a DEF Status
  <2> QED
    BY <2>1, <1>1, <1>b, <1>d, RecordCredentials DEF Reactivate, HandleInitialization
<1>2. CASE CreateNamespace \/ DropUser
  <2>1. UNCHANGED stack /\ pc \in ProvisionCalls
    BY <1>2 DEF CreateNamespace, DropUser, CallFails, apiVars, ProvisionCalls
  <2>2. /\ copy' = copy \/ (copy' = NoStack /\ pc' = "idle")
        /\ pc' \in {"dropUser", "createUser", "updateStatusWithError"}
    BY <1>2, GotoWhole DEF CreateNamespace, DropUser, CallFails
  <2>3. pc' \notin FreshCalls
    BY <2>2, <1>b
  <2> QED
    BY <2>1, <2>2, <2>3, <1>c, <1>d, CallCredentials DEF FreshCalls
<1>3. CASE CreateUser \/ CreateCollections
  <2>1. UNCHANGED stack /\ pc \in ProvisionCalls
    BY <1>3 DEF CreateUser, CreateCollections, CallFails, apiVars, ProvisionCalls
  <2>2. /\ copy' = copy \/ (copy' = NoStack /\ pc' = "idle")
        /\ pc' \in {"createCollections", "saveCredentials", "updateStatusWithError"}
    BY <1>3, GotoWhole DEF CreateUser, CreateCollections, CallFails
  <2>3. pc' \in PasswordCalls => password' = mongoUser'
    <3>1. CASE CreateUser
      BY <3>1, <1>b, GotoWhole DEF CreateUser, CallFails, FreshCalls
    <3>2. CASE CreateCollections
      <4>1. password = mongoUser /\ UNCHANGED mongoUser
        BY <3>2, <1>b DEF CreateCollections, CredentialsInv
      <4> QED
        BY <4>1, <3>2, GotoWhole DEF CreateCollections, CallFails
    <3> QED
      BY <3>1, <3>2, <1>3
  <2>4. pc' \notin SavedCredentialsCalls
    BY <2>2, <1>b DEF FreshCalls
  <2> QED
    BY <2>1, <2>2, <2>3, <2>4, <1>c, <1>d, CallCredentials
<1>4. CASE SaveCredentials
  <2> DEFINE status == WithCredentials(copy.status)
  <2>1. status.phase = copy.status.phase /\ status.mongoDB = password
    BY <1>a DEF WithCredentials, Status
  <2>2. /\ pc \in ProvisionCalls /\ pc \in PasswordCalls
        /\ StatusUpdate(status, "createMongoDBSecret", "updateStatusWithError")
        /\ UNCHANGED clusterVars
    BY <1>4, <1>b DEF SaveCredentials, ProvisionCalls
  <2> HIDE DEF status
  <2>3. status.mongoDB = mongoUser /\ status.phase = "Provisioning"
    BY <2>1, <2>2, <1>c DEF CredentialsInv
  <2>4. /\ {"createMongoDBSecret", "updateStatusWithError"} \intersect PasswordCalls = {}
        /\ "updateStatusWithError" \notin SavedCredentialsCalls
    BY DEF PasswordCalls, SavedCredentialsCalls
  <2> QED
    BY <2>1, <2>2, <2>3, <2>4, <1>c, <1>d, StatusUpdateCredentials
<1>5. CASE CreateMongoDBSecret
  <2>1. /\ UNCHANGED <<stack, mongoUser>> /\ pc \in ProvisionCalls
        /\ pc \in SavedCredentialsCalls
    BY <1>5, <1>b
       DEF CreateMongoDBSecret, WriteSecret, CallFails, apiVars, mongoVars, ProvisionCalls
  <2>2. /\ copy' = copy \/ (copy' = NoStack /\ pc' = "idle")
        /\ pc' = "finishProvisioning" \/ pc' = "updateStatusWithError"
    BY <1>5, GotoWhole DEF CreateMongoDBSecret, WriteSecret, CallFails
  <2>3. copy.status.mongoDB = mongoUser
    BY <2>1 DEF CredentialsInv
  <2>4. pc' \notin PasswordCalls
    BY <2>2, <1>b DEF FreshCalls
  <2>5. copy' = copy
    BY <2>2
  <2> QED
    BY <2>1, <2>3, <2>4, <2>5, <1>c, <1>d, CallCredentials
<1>6. CASE FinishProvisioning
  <2> DEFINE status == Provisioned(copy.status)
  <2>1. status.phase = "Deploying" /\ status.mongoDB = copy.status.mongoDB
    BY <1>a DEF Provisioned, Status
  <2>2. /\ StatusUpdate(status, "idle", "idle") /\ UNCHANGED clusterVars
        /\ pc \in SavedCredentialsCalls /\ pc # "idle"
    BY <1>6, <1>b DEF FinishProvisioning
  <2> HIDE DEF status
  <2>3. status.mongoDB = mongoUser
    BY <2>1, <2>2 DEF CredentialsInv
  <2> QED
    BY <2>1, <2>2, <2>3, <1>b, StatusUpdateCredentials DEF FreshCalls
<1> QED
  BY <1>1, <1>2, <1>3, <1>4, <1>5, <1>6 DEF ProvisionNext

\* The steps of handleDeployment.
LEMMA DeployCredentials ==
  TypeOK /\ ObjectInv /\ ReportsInv /\ CredentialsInv /\ DeployNext => CredentialsInv'
<1> SUFFICES ASSUME TypeOK, ObjectInv, ReportsInv, CredentialsInv, DeployNext
             PROVE  CredentialsInv'
  OBVIOUS
<1>a. copy \in PRStack /\ copy.status \in Status /\ Entitled(pc, copy)
  BY DEF TypeOK, WorkerOK, PRStack, ObjectInv
<1>b. (DeployCalls \union {"idle", "updateStatusWithError"}) \intersect FreshCalls = {}
  BY DEF FreshCalls, SavedCredentialsCalls, PasswordCalls, DeployCalls
<1>c. pc \in DeployCalls => copy.status.phase = "Deploying" /\ pc # "idle"
  BY <1>a DEF Entitled, DeployCalls
<1>1. CASE FinishDeployment
  <2> DEFINE status == DeployedStatus(copy.status)
  <2>1. status.mongoDB = copy.status.mongoDB
    BY <1>a DEF DeployedStatus, Status
  <2>2. /\ StatusUpdate(status, "idle", "idle") /\ UNCHANGED clusterVars
        /\ pc = "createServices" /\ pc \in DeployCalls /\ pc \in BuildCalls
    BY <1>1 DEF FinishDeployment, DeployCalls, BuildCalls
  <2> HIDE DEF status
  <2>3. copy.status.mongoDB = mongoUser
    BY <2>2, <1>c DEF CredentialsInv, Agrees, Deployed
  <2>4. copyCurrent => namespace = "active" /\ secret = copy.status.mongoDB
    BY <2>2 DEF ReportsInv, Built, BuildCalls
  <2> QED
    BY <2>1, <2>2, <2>3, <2>4, <1>b, <1>c, StatusUpdateCredentials DEF FreshCalls
<1>2. ASSUME UNCHANGED <<stack, mongoUser>>, pc \in DeployCalls,
             copy' = copy \/ (copy' = NoStack /\ pc' = "idle"),
             pc' \in DeployCalls \union {"updateStatusWithError"}
      PROVE  CredentialsInv'
  BY <1>2, <1>b, <1>c, CallCredentials DEF FreshCalls
<1>3. CASE \/ CreateRegistrySecret \/ CreateMongoDBResources \/ CreateNATSResources
           \/ CreateRedisResources
  <2>1. UNCHANGED <<stack, mongoUser>>
    BY <1>3
       DEF CreateRegistrySecret, CreateMongoDBResources, CreateNATSResources,
           CreateRedisResources, WriteSecret, DeployInfra, CallFails, apiVars,
           clusterVars, mongoVars
  <2>2. /\ pc \in DeployCalls
        /\ copy' = copy \/ (copy' = NoStack /\ pc' = "idle")
        /\ pc' \in DeployCalls \union {"updateStatusWithError"}
    BY <1>3, GotoWhole
       DEF CreateRegistrySecret, CreateMongoDBResources, CreateNATSResources,
           CreateRedisResources, WriteSecret, DeployInfra, CallFails, DeployCalls
  <2> QED
    BY <2>1, <2>2, <1>2
<1>4. CASE EnsureBackupStorage \/ CreateServiceDeployment
  <2>1. UNCHANGED <<stack, mongoUser>>
    BY <1>4
       DEF EnsureBackupStorage, CreateServiceDeployment, StartLoop, CallFails, apiVars,
           mongoVars
  <2>2. /\ pc \in DeployCalls
        /\ copy' = copy \/ (copy' = NoStack /\ pc' = "idle")
        /\ pc' \in DeployCalls \union {"updateStatusWithError"}
    BY <1>4, GotoWhole
       DEF EnsureBackupStorage, CreateServiceDeployment, StartLoop, CallFails, DeployCalls
  <2> QED
    BY <2>1, <2>2, <1>2
<1> QED
  BY <1>1, <1>3, <1>4 DEF DeployNext

\* The steps of the cleanup.
LEMMA CleanupCredentials ==
  TypeOK /\ ObjectInv /\ CredentialsInv /\ CleanupNext => CredentialsInv'
<1> SUFFICES ASSUME TypeOK, ObjectInv, CredentialsInv, CleanupNext PROVE CredentialsInv'
  OBVIOUS
<1>a. copy \in PRStack /\ copy.status \in Status /\ Entitled(pc, copy)
  BY DEF TypeOK, WorkerOK, PRStack, ObjectInv
<1>b. (CleanupCalls \union {"idle", "updateStatusWithError"}) \intersect FreshCalls = {}
  BY DEF FreshCalls, SavedCredentialsCalls, PasswordCalls, CleanupCalls
<1>c. {"createBackup", "all.mongoDB", "all.nats", "all.redis", "all.services",
       "cleanupMongoDB", "cleanupNATS", "cleanupRedis", "markCleaned",
       "removeFinalizer"} = CleanupCalls
  BY DEF CleanupCalls
<1>d. {"Cleaning", "Cleaned"} \intersect Deployed = {}
  BY DEF Deployed
<1>1. CASE MarkCleaning \/ MarkCleaned
  <2>1. /\ [copy.status EXCEPT !.phase = "Cleaning"].phase = "Cleaning"
        /\ [copy.status EXCEPT !.phase = "Cleaned"].phase = "Cleaned"
    BY <1>a DEF Status
  <2>2. {"idle", "removeFinalizer"} \intersect FreshCalls = {}
    BY <1>b, <1>c
  <2> QED
    BY <2>1, <2>2, <1>1, <1>d, RecordCredentials DEF MarkCleaning, MarkCleaned
<1>2. CASE RemoveFinalizer
  <2>1. [copy EXCEPT !.finalizer = FALSE] \in PRStack
    BY <1>a DEF PRStack
  <2> QED
    BY <2>1, <1>2, <1>b, SpecUpdateCredentials DEF RemoveFinalizer
<1>3. ASSUME pc \in CleanupCalls \ {"removeFinalizer"}, UNCHANGED stack,
             copy' = copy \/ (copy' = NoStack /\ pc' = "idle"),
             pc' \in CleanupCalls \union {"updateStatusWithError"}
      PROVE  CredentialsInv'
  <2>1. copy.status.phase = "Cleaning" /\ pc # "idle"
    BY <1>3, <1>a DEF Entitled, CleanupCalls
  <2> QED
    BY <2>1, <1>3, <1>b, <1>d, CallCredentials DEF FreshCalls
<1>4. CASE CreateBackup \/ CleanupAllMongoDB \/ CleanupMongoDBAgain
  <2>1. /\ pc \in CleanupCalls \ {"removeFinalizer"} /\ UNCHANGED stack
        /\ copy' = copy \/ (copy' = NoStack /\ pc' = "idle")
        /\ pc' \in CleanupCalls \union {"updateStatusWithError"}
    BY <1>4, <1>c, GotoWhole
       DEF CreateBackup, CleanupAllMongoDB, CleanupMongoDBAgain, CleanupMongoDB,
           MongoDBCleanupFailed, apiVars
  <2> QED
    BY <2>1, <1>3
<1>5. CASE \/ CleanupAllNATS \/ CleanupAllRedis \/ CleanupNATS \/ CleanupRedis
           \/ CleanupAllServices
  <2>1. /\ pc \in CleanupCalls \ {"removeFinalizer"} /\ UNCHANGED stack
        /\ copy' = copy \/ (copy' = NoStack /\ pc' = "idle")
        /\ pc' \in CleanupCalls \union {"updateStatusWithError"}
    BY <1>5, <1>c, GotoWhole
       DEF CleanupAllNATS, CleanupAllRedis, CleanupNATS, CleanupRedis,
           CleanupDeployment, CleanupAllServices, CleanupServices, apiVars
  <2> QED
    BY <2>1, <1>3
<1> QED
  BY <1>1, <1>2, <1>4, <1>5 DEF CleanupNext

\* The steps of the others.
LEMMA EnvironmentCredentials ==
  TypeOK /\ ObjectInv /\ CredentialsInv /\ (Crash \/ User \/ Cluster \/ Watch \/ Clock)
    => CredentialsInv'
<1> SUFFICES ASSUME TypeOK, ObjectInv, CredentialsInv,
                    Crash \/ User \/ Cluster \/ Watch \/ Clock
             PROVE  CredentialsInv'
  OBVIOUS
<1>a. UNCHANGED clusterVars => UNCHANGED <<namespace, secret, mongoUser>>
  BY DEF clusterVars, k8sVars, secretVars, mongoVars
<1>1. CASE Crash
  <2>1. /\ UNCHANGED <<stack, namespace, secret, mongoUser>>
        /\ copy' = NoStack /\ pc' = "idle" /\ pc # "idle"
    BY <1>1, <1>a DEF Crash, EndReconcile, HoldNothing
  <2>2. "idle" \notin FreshCalls
    BY DEF FreshCalls, SavedCredentialsCalls, PasswordCalls
  <2> QED
    BY <2>1, <2>2, CallCredentials DEF FreshCalls
<1>2. CASE User
  <2>1. UNCHANGED <<namespace, secret, mongoUser, pc, copy, password>>
    BY <1>2, <1>a DEF User, SetActive, SetDeployedAt, DeleteStack, CreateStack, UserStore
  <2>2. \/ stack'.status = stack.status
        \/ stack'.status = NoStatus /\ ~stack.finalizer
    <3>1. CASE (\E active \in BOOLEAN : SetActive(active)) \/ SetDeployedAt
      BY <3>1 DEF SetActive, SetDeployedAt, UserStore, TypeOK, ApiOK, PRStack
    <3>2. CASE DeleteStack
      BY <3>2, NoStackFacts DEF DeleteStack, UserStore, TypeOK, ApiOK, PRStack
    <3>3. CASE \E active \in BornActive : CreateStack(active)
      <4>1. ~stack.finalizer
        BY <3>3, NoStackFacts DEF CreateStack, ObjectInv
      <4>2. stack'.status = NoStatus
        BY <3>3 DEF CreateStack, UserStore, NewStack, NoStack
      <4> QED
        BY <4>1, <4>2
    <3> QED
      BY <3>1, <3>2, <3>3, <1>2 DEF User
  <2>3. CASE stack'.status = stack.status
    BY <2>1, <2>3 DEF CredentialsInv, Agrees, Served
  <2>4. CASE stack'.status = NoStatus /\ ~stack.finalizer
    <3>1. stack.status.phase = "" /\ stack'.status.phase = ""
      BY <2>4, NoStackFacts DEF ObjectInv, Untouched
    <3> QED
      BY <3>1, <2>1 DEF CredentialsInv, Agrees, Served, Deployed
  <2> QED
    BY <2>2, <2>3, <2>4
<1>3. CASE PurgeNamespace
  <2>1. /\ UNCHANGED <<stack, pc, copy, password, mongoUser>> /\ namespace = "terminating"
    BY <1>3 DEF PurgeNamespace, apiVars, workerVars, mongoVars
  <2>2. Served'
    BY <2>1 DEF CredentialsInv, Served
  <2> QED
    BY <2>1, <2>2 DEF CredentialsInv, Agrees
<1>4. CASE CompleteBackup \/ Watch \/ Clock
  <2>1. UNCHANGED <<stack, pc, copy, password, namespace, secret, mongoUser>>
    BY <1>4
       DEF CompleteBackup, Watch, SyncCache, Clock, Tick, apiVars, workerVars,
           clusterVars, k8sVars, secretVars, mongoVars
  <2> QED
    BY <2>1 DEF CredentialsInv, Agrees, Served
<1> QED
  BY <1>1, <1>2, <1>3, <1>4 DEF Cluster

-----------------------------------------------------------------------------
(* The theorem *)

\* The invariant is inductive.
LEMMA NextCredentials ==
  ASSUME ~CacheLag
  PROVE  TypeOK /\ ObjectInv /\ ReportsInv /\ CredentialsInv /\ [Next]_vars => CredentialsInv'
<1>1. CredentialsInv /\ UNCHANGED vars => CredentialsInv'
  BY DEF vars, apiVars, workerVars, clusterVars, k8sVars, secretVars, mongoVars,
         CredentialsInv, Agrees, Served
<1> QED
  BY <1>1, ReconcileCredentials, ProvisionCredentials, DeployCredentials,
     CleanupCredentials, EnvironmentCredentials DEF Next, Worker

\* Once a stack is deployed, the status has the password MongoDB accepts, and
\* once it runs, mongodb-secret has it too, through crashes, conflicts and
\* failed calls, when the cleanup notices every error and the cache of the
\* operator is never behind.
THEOREM CredentialsAgree ==
  ASSUME ~SilentErrors, ~CacheLag
  PROVE  Spec => []CredentialsWork
<1>1. Init => CredentialsInv
  <2> SUFFICES ASSUME Init PROVE CredentialsInv
    OBVIOUS
  <2>1. PICK active \in BornActive : stack = NewStack(active)
    BY DEF Init
  <2>2. stack.status.phase = "" /\ copy = NoStack /\ pc = "idle"
    BY <2>1, NoStackFacts DEF Init, NewStack, NoStack
  <2> QED
    BY <2>2, NoStackFacts
       DEF CredentialsInv, Agrees, Served, Deployed, SavedCredentialsCalls, PasswordCalls
<1>2. CredentialsInv => CredentialsWork
  BY DEF CredentialsInv, Agrees, Served, CredentialsWork
<1> QED
  BY <1>1, <1>2, NextCredentials, TypeCorrect, ObjectInvariant, ReportsInvariant, PTL
     DEF Spec

-----------------------------------------------------------------------------
(* The secret has what the status says, however old the reads are *)

\* The calls after which the reconcile ends, and that follow a write which
\* gives the object another phase.
SwitchCalls == {"initialize", "removeFinalizer"}

\* A version c that is still to be deployed, and may be old, has the credentials
\* that a deployed stack has on record.
Keeps(c) ==
  c.status.phase = "Deploying" /\ stack.status.phase \in Deployed =>
    c.status.mongoDB = stack.status.mongoDB

SecretInv ==
  /\ copyCurrent /\ pc \notin SwitchCalls => cached.status.phase = copy.status.phase
  /\ Keeps(cached) /\ Keeps(copy)
  /\ copyCurrent /\ copy.status.phase \in Deployed =>
       copy.status.mongoDB = stack.status.mongoDB
  /\ stack.status.phase \in {"Running", "Degraded"} => namespace = "active"
  /\ SecretIsTheRecord

\* How the record of the credentials comes into a deployed stack: with the end
\* of provisioning, and then only from a copy that has it already.
RecordWrites ==
  \/ stack'.status = stack.status
  \/ stack'.status.phase \notin Deployed
  \/ /\ copyCurrent
     /\ stack'.status.phase = copy.status.phase
     /\ stack'.status.mongoDB = copy.status.mongoDB
  \/ copyCurrent /\ pc = "finishProvisioning" /\ stack'.status.phase = "Deploying"
  \/ copyCurrent /\ pc = "createServices" /\ stack'.status.mongoDB = copy.status.mongoDB

\* How the phase of a current copy moves.
PhaseWrites ==
  copyCurrent' =>
    \/ pc' \in SwitchCalls
    \/ copy' = cached'
    \/ copyCurrent /\ pc \notin SwitchCalls /\ copy'.status.phase = copy.status.phase

\* How the secret and the namespace move.
SecretWrites ==
  /\ namespace = "active" =>
       namespace' = "active" \/ (pc \in CleanupCalls /\ UNCHANGED stack)
  /\ \/ UNCHANGED secret
     \/ namespace = "terminating"
     \/ /\ UNCHANGED stack /\ secret' = copy.status.mongoDB
        /\ pc \in SavedCredentialsCalls \/ copy.status.phase = "Deploying"

\* A status write.
LEMMA StatusUpdateWrites ==
  ASSUME TypeOK, ObjectInv, NEW status, NEW next, NEW otherwise,
         StatusUpdate(status, next, otherwise),
         \/ status.phase \notin Deployed
         \/ status.phase = copy.status.phase /\ status.mongoDB = copy.status.mongoDB
         \/ pc = "finishProvisioning" /\ status.phase = "Deploying"
         \/ pc = "createServices" /\ status.mongoDB = copy.status.mongoDB,
         \/ next \in SwitchCalls \union {"idle"}
         \/ status.phase = copy.status.phase /\ pc \notin SwitchCalls,
         \/ otherwise = "idle"
         \/ status.phase = copy.status.phase /\ pc \notin SwitchCalls
  PROVE  RecordWrites /\ PhaseWrites
<1> DEFINE new == [copy EXCEPT !.status = status]
           put == [stack EXCEPT !.status = status]
<1>a. new.status = status /\ put.status = status
  BY WithStatusFacts DEF TypeOK, ApiOK, WorkerOK
<1> HIDE DEF new, put
<1>1. CASE copyCurrent /\ Store(put) /\ Hold(next, put, TRUE)
  <2>1. stack' = put /\ pc' = next
    BY <1>1, HoldCall DEF Store
  <2>2. copyCurrent' => copy' = put /\ next # "idle"
    BY <1>1 DEF Hold, EndReconcile, HoldNothing
  <2> QED
    BY <2>1, <2>2, <1>1, <1>a DEF RecordWrites, PhaseWrites
<1>2. CASE /\ UNCHANGED apiVars
           /\ \/ copyCurrent /\ Hold(otherwise, new, TRUE)
              \/ ~copyCurrent /\ Hold(otherwise, new, FALSE)
  <2>1. copyCurrent' => copy' = new /\ copyCurrent /\ otherwise # "idle"
    BY <1>2 DEF Hold, EndReconcile, HoldNothing
  <2> QED
    BY <2>1, <1>2, <1>a DEF apiVars, RecordWrites, PhaseWrites
<1> QED
  BY <1>1, <1>2 DEF StatusUpdate, new, put

\* A write of the metadata or the spec.
LEMMA SpecUpdateWrites ==
  ASSUME TypeOK, ObjectInv, NEW c \in PRStack, c.finalizer, NEW next,
         SpecUpdate(c, next, "idle"), pc \notin SwitchCalls
  PROVE  RecordWrites /\ PhaseWrites
<1>1. Stored(c).status = stack.status
  BY DEF Stored, TypeOK, ApiOK, PRStack
<1>2. CASE copyCurrent /\ Store(Stored(c)) /\ Hold(next, Stored(c), TRUE)
  <2>1. copyCurrent' => copy' = Stored(c)
    BY <1>2 DEF Hold, EndReconcile, HoldNothing
  <2> QED
    BY <2>1, <1>1, <1>2 DEF Store, ObjectInv, Alike, RecordWrites, PhaseWrites
<1>3. CASE UNCHANGED apiVars /\ \E current \in BOOLEAN : Hold("idle", c, current)
  BY <1>3, EndMoves DEF apiVars, RecordWrites, PhaseWrites
<1> QED
  BY <1>2, <1>3 DEF SpecUpdate

\* A call that does not write the object.
LEMMA CallWrites ==
  ASSUME UNCHANGED stack, pc \notin SwitchCalls,
         copyCurrent' => copyCurrent /\ copy' = copy
  PROVE  RecordWrites /\ PhaseWrites
BY DEF RecordWrites, PhaseWrites

\* The steps of Reconcile.
LEMMA ReconcileWrites ==
  TypeOK /\ ObjectInv /\ ReconcileNext => RecordWrites /\ PhaseWrites
<1> SUFFICES ASSUME TypeOK, ObjectInv, ReconcileNext PROVE RecordWrites /\ PhaseWrites
  OBVIOUS
<1>a. copy \in PRStack /\ copy.status \in Status
  BY DEF TypeOK, WorkerOK, PRStack
<1>b. {"idle", "addFinalizer", "setCreatedAt", "checkReactivation", "checkExpiration",
       "listForScaleDown", "scaleDown", "checkReplicas", "scaleUp", "checkHealth",
       "listForRollout", "rollout", "recordRolloutError", "updateStatusWithError"}
         \intersect SwitchCalls = {}
  BY DEF SwitchCalls
<1>c. {"Failed", "Inactive"} \intersect Deployed = {}
  BY DEF Deployed
<1>1. CASE FetchPRStack
  BY <1>1 DEF FetchPRStack, Hold, EndReconcile, HoldNothing, apiVars, RecordWrites, PhaseWrites
<1>2. CASE AddFinalizer
  <2>1. /\ [copy EXCEPT !.finalizer = TRUE] \in PRStack
        /\ [copy EXCEPT !.finalizer = TRUE].finalizer
    BY <1>a DEF PRStack
  <2> QED
    BY <2>1, <1>2, <1>b, SpecUpdateWrites DEF AddFinalizer
<1>3. CASE SetCreatedAt
  <2> DEFINE status == [copy.status EXCEPT !.createdAt = Timestamp, !.lastActiveAt = Timestamp]
  <2>1. status.phase = copy.status.phase /\ status.mongoDB = copy.status.mongoDB
    BY <1>a DEF Status
  <2>2. StatusUpdate(status, "checkReactivation", "idle") /\ pc = "setCreatedAt"
    BY <1>3 DEF SetCreatedAt
  <2> HIDE DEF status
  <2> QED
    BY <2>1, <2>2, <1>b, StatusUpdateWrites
<1>4. CASE CheckReactivation
  <2> DEFINE status == [copy.status EXCEPT !.lastActiveAt = Timestamp]
  <2>1. status.phase = copy.status.phase /\ status.mongoDB = copy.status.mongoDB
    BY <1>a DEF Status
  <2>2. CASE BecomesActive(copy)
    <3>1. StatusUpdate(status, Dispatch(copy), "idle") /\ pc = "checkReactivation"
      BY <2>2, <1>4 DEF CheckReactivation
    <3> HIDE DEF status
    <3> QED
      BY <3>1, <2>1, <1>b, StatusUpdateWrites
  <2>3. CASE ~BecomesActive(copy)
    BY <2>3, <1>4, <1>b, GotoCopy, CallWrites DEF CheckReactivation, apiVars
  <2> QED
    BY <2>2, <2>3
<1>5. CASE CheckExpiration
  <2>1. /\ [copy EXCEPT !.active = FALSE] \in PRStack
        /\ [copy EXCEPT !.active = FALSE].finalizer = copy.finalizer
    BY <1>a DEF PRStack
  <2>2. Working(copy)
    BY <1>5 DEF CheckExpiration, ObjectInv, Entitled, DeletionCalls, CleanupCalls, EarlyCalls
  <2>3. CASE IsStackExpired(copy.status) /\ copy.active
    BY <2>1, <2>2, <2>3, <1>5, <1>b, SpecUpdateWrites DEF CheckExpiration, Working
  <2>4. CASE ~(IsStackExpired(copy.status) /\ copy.active)
    BY <2>4, <1>5, <1>b, GotoCopy, CallWrites DEF CheckExpiration, apiVars
  <2> QED
    BY <2>3, <2>4
<1>6. CASE MarkInactive
  <2>1. [copy.status EXCEPT !.phase = "Inactive"].phase = "Inactive"
    BY <1>a DEF Status
  <2> QED
    BY <2>1, <1>6, <1>c, StatusUpdateWrites DEF MarkInactive
<1>7. CASE CheckHealth
  <2>1. CASE copy.status.unhealthy
    BY <2>1, <1>7, <1>b, StatusUpdateWrites DEF CheckHealth
  <2>2. CASE ~copy.status.unhealthy
    BY <2>2, <1>7, <1>b, CallWrites DEF CheckHealth, EndReconcile, HoldNothing, apiVars
  <2> QED
    BY <2>1, <2>2
<1>8. CASE RecordRollout
  <2>1. /\ RolledOut(copy).phase = copy.status.phase
        /\ RolledOut(copy).mongoDB = copy.status.mongoDB
    BY <1>a DEF RolledOut, Status
  <2> QED
    BY <2>1, <1>8, <1>b, StatusUpdateWrites DEF RecordRollout
<1>9. CASE RecordRolloutError
  BY <1>9, <1>b, StatusUpdateWrites DEF RecordRolloutError
<1>10. CASE UpdateStatusWithError
  <2>1. FailedStatus(copy.status).phase = "Failed"
    BY <1>a DEF FailedStatus, Status
  <2> QED
    BY <2>1, <1>10, <1>c, StatusUpdateWrites DEF UpdateStatusWithError
<1>11. CASE \/ ListForScaleDown \/ ScaleDown \/ CheckReplicas \/ ScaleUp
            \/ ListForRollout \/ RolloutDeployment
  <2>1. UNCHANGED stack /\ pc \notin SwitchCalls
    BY <1>11, <1>b
       DEF ListForScaleDown, ScaleDown, ScaleDownFails, CheckReplicas, ScaleUp,
           ListForRollout, RolloutDeployment, RolloutFails, ItemFails, CallFails,
           StartLoop, LoopOn, apiVars
  <2>2. copyCurrent' => copyCurrent /\ copy' = copy
    BY <1>11, GotoCopy
       DEF ListForScaleDown, ScaleDown, ScaleDownFails, CheckReplicas, ScaleUp,
           ListForRollout, RolloutDeployment, RolloutFails, ItemFails, CallFails,
           StartLoop, LoopOn
  <2> QED
    BY <2>1, <2>2, CallWrites
<1> QED
  BY <1>1, <1>2, <1>3, <1>4, <1>5, <1>6, <1>7, <1>8, <1>9, <1>10, <1>11
     DEF ReconcileNext

\* The steps of the other handlers.
LEMMA HandlerWrites ==
  TypeOK /\ ObjectInv /\ (ProvisionNext \/ DeployNext \/ CleanupNext)
    => RecordWrites /\ PhaseWrites
<1> SUFFICES ASSUME TypeOK, ObjectInv, ProvisionNext \/ DeployNext \/ CleanupNext
             PROVE  RecordWrites /\ PhaseWrites
  OBVIOUS
<1>a. copy \in PRStack /\ copy.status \in Status /\ Entitled(pc, copy)
  BY DEF TypeOK, WorkerOK, PRStack, ObjectInv
<1>b. (((ProvisionCalls \union DeployCalls) \union CleanupCalls) \ {"removeFinalizer"})
        \intersect SwitchCalls = {}
  BY DEF SwitchCalls, ProvisionCalls, DeployCalls, CleanupCalls
<1>c. {"", "Provisioning", "Cleaning", "Cleaned"} \intersect Deployed = {}
  BY DEF Deployed
<1>1. CASE Reactivate \/ HandleInitialization
  <2>1. /\ [copy.status EXCEPT !.phase = ""].phase = ""
        /\ [copy.status EXCEPT !.phase = "Provisioning"].phase = "Provisioning"
    BY <1>a DEF Status
  <2> QED
    BY <2>1, <1>1, <1>c, StatusUpdateWrites DEF Reactivate, HandleInitialization, SwitchCalls
<1>2. CASE SaveCredentials
  <2>1. WithCredentials(copy.status).phase = copy.status.phase
    BY <1>a DEF WithCredentials, Status
  <2>2. copy.status.phase = "Provisioning" /\ pc \in ProvisionCalls
    BY <1>2, <1>a DEF SaveCredentials, Entitled, ProvisionCalls
  <2>3. pc \notin SwitchCalls
    BY <2>2 DEF ProvisionCalls, SwitchCalls
  <2> QED
    BY <2>1, <2>2, <2>3, <1>2, <1>c, StatusUpdateWrites DEF SaveCredentials
<1>3. CASE FinishProvisioning
  <2>1. Provisioned(copy.status).phase = "Deploying"
    BY <1>a DEF Provisioned, Status
  <2> QED
    BY <2>1, <1>3, StatusUpdateWrites DEF FinishProvisioning
<1>4. CASE FinishDeployment
  <2>1. DeployedStatus(copy.status).mongoDB = copy.status.mongoDB
    BY <1>a DEF DeployedStatus, Status
  <2> QED
    BY <2>1, <1>4, StatusUpdateWrites DEF FinishDeployment
<1>5. CASE MarkCleaning \/ MarkCleaned
  <2>1. /\ [copy.status EXCEPT !.phase = "Cleaning"].phase = "Cleaning"
        /\ [copy.status EXCEPT !.phase = "Cleaned"].phase = "Cleaned"
    BY <1>a DEF Status
  <2> QED
    BY <2>1, <1>5, <1>c, StatusUpdateWrites DEF MarkCleaning, MarkCleaned, SwitchCalls
<1>6. CASE RemoveFinalizer
  <2>1. stack'.status \in {stack.status, NoStatus} /\ copyCurrent' = FALSE
    <3>1. [copy EXCEPT !.finalizer = FALSE] \in PRStack
      BY <1>a DEF PRStack
    <3> QED
      BY <3>1, <1>6, EndMoves, StoredTyped, NoStackFacts
         DEF RemoveFinalizer, SpecUpdate, Store, Stored, apiVars, TypeOK, ApiOK, PRStack
  <2> QED
    BY <2>1, <1>c, NoStackFacts DEF RecordWrites, PhaseWrites
<1>7. CASE \/ CreateNamespace \/ DropUser \/ CreateUser \/ CreateCollections
           \/ CreateMongoDBSecret
  <2>1. UNCHANGED stack /\ pc \in ProvisionCalls
    BY <1>7
       DEF CreateNamespace, DropUser, CreateUser, CreateCollections, CreateMongoDBSecret,
           WriteSecret, CallFails, apiVars, ProvisionCalls
  <2>2. copyCurrent' => copyCurrent /\ copy' = copy
    BY <1>7, GotoCopy
       DEF CreateNamespace, DropUser, CreateUser, CreateCollections, CreateMongoDBSecret,
           WriteSecret, CallFails
  <2>3. pc \notin SwitchCalls
    BY <2>1 DEF ProvisionCalls, SwitchCalls
  <2> QED
    BY <2>1, <2>2, <2>3, CallWrites
<1>8. CASE \/ CreateRegistrySecret \/ CreateMongoDBResources \/ CreateNATSResources
           \/ CreateRedisResources \/ EnsureBackupStorage \/ CreateServiceDeployment
  <2>1. UNCHANGED stack /\ pc \in DeployCalls
    BY <1>8
       DEF CreateRegistrySecret, CreateMongoDBResources, CreateNATSResources,
           CreateRedisResources, EnsureBackupStorage, CreateServiceDeployment,
           WriteSecret, DeployInfra, StartLoop, CallFails, apiVars, DeployCalls
  <2>2. copyCurrent' => copyCurrent /\ copy' = copy
    BY <1>8, GotoCopy
       DEF CreateRegistrySecret, CreateMongoDBResources, CreateNATSResources,
           CreateRedisResources, EnsureBackupStorage, CreateServiceDeployment,
           WriteSecret, DeployInfra, StartLoop, CallFails
  <2>3. pc \notin SwitchCalls
    BY <2>1 DEF DeployCalls, SwitchCalls
  <2> QED
    BY <2>1, <2>2, <2>3, CallWrites
<1>9. CASE \/ CreateBackup \/ CleanupAllMongoDB \/ CleanupMongoDBAgain
           \/ CleanupAllNATS \/ CleanupAllRedis \/ CleanupNATS \/ CleanupRedis
           \/ CleanupAllServices
  <2>1. UNCHANGED stack /\ pc \in CleanupCalls \ {"removeFinalizer"}
    BY <1>9
       DEF CreateBackup, CleanupAllMongoDB, CleanupMongoDBAgain, CleanupMongoDB,
           CleanupAllNATS, CleanupAllRedis, CleanupNATS, CleanupRedis,
           CleanupDeployment, CleanupAllServices, CleanupServices, apiVars, CleanupCalls
  <2>2. copyCurrent' => copyCurrent /\ copy' = copy
    BY <1>9, GotoCopy
       DEF CreateBackup, CleanupAllMongoDB, CleanupMongoDBAgain, CleanupMongoDB,
           CleanupAllNATS, CleanupAllRedis, CleanupNATS, CleanupRedis,
           CleanupDeployment, CleanupAllServices, CleanupServices
  <2>3. pc \notin SwitchCalls
    BY <2>1 DEF CleanupCalls, SwitchCalls
  <2> QED
    BY <2>1, <2>2, <2>3, CallWrites
<1> QED
  BY <1>1, <1>2, <1>3, <1>4, <1>5, <1>6, <1>7, <1>8, <1>9
     DEF ProvisionNext, DeployNext, CleanupNext

\* Every step.
LEMMA NextWrites ==
  TypeOK /\ ObjectInv /\ [Next]_vars => RecordWrites /\ PhaseWrites
<1> SUFFICES ASSUME TypeOK, ObjectInv, [Next]_vars PROVE RecordWrites /\ PhaseWrites
  OBVIOUS
<1>1. CASE Worker
  BY <1>1, ReconcileWrites, HandlerWrites DEF Worker
<1>2. CASE Crash
  BY <1>2 DEF Crash, EndReconcile, HoldNothing, RecordWrites, PhaseWrites
<1>3. CASE User
  <2>1. copyCurrent' = FALSE
    BY <1>3 DEF User, SetActive, SetDeployedAt, DeleteStack, CreateStack, UserStore
  <2>2. stack'.status \in {stack.status, NoStatus}
    BY <1>3, NoStackFacts
       DEF User, SetActive, SetDeployedAt, DeleteStack, CreateStack, UserStore, NewStack,
           NoStack, TypeOK, ApiOK, PRStack
  <2> QED
    BY <2>1, <2>2, NoStackFacts DEF RecordWrites, PhaseWrites, Deployed
<1>4. CASE Cluster \/ Watch \/ Clock \/ UNCHANGED vars
  <2>1. UNCHANGED <<stack, pc, copy, copyCurrent>>
    BY <1>4
       DEF Cluster, PurgeNamespace, CompleteBackup, Watch, SyncCache, Clock, Tick, vars,
           apiVars, workerVars
  <2> QED
    BY <2>1 DEF RecordWrites, PhaseWrites
<1> QED
  BY <1>1, <1>2, <1>3, <1>4 DEF Next

\* The secret is made from the copy, and only in two calls.
LEMMA NextSecretWrites == TypeOK /\ ObjectInv /\ [Next]_vars => SecretWrites
<1> SUFFICES ASSUME TypeOK, ObjectInv, [Next]_vars PROVE SecretWrites
  OBVIOUS
<1>a. UNCHANGED clusterVars => UNCHANGED <<namespace, secret>>
  BY DEF clusterVars, k8sVars, secretVars
<1>1. CASE ReconcileNext
  BY <1>1, <1>a
     DEF ReconcileNext, FetchPRStack, AddFinalizer, SetCreatedAt, CheckReactivation,
         CheckExpiration, ListForScaleDown, ScaleDown, MarkInactive, CheckReplicas,
         ScaleUp, CheckHealth, ListForRollout, RolloutDeployment, RecordRollout,
         RecordRolloutError, UpdateStatusWithError, secretVars, SecretWrites
<1>2. CASE CreateMongoDBSecret \/ CreateMongoDBResources
  <2>1. UNCHANGED <<stack, namespace>>
    BY <1>2
       DEF CreateMongoDBSecret, CreateMongoDBResources, WriteSecret, CallFails, apiVars
  <2>2. secret' \in {secret, copy.status.mongoDB}
    BY <1>2
       DEF CreateMongoDBSecret, CreateMongoDBResources, WriteSecret, SecretData,
           CallFails, secretVars
  <2>3. pc \in SavedCredentialsCalls \/ copy.status.phase = "Deploying"
    BY <1>2
       DEF CreateMongoDBSecret, CreateMongoDBResources, SavedCredentialsCalls,
           ObjectInv, Entitled, DeployCalls
  <2> QED
    BY <2>1, <2>2, <2>3 DEF SecretWrites
<1>3. CASE ProvisionNext /\ ~CreateMongoDBSecret
  <2>1. UNCHANGED secret /\ (namespace = "active" => namespace' = "active")
    BY <1>3, <1>a
       DEF ProvisionNext, Reactivate, HandleInitialization, CreateNamespace, DropUser,
           CreateUser, CreateCollections, SaveCredentials, FinishProvisioning, k8sVars,
           secretVars
  <2> QED
    BY <2>1 DEF SecretWrites
<1>4. CASE DeployNext /\ ~CreateMongoDBResources
  <2>1. UNCHANGED <<namespace, secret>>
    BY <1>4, <1>a
       DEF DeployNext, CreateRegistrySecret, CreateNATSResources, CreateRedisResources,
           DeployInfra, EnsureBackupStorage, CreateServiceDeployment, FinishDeployment,
           secretVars
  <2> QED
    BY <2>1 DEF SecretWrites
<1>5. CASE CleanupAllServices
  <2>1. UNCHANGED <<stack, secret>> /\ pc \in CleanupCalls
    BY <1>5
       DEF CleanupAllServices, CleanupServices, apiVars, secretVars, CleanupCalls
  <2> QED
    BY <2>1 DEF SecretWrites
<1>6. CASE CleanupNext /\ ~CleanupAllServices
  <2>1. UNCHANGED <<namespace, secret>>
    BY <1>6, <1>a
       DEF CleanupNext, MarkCleaning, CreateBackup, CleanupAllMongoDB, CleanupMongoDBAgain,
           CleanupMongoDB, CleanupAllNATS, CleanupAllRedis, CleanupNATS, CleanupRedis,
           CleanupDeployment, MarkCleaned, RemoveFinalizer, k8sVars, secretVars
  <2> QED
    BY <2>1 DEF SecretWrites
<1>7. CASE PurgeNamespace
  BY <1>7 DEF PurgeNamespace, SecretWrites
<1>8. CASE Crash \/ User \/ CompleteBackup \/ Watch \/ Clock \/ UNCHANGED vars
  BY <1>8, <1>a
     DEF Crash, User, CompleteBackup, Watch, Clock, vars, secretVars, SecretWrites
<1> QED
  BY <1>1, <1>2, <1>3, <1>4, <1>5, <1>6, <1>7, <1>8 DEF Next, Worker, Cluster

\* What a version that may be old has of the credentials, after any step.
LEMMA StillKeeps ==
  ASSUME TypeOK, ObjectInv, SecretInv, RecordWrites,
         NEW c, Keeps(c), c.status.phase = "Deploying",
         pc = "finishProvisioning" => ~copyCurrent,
         stack'.status.phase \in Deployed
  PROVE  c.status.mongoDB = stack'.status.mongoDB
<1>1. CASE stack'.status = stack.status
  BY <1>1 DEF Keeps
<1>2. ASSUME copyCurrent, stack'.status.mongoDB = copy.status.mongoDB,
             copy.status.phase \in Deployed
      PROVE  c.status.mongoDB = stack'.status.mongoDB
  BY <1>2 DEF SecretInv, ObjectInv, Alike, Keeps
<1>3. pc = "createServices" => copy.status.phase \in Deployed
  BY DEF ObjectInv, Entitled, DeployCalls, Deployed
<1> QED
  BY <1>1, <1>2, <1>3 DEF RecordWrites

\* The invariant is inductive.
LEMMA NextSecret ==
  TypeOK /\ ObjectInv /\ LeavingInv /\ ReportsInv /\ SecretInv /\ [Next]_vars => SecretInv'
<1> SUFFICES ASSUME TypeOK, ObjectInv, LeavingInv, ReportsInv, SecretInv, [Next]_vars
             PROVE  SecretInv'
  OBVIOUS
<1>a. RecordWrites /\ PhaseWrites /\ SecretWrites /\ StackMoves /\ CopyMoves /\ ObjectInv'
  BY NextWrites, NextSecretWrites, NextMoves, NextObject
<1>b. /\ "Provisioning" \notin Deployed /\ "Deploying" \in Deployed /\ "" \notin Deployed
      /\ {"Running", "Degraded"} \subseteq Deployed
  BY DEF Deployed
<1>c. pc = "finishProvisioning" => copy.status.phase = "Provisioning"
  BY DEF ObjectInv, Entitled, ProvisionCalls
<1>d. copyCurrent /\ pc = "finishProvisioning" => cached.status.phase = "Provisioning"
  BY <1>c DEF SecretInv, SwitchCalls
<1>1. copyCurrent' /\ pc' \notin SwitchCalls => cached'.status.phase = copy'.status.phase
  <2> SUFFICES ASSUME copyCurrent', pc' \notin SwitchCalls
               PROVE  cached'.status.phase = copy'.status.phase
    OBVIOUS
  <2>1. CASE copy' = cached'
    BY <2>1
  <2>2. CASE copyCurrent /\ pc \notin SwitchCalls /\ copy'.status.phase = copy.status.phase
    BY <2>2, <1>a DEF CopyMoves, SecretInv, ObjectInv, Alike
  <2> QED
    BY <2>1, <2>2, <1>a DEF PhaseWrites
<1>2. Keeps(cached)'
  <2>1. CASE UNCHANGED stack /\ cached' = stack
    BY <2>1 DEF Keeps
  <2>2. CASE cached' = cached
    BY <2>2, <1>a, <1>d, StillKeeps DEF Keeps, SecretInv
  <2> QED
    BY <2>1, <2>2, <1>a DEF CopyMoves
<1>3. Keeps(copy)'
  <2>1. CASE copy' = NoStack \/ copy' = stack'
    BY <2>1, NoStackFacts DEF Keeps
  <2>2. CASE copy' = cached /\ UNCHANGED stack
    BY <2>2 DEF Keeps, SecretInv
  <2>3. CASE /\ copy'.status.phase = copy.status.phase
             /\ copy.status.phase # "Provisioning" =>
                  copy'.status.mongoDB = copy.status.mongoDB
    BY <2>3, <1>a, <1>c, StillKeeps DEF Keeps, SecretInv
  <2> QED
    BY <2>1, <2>2, <2>3, <1>a DEF CopyMoves
<1>4. copyCurrent' /\ copy'.status.phase \in Deployed =>
        copy'.status.mongoDB = stack'.status.mongoDB
  <2> SUFFICES ASSUME copyCurrent', copy'.status.phase \in Deployed
               PROVE  copy'.status.mongoDB = stack'.status.mongoDB
    OBVIOUS
  <2>1. CASE copy' = stack' \/ copy' = NoStack
    BY <2>1, <1>b, NoStackFacts
  <2>2. CASE copy' = cached /\ UNCHANGED <<stack, cached>> /\ cached = stack
    BY <2>2
  <2>3. CASE /\ copy'.status.phase = copy.status.phase
             /\ copy'.status.mongoDB = copy.status.mongoDB /\ copyCurrent
    <3>1. stack'.status.phase = copy.status.phase
      BY <2>3, <1>a DEF ObjectInv, Alike
    <3>2. copy.status.mongoDB = stack.status.mongoDB
      BY <2>3 DEF SecretInv
    <3> QED
      BY <2>3, <3>1, <3>2, <1>a, <1>b, <1>c DEF RecordWrites
  <2> QED
    BY <2>1, <2>2, <2>3, <1>a, <1>b DEF CopyMoves
<1>5. ASSUME stack'.status.phase \in {"Running", "Degraded"}
      PROVE  namespace' = "active" /\ secret' = stack'.status.mongoDB
  <2>1. ASSUME stack.status.phase \in {"Running", "Degraded"},
               stack'.status.mongoDB = stack.status.mongoDB
        PROVE  namespace' = "active" /\ secret' = stack'.status.mongoDB
    <3>1. namespace = "active" /\ secret = stack.status.mongoDB
      BY <2>1 DEF SecretInv, SecretIsTheRecord
    <3>2. pc \notin CleanupCalls
      BY <2>1, CleanupFinds, ZenonT(30) DEF Leaving
    <3>3. pc \notin SavedCredentialsCalls
      BY <2>1 DEF ReportsInv
    <3>4. copy.status.phase = "Deploying" => copy.status.mongoDB = stack.status.mongoDB
      BY <2>1, <1>b DEF SecretInv, Keeps
    <3> QED
      BY <2>1, <3>1, <3>2, <3>3, <3>4, <1>a DEF SecretWrites
  <2>2. CASE stack'.status = stack.status
    BY <2>1, <2>2, <1>5
  <2>3. CASE /\ copyCurrent /\ stack'.status.phase = copy.status.phase
             /\ stack'.status.mongoDB = copy.status.mongoDB
    BY <2>1, <2>3, <1>5, <1>b DEF SecretInv, ObjectInv, Alike
  <2>4. CASE copyCurrent /\ pc = "createServices" /\ stack'.status.mongoDB = copy.status.mongoDB
    <3>1. namespace = "active" /\ secret = copy.status.mongoDB
      BY <2>4 DEF ReportsInv, Built, BuildCalls
    <3> QED
      BY <2>4, <3>1, <1>a DEF SecretWrites, CleanupCalls
  <2> QED
    BY <2>2, <2>3, <2>4, <1>5, <1>a, <1>b DEF RecordWrites
<1> QED
  BY <1>1, <1>2, <1>3, <1>4, <1>5 DEF SecretInv, SecretIsTheRecord

\* A stack that runs has the credentials on record in mongodb-secret, also when
\* the cache is behind and a crash or a refused write has left the status
\* without the password MongoDB has, when the cleanup notices every error.
THEOREM SecretKeepsUp ==
  ASSUME ~SilentErrors
  PROVE  Spec => []SecretIsTheRecord
<1>1. Init => SecretInv
  <2> SUFFICES ASSUME Init PROVE SecretInv
    OBVIOUS
  <2>1. PICK active \in BornActive : stack = NewStack(active)
    BY DEF Init
  <2>2. /\ stack.status.phase = "" /\ cached = stack /\ copy.status.phase = ""
        /\ copyCurrent = FALSE
    BY <2>1, NoStackFacts DEF Init, NewStack, NoStack
  <2> QED
    BY <2>2 DEF SecretInv, Keeps, SecretIsTheRecord
<1>2. SecretInv => SecretIsTheRecord
  BY DEF SecretInv
<1> QED
  BY <1>1, <1>2, NextSecret, TypeCorrect, ObjectInvariant, LeavingInvariant,
     ReportsInvariant, PTL DEF Spec

=============================================================================
