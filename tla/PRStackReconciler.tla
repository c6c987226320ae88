------------------------- MODULE PRStackReconciler -------------------------
(***************************************************************************)
(* Reconcile and the handlers of a stack that is not being deleted, one    *)
(* action per call to the API server or to MongoDB.  pc names the call the *)
(* single worker makes next; local computation belongs to the call before  *)
(* it.  Deletion is in PRStackCleanup.                                     *)
(***************************************************************************)
EXTENDS PRStackCluster

-----------------------------------------------------------------------------
(* Reconcile *)

IsStackExpired(status) ==
  IF status.lastActiveAt # Nil
  THEN now > status.lastActiveAt
  ELSE status.createdAt # Nil /\ now > status.createdAt

\* Mutated form of DeletionHandler: a failed stack waits, as it does when live.
DeletionHandlerWaitFailed(status) ==
  CASE status.phase = "Cleaning" -> "createBackup"
    [] status.phase = "Failed"   -> "idle"
    [] OTHER                     -> "markCleaning"

\* Mutated form of DeletionHandler: nothing is deployed yet, so nothing is
\* taken for cleaned.
DeletionHandlerShortcut(status) ==
  CASE status.phase = "Cleaning"     -> "createBackup"
    [] status.phase = "Provisioning" -> "removeFinalizer"
    [] OTHER                         -> "markCleaning"

\* handleDeletion: a stack already in Cleaning is cleaned, any other is
\* first moved there.
DeletionHandler(status) ==
  IF status.phase = "Cleaning" THEN "createBackup" ELSE "markCleaning"

\* What Reconcile does with the object it read.
AfterGet(c) ==
  CASE ~c.exists                   -> "idle"
    [] c.exists /\ c.deleting      -> DeletionHandler(c.status)
    [] c.exists /\ ~c.deleting /\ ~c.finalizer -> "addFinalizer"
    [] OTHER -> IF c.status.createdAt = Nil THEN "setCreatedAt"
                                            ELSE "checkReactivation"

\* Mutated form of PhaseHandler: an inactive stack has no case.
PhaseHandlerNoInactive(phase) ==
  CASE phase = ""                         -> "initialize"
    [] phase = "Provisioning"             -> "createNamespace"
    [] phase = "Deploying"                -> "createRegistrySecret"
    [] phase \in {"Running", "Degraded"}  -> "checkReplicas"
    [] OTHER                              -> "idle"

\* Mutated form of PhaseHandler: a failed stack is cleaned up.
PhaseHandlerCleanFailed(phase) ==
  IF phase = "Failed" THEN "createBackup"
  ELSE IF phase = "Inactive" THEN "reactivate" ELSE PhaseHandlerNoInactive(phase)

\* Mutated form of PhaseHandler: a failed stack is provisioned once more.
PhaseHandlerRetryFailed(phase) ==
  CASE phase = "Failed"   -> "createNamespace"
    [] phase = "Inactive" -> "reactivate"
    [] OTHER              -> PhaseHandlerNoInactive(phase)

\* Mutated form of PhaseHandler: an inactive stack is only scaled up.
PhaseHandlerResume(phase) ==
  IF phase = "Inactive" THEN "checkReplicas" ELSE PhaseHandlerNoInactive(phase)

\* The switch of reconcileByPhase, as the first call of each case.
PhaseHandler(phase) ==
  CASE phase = ""                         -> "initialize"
    [] phase = "Inactive"                 -> "reactivate"
    [] phase = "Provisioning"             -> "createNamespace"
    [] phase = "Deploying"                -> "createRegistrySecret"
    [] phase \in {"Running", "Degraded"}  -> "checkReplicas"
    [] phase = "Cleaning"                 -> "createBackup"
    [] OTHER                              -> "idle"   \* Failed, Cleaned

ShouldRolloutDeployments(c) ==
  c.deployedAt # Nil /\ c.deployedAt # c.status.lastDeployedAt

\* Mutated form of Dispatch: a stack is scaled down once, when it is parked.
DispatchParkOnce(c) ==
  CASE ~c.active /\ c.status.phase # "Inactive"  -> "listForScaleDown"
    [] ~c.active /\ c.status.phase = "Inactive"  -> "idle"
    [] OTHER                                     -> PhaseHandler(c.status.phase)

\* After the expiration check.
Dispatch(c) ==
  CASE ~c.active                                 -> "listForScaleDown"
    [] c.active /\ ShouldRolloutDeployments(c)   -> "listForRollout"
    [] OTHER                                     -> PhaseHandler(c.status.phase)

FetchPRStack ==
  /\ pc = "idle"
  /\ CacheLag \/ cacheCurrent
  /\ Hold(AfterGet(cached), cached, cacheCurrent)
  /\ NoFault
  /\ UNCHANGED apiVars
  /\ UNCHANGED <<now, edits, stacks, clusterVars>>

AddFinalizer ==
  /\ pc = "addFinalizer"
  /\ SpecUpdate([copy EXCEPT !.finalizer = TRUE],
                IF copy.status.createdAt = Nil THEN "setCreatedAt"
                                               ELSE "checkReactivation",
                "idle")
  /\ UNCHANGED <<now, edits, stacks, clusterVars>>

\* Mutated form of Timestamp: the next tick of the clock.
TimestampAhead == now + 1

\* metav1.Now()
Timestamp == now

SetCreatedAt ==
  /\ pc = "setCreatedAt"
  /\ StatusUpdate([copy.status EXCEPT !.createdAt = Timestamp,
                                      !.lastActiveAt = Timestamp],
                  "checkReactivation", "idle")
  /\ UNCHANGED <<now, edits, stacks, clusterVars>>

\* An active stack that was inactive, or has expired, gets a new LastActiveAt
\* and skips the expiration check.  The code writes the time at which the
\* reconcile began its checks; the clock here is that of the write.
BecomesActive(c) ==
  c.active /\ (c.status.phase = "Inactive" \/ IsStackExpired(c.status))

CheckReactivation ==
  /\ pc = "checkReactivation"
  /\ IF BecomesActive(copy)
     THEN StatusUpdate([copy.status EXCEPT !.lastActiveAt = Timestamp],
                       Dispatch(copy), "idle")
     ELSE /\ Goto("checkExpiration")
          /\ NoFault
          /\ UNCHANGED apiVars
  /\ UNCHANGED <<now, edits, stacks, clusterVars>>

\* isStackExpired reads the clock again; handleStackExpiration.
CheckExpiration ==
  /\ pc = "checkExpiration"
  /\ IF IsStackExpired(copy.status) /\ copy.active
     THEN SpecUpdate([copy EXCEPT !.active = FALSE], "idle", "idle")
     ELSE /\ Goto(Dispatch(copy))
          /\ NoFault
          /\ UNCHANGED apiVars
  /\ UNCHANGED <<now, edits, stacks, clusterVars>>

\* updateStatusWithError: the failure of its own write is only logged.
FailedStatus(status) ==
  [status EXCEPT !.phase = "Failed", !.ready = FALSE, !.degraded = TRUE]

UpdateStatusWithError ==
  /\ pc = "updateStatusWithError"
  /\ StatusUpdate(FailedStatus(copy.status), "idle", "idle")
  /\ UNCHANGED <<now, edits, stacks, clusterVars>>

\* A call that is not a write of the PRStack fails.
CallFails(otherwise) == Fault /\ Goto(otherwise) /\ UNCHANGED apiVars

-----------------------------------------------------------------------------
(* scaleDeployments and rolloutDeployments: a List, then one Update for    *)
(* each item that needs it, until the first that fails.                    *)

\* A loop over items begins.
StartLoop(loop, items) ==
  /\ pc' = loop
  /\ todo' = items
  /\ UNCHANGED <<copy, copyCurrent, failed, password, apiVars>>

\* One more item of the loop at pc is done.
LoopOn(item) ==
  /\ todo' = todo \ {item}
  /\ UNCHANGED <<pc, copy, copyCurrent, failed, password, apiVars>>

\* What a List returns: a cache that is behind misses new deployments.  One it
\* shows with old replicas is skipped, which is the same, or its Update fails.
ListDeployments(listed) ==
  \/ listed = Existing /\ NoFault
  \/ ListLag /\ listed \subseteq Existing /\ Fault

\* Mutated form of ToScale: the loop ends at a deployment that needs nothing.
ToScaleUntilDone(desired, listed) ==
  IF \A d \in listed : replicas[d] # desired THEN listed ELSE {}

\* The deployments scaleDeployments updates: it passes over the others.
ToScale(desired, listed) == {d \in listed : replicas[d] # desired}

ListForScaleDown ==
  /\ pc = "listForScaleDown"
  /\ \/ \E listed \in SUBSET Existing :
          /\ ListDeployments(listed)
          /\ StartLoop("scaleDown", ToScale(0, listed))
     \/ CallFails("updateStatusWithError")
  /\ UNCHANGED <<now, edits, stacks, clusterVars>>

\* The Update of an item fails, as it must when the deployment is gone.
ItemFails(d, otherwise) ==
  /\ \/ Fault
     \/ replicas[d] = Absent /\ NoFault
  /\ Goto(otherwise)
  /\ UNCHANGED apiVars

\* Mutated form of ScaleDownFails: the error is logged and the loop goes on.
ScaleDownSkips(d) == LoopOn(d) /\ Fault

\* What a failed Update does to the scale-down: handleInactiveStack gives up.
ScaleDownFails(d) == ItemFails(d, "updateStatusWithError")

ScaleDown ==
  /\ pc = "scaleDown"
  /\ \E d \in todo :
       \/ /\ replicas[d] # Absent
          /\ replicas' = [replicas EXCEPT ![d] = 0]
          /\ LoopOn(d)
          /\ NoFault
       \/ ScaleDownFails(d) /\ UNCHANGED replicas
  /\ UNCHANGED <<now, edits, stacks>>
  /\ UNCHANGED <<namespace, restartedAt, secretVars, backupVars, mongoVars>>

MarkInactive ==
  /\ pc = "scaleDown" /\ todo = {}
  /\ StatusUpdate([copy.status EXCEPT !.phase = "Inactive"], "idle", "idle")
  /\ UNCHANGED <<now, edits, stacks, clusterVars>>

\* handleRunning looks at the first deployment of the List, in whatever order
\* the cache returns them.  All of them are scaled when it is not at 1.
CheckReplicas ==
  /\ pc = "checkReplicas"
  /\ \/ \E listed \in SUBSET Existing :
          /\ ListDeployments(listed)
          /\ \/ /\ listed = {} \/ \E first \in listed : replicas[first] = 1
                /\ Goto("checkHealth")
                /\ UNCHANGED apiVars
             \/ /\ \E first \in listed : replicas[first] # 1
                /\ StartLoop("scaleUp", ToScale(1, listed))
     \/ CallFails("checkHealth")
  /\ UNCHANGED <<now, edits, stacks, clusterVars>>

ScaleUp ==
  /\ pc = "scaleUp"
  /\ \/ \E d \in todo :
          \/ /\ replicas[d] # Absent
             /\ replicas' = [replicas EXCEPT ![d] = 1]
             /\ LoopOn(d)
             /\ NoFault
          \/ ItemFails(d, "checkHealth") /\ UNCHANGED replicas
     \/ /\ todo = {}
        /\ Goto("checkHealth")
        /\ NoFault
        /\ UNCHANGED <<apiVars, replicas>>
  /\ UNCHANGED <<now, edits, stacks>>
  /\ UNCHANGED <<namespace, restartedAt, secretVars, backupVars, mongoVars>>

\* An unhealthy service only changes status.message.
CheckHealth ==
  /\ pc = "checkHealth"
  /\ IF copy.status.unhealthy
     THEN StatusUpdate(copy.status, "idle", "idle")
     ELSE EndReconcile /\ NoFault /\ UNCHANGED apiVars
  /\ UNCHANGED <<now, edits, stacks, clusterVars>>

ListForRollout ==
  /\ pc = "listForRollout"
  /\ \/ \E listed \in SUBSET Existing :
          ListDeployments(listed) /\ StartLoop("rollout", listed)
     \/ CallFails("recordRolloutError")
  /\ UNCHANGED <<now, edits, stacks, clusterVars>>

\* Mutated form of RolloutFails: the error is logged and the loop goes on.
RolloutSkips(d) == LoopOn(d) /\ Fault

\* What a failed Update does to the rollout: Reconcile reports the error.
RolloutFails(d) == ItemFails(d, "recordRolloutError")

RolloutDeployment ==
  /\ pc = "rollout"
  /\ \E d \in todo :
       \/ /\ replicas[d] # Absent
          /\ restartedAt' = [restartedAt EXCEPT ![d] = copy.deployedAt]
          /\ LoopOn(d)
          /\ NoFault
       \/ RolloutFails(d) /\ UNCHANGED restartedAt
  /\ UNCHANGED <<now, edits, stacks>>
  /\ UNCHANGED <<namespace, replicas, secretVars, backupVars, mongoVars>>

\* Only status.message changes.
RecordRolloutError ==
  /\ pc = "recordRolloutError"
  /\ StatusUpdate(copy.status, "idle", "idle")
  /\ UNCHANGED <<now, edits, stacks, clusterVars>>

\* Mutated form of RolledOut: the timestamp is not recorded.
RolledOutUnrecorded(c) == c.status

\* Both timestamps are in whole seconds: what comes back is what was sent.
RolledOut(c) == [c.status EXCEPT !.lastDeployedAt = c.deployedAt]

RecordRollout ==
  /\ pc = "rollout" /\ todo = {}
  /\ StatusUpdate(RolledOut(copy), PhaseHandler(copy.status.phase), "idle")
  /\ UNCHANGED <<now, edits, stacks, clusterVars>>

-----------------------------------------------------------------------------
(* handleInitialization *)

Reactivate ==
  /\ pc = "reactivate"
  /\ StatusUpdate([copy.status EXCEPT !.phase = ""], "initialize", "idle")
  /\ UNCHANGED <<now, edits, stacks, clusterVars>>

HandleInitialization ==
  /\ pc = "initialize"
  /\ StatusUpdate([copy.status EXCEPT !.phase = "Provisioning"], "idle", "idle")
  /\ UNCHANGED <<now, edits, stacks, clusterVars>>

-----------------------------------------------------------------------------
(* handleProvisioning *)

\* The namespace is created when it is not there; one that is terminating
\* is there.
CreateNamespace ==
  /\ pc = "createNamespace"
  /\ \/ /\ namespace' = IF namespace = "absent" THEN "active" ELSE namespace
        /\ Goto("dropUser")
        /\ NoFault
        /\ UNCHANGED apiVars
     \/ CallFails("updateStatusWithError") /\ UNCHANGED namespace
  /\ UNCHANGED <<now, edits, stacks>>
  /\ UNCHANGED <<replicas, restartedAt, secretVars, backupVars, mongoVars>>

\* Connect, ping and generate the password; then dropUser, whose error is
\* ignored.
DropUser ==
  /\ pc = "dropUser"
  /\ \/ /\ \E p \in Passwords :
             /\ FreshPassword(p)
             /\ password' = p
        /\ \/ mongoUser' = Nil /\ NoFault
           \/ mongoUser' = mongoUser /\ Fault
        /\ pc' = "createUser"
        /\ UNCHANGED <<copy, copyCurrent, todo, failed, apiVars>>
     \/ CallFails("updateStatusWithError") /\ UNCHANGED mongoUser
  /\ UNCHANGED <<now, edits, stacks, k8sVars, databases>>

CreateUser ==
  /\ pc = "createUser"
  /\ \/ /\ mongoUser = Nil
        /\ mongoUser' = password
        /\ Goto("createCollections")
        /\ NoFault
        /\ UNCHANGED apiVars
     \/ /\ mongoUser # Nil   \* the user exists
        /\ Goto("updateStatusWithError")
        /\ NoFault
        /\ UNCHANGED <<apiVars, mongoUser>>
     \/ CallFails("updateStatusWithError") /\ UNCHANGED mongoUser
  /\ UNCHANGED <<now, edits, stacks, k8sVars, databases>>

\* getDatabaseName cuts the -service suffix.
GetDatabaseName(service) == [service |-> service, suffix |-> FALSE]

\* createServiceCollections for each service.  Some creators return the error
\* of their index calls, which ends the loop, and most drop it.
CreateCollections ==
  /\ pc = "createCollections"
  /\ \E made \in SUBSET DefaultServices :
       /\ databases' = databases \union {GetDatabaseName(s) : s \in made}
       /\ \/ made = DefaultServices
             /\ Goto("saveCredentials") /\ NoFault /\ UNCHANGED apiVars
          \/ CallFails("saveCredentials")
          \/ CallFails("updateStatusWithError")
  /\ UNCHANGED <<now, edits, stacks, k8sVars, mongoUser>>

\* Mutated form of WithCredentials: credentials already there are kept.
WithCredentialsOnce(status) ==
  [status EXCEPT !.mongoDB = IF @ = Nil THEN password ELSE @]

WithCredentials(status) == [status EXCEPT !.mongoDB = password]

SaveCredentials ==
  /\ pc = "saveCredentials"
  /\ StatusUpdate(WithCredentials(copy.status),
                  "createMongoDBSecret", "updateStatusWithError")
  /\ UNCHANGED <<now, edits, stacks, clusterVars>>

\* Mutated form of SecretData: a secret that is there is not replaced.
SecretDataOnce(status) == IF secret = Nil THEN status.mongoDB ELSE secret

\* The credentials mongodb-secret is made from.
SecretData(status) == status.mongoDB

\* mongodb-secret is replaced by one made from the status, with the uri keys
\* or without.  What is written after it, in the same handler, may fail.
WriteSecret(uri, next) ==
  \/ /\ Accepts(secret # Nil)
     /\ secret' = SecretData(copy.status) /\ secretURI' = uri
     /\ \/ Goto(next) /\ NoFault /\ UNCHANGED apiVars
        \/ CallFails("updateStatusWithError")
  \/ /\ ~Accepts(secret # Nil)
     /\ Goto("updateStatusWithError")
     /\ NoFault
     /\ UNCHANGED <<apiVars, secretVars>>
  \/ CallFails("updateStatusWithError") /\ UNCHANGED secretVars

CreateMongoDBSecret ==
  /\ pc = "createMongoDBSecret"
  /\ WriteSecret(FALSE, "finishProvisioning")
  /\ UNCHANGED <<now, edits, stacks>>
  /\ UNCHANGED <<namespace, replicas, restartedAt, backupVars, mongoVars>>

\* Mutated form of Provisioned: the Redis record is left for later.
ProvisionedNoRedis(status) ==
  [status EXCEPT !.nats = TRUE, !.phase = "Deploying"]

\* The status at the end of handleProvisioning: provisionNATS and
\* provisionRedis only set their pointers.
Provisioned(status) ==
  [status EXCEPT !.nats = TRUE, !.redis = TRUE, !.phase = "Deploying"]

FinishProvisioning ==
  /\ pc = "finishProvisioning"
  /\ StatusUpdate(Provisioned(copy.status), "idle", "idle")
  /\ UNCHANGED <<now, edits, stacks, clusterVars>>

-----------------------------------------------------------------------------
(* handleDeployment *)

\* The secret is only made when GitHub credentials are configured.
CreateRegistrySecret ==
  /\ pc = "createRegistrySecret"
  /\ \/ Goto("createMongoDBResources") /\ NoFault /\ UNCHANGED apiVars
     \/ CallFails("updateStatusWithError")
  /\ UNCHANGED <<now, edits, stacks, clusterVars>>

\* Reads through status.MongoDB, status.NATS and status.Redis; the config
\* maps hold the same data as the secret.
CreateMongoDBResources ==
  /\ pc = "createMongoDBResources"
  /\ WriteSecret(TRUE, "createNATSResources")
  /\ UNCHANGED <<now, edits, stacks>>
  /\ UNCHANGED <<namespace, replicas, restartedAt, backupVars, mongoVars>>

\* CreateOrUpdate of a deployment: the template, with its annotations, and
\* the replicas are replaced.
Deploy(d) ==
  /\ Accepts(replicas[d] # Absent)
  /\ replicas' = [replicas EXCEPT ![d] = 1]
  /\ restartedAt' = [restartedAt EXCEPT ![d] = Nil]

\* A deployment and its service.
DeployInfra(d, next) ==
  /\ \/ Deploy(d) /\ Goto(next) /\ NoFault /\ UNCHANGED apiVars
     \/ Deploy(d) /\ CallFails("updateStatusWithError")
     \/ /\ ~Accepts(replicas[d] # Absent)
        /\ Goto("updateStatusWithError")
        /\ NoFault
        /\ UNCHANGED <<apiVars, replicas, restartedAt>>
     \/ /\ CallFails("updateStatusWithError")
        /\ UNCHANGED <<replicas, restartedAt>>
  /\ UNCHANGED <<now, edits, stacks>>
  /\ UNCHANGED <<namespace, secretVars, backupVars, mongoVars>>

CreateNATSResources ==
  pc = "createNATSResources" /\ DeployInfra("nats", "createRedisResources")

CreateRedisResources ==
  pc = "createRedisResources" /\ DeployInfra("redis", "ensureBackupStorage")

\* createBackupPVC makes the claim of a stack with backups, if there is none;
\* then the loop over the services starts.
EnsureBackupStorage ==
  /\ pc = "ensureBackupStorage"
  /\ \/ /\ BackupEnabled => Accepts(claim)
        /\ claim' = (claim \/ BackupEnabled)
        /\ StartLoop("createServices", Services)
        /\ NoFault
     \/ /\ BackupEnabled /\ ~Accepts(claim)
        /\ Goto("updateStatusWithError")
        /\ NoFault
        /\ UNCHANGED <<apiVars, claim>>
     \/ /\ BackupEnabled
        /\ CallFails("updateStatusWithError")
        /\ UNCHANGED claim
  /\ UNCHANGED <<now, edits, stacks>>
  /\ UNCHANGED <<namespace, replicas, restartedAt, secretVars, backupJob, mongoVars>>

\* createServiceDeployment makes a deployment, a service and, for graphql, an
\* ingress; a failure is noted and the loop goes on.
CreateServiceDeployment ==
  /\ pc = "createServices"
  /\ \E s \in todo :
       /\ todo' = todo \ {s}
       /\ \/ Deploy(s) /\ NoFault /\ failed' = failed
          \/ /\ failed' = failed \union {s}
             /\ \/ Deploy(s) /\ Fault
                \/ Fault /\ UNCHANGED <<replicas, restartedAt>>
                \/ /\ ~Accepts(replicas[s] # Absent)
                   /\ NoFault
                   /\ UNCHANGED <<replicas, restartedAt>>
  /\ UNCHANGED <<pc, copy, copyCurrent, password, apiVars>>
  /\ UNCHANGED <<now, edits, stacks>>
  /\ UNCHANGED <<namespace, secretVars, backupVars, mongoVars>>

\* Mutated form of PhaseAfterDeployment: any deployed service is enough.
PhaseAfterDeploymentAny == IF failed = Services THEN "Failed" ELSE "Running"

PhaseAfterDeployment ==
  CASE failed = Services                -> "Failed"
    [] failed # Services /\ failed # {} -> "Degraded"
    [] OTHER                            -> "Running"

\* Mutated form of DeployedStatus: the degraded stack has the conditions of a
\* running one.
DeployedStatusReady(status) ==
  [status EXCEPT !.phase = PhaseAfterDeployment, !.unhealthy = failed # {},
                 !.ready = failed # Services, !.degraded = failed = Services]

\* The status at the end of handleDeployment, conditions included.
DeployedStatus(status) ==
  [status EXCEPT !.phase = PhaseAfterDeployment, !.unhealthy = failed # {},
                 !.ready = failed # Services, !.degraded = failed # {}]

FinishDeployment ==
  /\ pc = "createServices" /\ todo = {}
  /\ StatusUpdate(DeployedStatus(copy.status), "idle", "idle")
  /\ UNCHANGED <<now, edits, stacks, clusterVars>>

=============================================================================
