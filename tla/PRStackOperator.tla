--------------------------- MODULE PRStackOperator ---------------------------
(***************************************************************************)
(* The operator: one worker reconciling one PRStack, the user, the cluster *)
(* and the clock, and what the stack promises.                             *)
(***************************************************************************)
EXTENDS PRStackCleanup

vars == <<apiVars, workerVars, budgetVars, clusterVars>>

Init ==
  /\ \E active \in BornActive : stack = NewStack(active)
  /\ cached = stack /\ cacheCurrent = TRUE
  /\ pc = "idle" /\ copy = NoStack /\ copyCurrent = FALSE
  /\ todo = {} /\ failed = {} /\ password = Nil
  /\ now = 1 /\ edits = 0 /\ stacks = 1 /\ faults = 0
  /\ namespace = "absent"
  /\ replicas = NoDeployments /\ restartedAt = NoAnnotations
  /\ secret = Nil /\ secretURI = FALSE
  /\ claim = FALSE /\ backupJob = "none"
  /\ mongoUser = Nil /\ databases = {}

ReconcileNext ==
  \/ FetchPRStack \/ AddFinalizer \/ SetCreatedAt
  \/ CheckReactivation \/ CheckExpiration
  \/ ListForScaleDown \/ ScaleDown \/ MarkInactive
  \/ CheckReplicas \/ ScaleUp \/ CheckHealth
  \/ ListForRollout \/ RolloutDeployment \/ RecordRollout \/ RecordRolloutError
  \/ UpdateStatusWithError

ProvisionNext ==
  \/ Reactivate \/ HandleInitialization
  \/ CreateNamespace \/ DropUser \/ CreateUser \/ CreateCollections
  \/ SaveCredentials \/ CreateMongoDBSecret \/ FinishProvisioning

DeployNext ==
  \/ CreateRegistrySecret \/ CreateMongoDBResources
  \/ CreateNATSResources \/ CreateRedisResources \/ EnsureBackupStorage
  \/ CreateServiceDeployment \/ FinishDeployment

Worker == ReconcileNext \/ ProvisionNext \/ DeployNext \/ CleanupNext

\* The process dies between two calls and starts again with a new cache.
Crash ==
  /\ pc # "idle"
  /\ Fault
  /\ EndReconcile
  /\ cached' = stack /\ cacheCurrent' = TRUE
  /\ UNCHANGED <<stack, now, edits, stacks, clusterVars>>

User ==
  /\ \/ \E active \in BOOLEAN : SetActive(active)
     \/ SetDeployedAt
     \/ DeleteStack
     \/ \E active \in BornActive : CreateStack(active)
  /\ UNCHANGED clusterVars

Cluster == PurgeNamespace \/ CompleteBackup

Watch == SyncCache /\ UNCHANGED clusterVars

Clock == Tick /\ UNCHANGED clusterVars

Next == Worker \/ Crash \/ User \/ Cluster \/ Watch \/ Clock

Spec == Init /\ [][Next]_vars

\* Every path of a reconcile requeues, so the worker always has a next call,
\* and the watch delivers every version in the end.
FairSpec == Spec /\ WF_vars(Worker) /\ WF_vars(Watch)

\* The cache lists the deployments in the order of a Go map, another one each
\* time: handleRunning comes upon a mismatch in the end, if there is one.
StartScaleUp == CheckReplicas /\ pc' = "scaleUp"

FairListsSpec == FairSpec /\ SF_vars(StartScaleUp)

-----------------------------------------------------------------------------
(* Types *)

Calls ==
  {"idle", "addFinalizer", "setCreatedAt", "checkReactivation",
   "checkExpiration", "listForScaleDown", "scaleDown", "checkReplicas",
   "scaleUp", "checkHealth", "listForRollout", "rollout",
   "recordRolloutError", "updateStatusWithError", "reactivate", "initialize",
   "createNamespace", "dropUser", "createUser", "createCollections",
   "saveCredentials", "createMongoDBSecret", "finishProvisioning",
   "createRegistrySecret", "createMongoDBResources", "createNATSResources",
   "createRedisResources", "ensureBackupStorage", "createServices"}

CleanupCalls ==
  {"createBackup", "all.mongoDB", "all.nats", "all.redis", "all.services",
   "cleanupMongoDB", "cleanupNATS", "cleanupRedis", "markCleaned",
   "removeFinalizer"}

Control == Calls \union CleanupCalls \union {"markCleaning"}

ApiOK == stack \in PRStack /\ cached \in PRStack /\ cacheCurrent \in BOOLEAN

WorkerOK ==
  /\ pc \in Control
  /\ copy \in PRStack /\ copyCurrent \in BOOLEAN
  /\ todo \in SUBSET Deployments /\ failed \in SUBSET Services
  /\ pc = "createServices" => todo \subseteq Services
  /\ password \in Passwords \union {Nil}

BudgetOK ==
  /\ now \in 1..MaxHours /\ edits \in 0..MaxEdits
  /\ stacks \in Nat /\ faults \in 0..MaxFaults

ClusterOK ==
  /\ namespace \in {"absent", "active", "terminating"}
  /\ replicas \in [Deployments -> {0, 1, Absent}]
  /\ restartedAt \in [Deployments -> 0..MaxDeployedAt]
  /\ secret \in Passwords \union {Nil} /\ secretURI \in BOOLEAN
  /\ mongoUser \in Passwords \union {Nil}
  /\ databases \in SUBSET DatabaseNames
  /\ claim \in BOOLEAN
  /\ backupJob \in {"none", "running", "completed", "killed"}

\* Every variable has its type, and the loops stay within the stack's names.
TypeOK == ApiOK /\ WorkerOK /\ BudgetOK /\ ClusterOK

-----------------------------------------------------------------------------
(* Safety *)

Live == stack.exists /\ ~stack.deleting

Deployed == {"Deploying", "Running", "Degraded"}

Complete(status) == status.mongoDB # Nil /\ status.nats /\ status.redis

\* Whatever crashes, conflicts and stale reads do to handleProvisioning, a
\* stack only gets to Deploying with the MongoDB, NATS and Redis records set:
\* createMongoDBResources, which reads through the three pointers without a
\* check, never meets nil.
ProvisionedBeforeDeployed ==
  /\ stack.status.phase \in Deployed => Complete(stack.status)
  /\ pc = "createMongoDBResources" => Complete(copy.status)

\* A stack that reports Inactive has every deployment at 0 replicas, NATS and
\* Redis included, also when the scale-down failed half way before.
InactiveIsScaledDown ==
  stack.status.phase = "Inactive" => \A d \in Existing : replicas[d] = 0

\* A stack that reports Running has all its deployments and its claim, the
\* credentials in mongodb-secret with the uri keys that provisioning takes out
\* and deployment puts back, and the conditions of a stack that is well.
RunningIsComplete ==
  stack.status.phase = "Running" =>
    /\ Existing = Deployments
    /\ secret # Nil /\ secretURI
    /\ BackupEnabled => claim
    /\ stack.status.ready /\ ~stack.status.degraded

\* Whatever has happened to the stack since its conditions were written, a
\* living one that is Ready and not Degraded still has all its deployments
\* and its credentials, at 0 replicas or on its way back from there.
ReadyIsComplete ==
  Live /\ stack.status.ready /\ ~stack.status.degraded =>
    Existing = Deployments /\ secret # Nil

\* The cleanup never runs against a stack that is in use: if the name exists,
\* it is being deleted, or it is a new stack that owns nothing yet.
CleanupSparesTheLiving ==
  pc \in CleanupCalls /\ Live => ~stack.finalizer

\* The finalizer covers everything that could be left behind: it is there
\* before the namespace and the MongoDB user are, and stays until both are
\* gone (the namespace at least terminating), whatever fails in between.
FinalizerGuards ==
  namespace = "active" \/ mongoUser # Nil => stack.exists /\ stack.finalizer

\* A stack that reports Cleaned, with the message "All resources have been
\* cleaned up", has neither namespace nor MongoDB user, and no reconcile of an
\* older version gives it one while it waits to go away.
CleanedIsClean ==
  stack.status.phase = "Cleaned" => namespace # "active" /\ mongoUser = Nil

\* From Deploying on the credentials in the status are those MongoDB accepts,
\* and from Running on the services find the same in mongodb-secret.
CredentialsWork ==
  /\ stack.status.phase \in Deployed => stack.status.mongoDB = mongoUser
  /\ stack.status.phase \in {"Running", "Degraded"} => secret = mongoUser

\* No deployment is left with the annotation of an older rollout than the one
\* the status has on record, whatever old read, rollout that failed half way or
\* redeployment, which takes the annotation away, came in between.
NoneLeftBehind ==
  \A d \in Existing :
    restartedAt[d] # Nil => restartedAt[d] >= stack.status.lastDeployedAt

\* Old reads may leave the status behind MongoDB, but never the services behind
\* the status: mongodb-secret has the credentials on record, although both
\* provisioning and deployment write it, from copies that may be old.
SecretIsTheRecord ==
  stack.status.phase \in {"Running", "Degraded"} => secret = stack.status.mongoDB

\* A rollout is recorded as done only when it has reached every deployment.
RolloutReachesAll ==
  [][ /\ stack.exists /\ stack'.exists
      /\ stack.status.lastDeployedAt # stack'.status.lastDeployedAt
      => \A d \in Existing : restartedAt[d] = stack'.status.lastDeployedAt
    ]_vars

-----------------------------------------------------------------------------
(* The promise, and the mapping that shows it is kept *)

Lifecycle == INSTANCE PRStackLifecycle WITH
  object  <- IF ~stack.exists THEN "absent"
             ELSE IF stack.deleting THEN "leaving" ELSE "present",
  guarded <- stack.finalizer,
  phase   <- stack.status.phase,
  space   <- namespace = "active",
  account <- mongoUser # Nil,
  up      <- {d \in Deployments : replicas[d] = 1}

\* Calls that fail, crashes, stale reads and conflicting writes never show: what
\* can be seen of the stack moves as PRStackLifecycle allows, one step or none
\* for each call the operator makes.
ImplementsLifecycle == Lifecycle!Spec

-----------------------------------------------------------------------------
(* Liveness, under FairSpec; RunningIsServed under FairListsSpec *)

\* A stack that is deleted goes away, whatever fails on the way finitely often.
DeletionCompletes == stack.deleting ~> ~stack.deleting

Serving == stack.status.phase = "Running" /\ \A d \in Deployments : replicas[d] = 1

\* When nothing fails, an active stack is served in the end, whatever the user
\* did to it before and however old the reads of the stack itself are.
ActiveIsServed == Live /\ stack.active ~> Serving \/ ~(Live /\ stack.active)

\* An inactive stack is scaled down and reports so, also after failures.
InactiveIsParked ==
  Live /\ ~stack.active ~>
    \/ stack.status.phase = "Inactive" /\ \A d \in Existing : replicas[d] = 0
    \/ ~(Live /\ ~stack.active)

\* Inactive is the way out of Failed that the code leaves: once failures end, a
\* stack that has been parked and is made active again is served.
ReactivationRecovers ==
  Live /\ stack.active /\ stack.status.phase = "Inactive" /\ faults = MaxFaults ~>
    Serving \/ ~(Live /\ stack.active)

\* A stack that is active and Running when the last failure is over is served,
\* also when a scale-down stopped half way before it was made active again, so
\* that only some deployments are at 0: handleRunning, which looks at one of
\* them only, repairs it.
RunningIsServed ==
  Live /\ stack.active /\ stack.status.phase = "Running" /\ faults = MaxFaults ~>
    Serving \/ ~(Live /\ stack.active)

\* A rollout that is asked for is carried out while the stack stays active.
RolloutHappens ==
  Live /\ stack.active /\ stack.deployedAt # stack.status.lastDeployedAt ~>
    \/ stack.deployedAt = stack.status.lastDeployedAt
    \/ ~(Live /\ stack.active)

-----------------------------------------------------------------------------
(* What comments, documents and tests of the repository say of the program, *)
(* and the code does not do.                                                *)

\* prdatabase_types.go, status.mongodb: "MongoDB credentials for this PR".
RecordedCredentialsWork ==
  stack.status.phase = "Running" /\ pc = "idle" => stack.status.mongoDB = mongoUser

\* prstack_controller.go, Reconcile: "Check if stack is expired and set Active
\* to false".
ExpiredIsDeactivated ==
  Live /\ stack.active /\ IsStackExpired(stack.status) ~> ~(Live /\ stack.active)

\* prstack_controller.go, handleCleaning, before the finalizer is removed:
\* "All resources have been cleaned up".
DatabasesAreDropped == ~stack.exists => databases = {}

\* prstack_controller_test.go, "should handle inactive stack": a stack created
\* with active false is Inactive after its first reconcile.
BornInactiveIsNotDeployed ==
  stack.status.phase \in {"", "Inactive"} /\ mongoUser = Nil

\* prstack_controller.go, handleCleaning: "Create final backup before cleanup
\* if enabled".
FinalBackupIsTaken == backupJob # "killed"

\* REACTIVATION_WORKAROUND.md, "Alternative: Delete and Recreate": "If the
\* stack is very old and you want a fresh start".
RecreatedIsServed ==
  Live /\ stack.active /\ stacks = 2 ~> Serving \/ ~(Live /\ stack.active)

=============================================================================
