# A formal model of the PRStack operator

The operator of this repository turns a `PRStack` custom resource into a running
preview environment of one pull request: a namespace with the services of the
shop, NATS and Redis in it, and a user and databases in a shared MongoDB. This
directory holds TLA+ modules that model it, configurations that check them with
TLC, and proofs checked by TLAPS.

## 1. Inventory

| Part | Source | State it keeps | Operations |
|---|---|---|---|
| Reconcile loop, phase machine | `controllers/prstack_controller.go` | `status.phase`, `createdAt`, `lastActiveAt`, `lastDeployedAt`, the finalizer | `Reconcile`, `reconcileByPhase`, one handler per phase, `updateStatusWithError` |
| Scaling and rollout | same | `spec.replicas` and the `restartedAt` annotation of every deployment | `handleInactiveStack`, `handleRunning`, `scaleDeployments`, `rolloutDeployments` |
| Provisioning | `controllers/provisioning.go`, `createMongoDBSecret` | the MongoDB user and databases, `status.mongodb/nats/redis`, `mongodb-secret` | `provisionMongoDB`, `provisionNATS`, `provisionRedis` |
| Deployment | `controllers/stack_provisioning.go`, `provisioning.go` | deployments, services, secrets and config maps in the namespace | `createNamespace`, `createMongoDBResources`, `createNATSResources`, `createRedisResources`, `createServiceDeployment` |
| Cleanup | `controllers/cleanup.go`, `handleDeletion`, `handleCleaning` | all of the above, taken away | `cleanupAllResources`, `cleanupMongoDB`, `cleanupNATS`, `cleanupRedis`, `cleanupServices` |
| Backup | `controllers/backup_restore.go`, `backup_pvc.go` | a job and a volume claim in the namespace | `CreateBackup`, `ensureBackupStorage` |
| Conditions | `setReadyCondition` and its like, and callers | `status.conditions` | set by `handleDeployment` and `updateStatusWithError`, left alone by everything else |
| Names and URIs | `controllers/service_config.go`, three other places | none | `getDatabaseName`, `getDatabaseURIs` |
| Validation | `controllers/validation.go` | none | called by nobody |
| API types | `api/v1alpha1`, `config/crd` | the schema, its defaults | |
| Start-up | `operator/main.go` | the manager | leader election, off by default and on in the deployed manifests |

How they interact. The user writes `spec.active`, `spec.deployedAt`, and creates
and deletes the object. The watch fills the informer cache. One worker takes the
object from the cache and runs the handler of its phase to the end; a handler is
a sequence of calls to the API server and to MongoDB, each of which may fail, and
some of which write the object itself. The namespace controller and the backup
job run on their own.

What is hard. Every call may fail, and different handlers do different things
about it: some set `Failed`, some return, some log, some drop the error. The
process may die between any two calls. The object a reconcile works on may be
old, from the cache or because the user wrote meanwhile; optimistic locking stops
its writes of the object, but not what it has already done to MongoDB and to the
namespace. A name may be deleted and created again while a reconcile still works
on the old object and the old namespace still terminates. The namespace, the
MongoDB user and the databases are named by `spec.prNumber`, which nothing keeps
two stacks from sharing. `PROJECT.json` lists
these hazards line by line.

What makes each part correct:

- phase machine: a phase in the status is true of the cluster (`Inactive`: all at
  zero; `Running`: everything there; `Deploying` and later: the records are set);
  an active stack gets served, an inactive one parked, a deleted one goes away;
- conditions: what they still say after deactivation, re-provisioning or a failed
  cleanup is no more than what is still there;
- rollout: recorded only when it has reached every deployment, carried out, and
  no deployment is left behind the record;
- provisioning: the status, the secret and MongoDB agree on the password, and the
  secret with the status even when reads are old;
- cleanup: takes nothing from a living stack, forgets nothing before the
  finalizer goes, and comes to an end;
- all of it together: seen from outside, the stack moves as a simple life cycle
  says, with every failure, crash and stale read a step of it or no step at all.

## 2. Modules

`PRStackAPI`, `PRStackCluster`, `PRStackReconciler`, `PRStackCleanup` and
`PRStackOperator` extend each other in this order.

| Module | Models |
|---|---|
| `PRStackAPI` | The object, the cache, the copy of the running reconcile, `Status().Update` and `Update` with their conflicts and failures, the user, the clock. |
| `PRStackCluster` | Namespace, deployments, secret, backup claim and job, MongoDB user and databases, and what the cluster does to them by itself. |
| `PRStackReconciler` | `Reconcile` and the handlers of a stack that is not being deleted. |
| `PRStackCleanup` | `handleDeletion`, `handleCleaning` and the cleanup functions. |
| `PRStackOperator` | The composition: `Init`, `Next`, fairness, types, properties, the mapping to the life cycle. |
| `PRStackLifecycle` | The abstract specification: object, finalizer, phase, namespace, MongoDB account and what is up, without calls, copies or failures. |
| `PRStackOwners` | Two stacks with one `spec.prNumber`: two instances of `PRStackOperator` with one cluster and one worker between them. |
| `MCPRStackOperator`, `MCPRStackOwners` | Values of the constants for TLC. |
| `PRStackOperator_proofs` | Types, and the records a deployment reads. |
| `PRStackObject_proofs` | What old copies of the object still guarantee; the cleanup spares the living. |
| `PRStackHoldings_proofs` | The finalizer and the loops over the deployments. |
| `PRStackLifecycle_proofs` | The refinement. |
| `PRStackReports_proofs` | What `Cleaned`, `Running`, and the conditions, say of the cluster. |
| `PRStackCredentials_proofs` | The credentials in the status, the secret and MongoDB. |
| `PRStackRollouts_proofs` | The record of the last rollout and the annotations. |
| `PRStackOwners_proofs` | Who answers for what two stacks of one number hold. |

One action is one call to the API server or to MongoDB, with the local
computation that leads to the next call. `pc` names the call the worker makes
next, after the function that makes it; `idle` is between two reconciles. `copy`
is the Go variable `prStack`, which the client decodes the server's answer into
after a successful write. Resource versions are one bit for each copy: current
or not. `Hold` ends a reconcile when the next call is `idle`, and then everything
the reconcile held is forgotten.

Data that decides nothing is left out: messages, events, images, ports,
resources. A timestamp is the value of a clock that counts in units of
`StackExpirationTime`; a password is a number and stands for the whole
`status.mongodb` record; replicas are 0, 1 or `Absent`. A database is a service
name with or without its `-service` suffix, because that is what the two places
that form the name disagree on. Of `mongodb-secret` the password and one bit are
kept: whether it has the uri keys, which `createMongoDBSecret` leaves out and
`createMongoDBResources` puts back. `generateSecurePassword` returns the least
password nobody holds: any two fresh ones are alike. Of the conditions, whether
`Ready` and `Degraded` are `True`; nothing but a deployment and an error writes
them, so `Ready` stays while the stack is `Inactive`. `Progressing` is only ever
set to `True`, and reasons and transition times decide nothing.

Definitions named `...Skips`, `...Once` and so on, commented as mutated forms,
are plausible bugs; each breaks one property, which shows that the property looks
at that code. They are not part of the specification.

Environment. A write from a copy that is not current is refused; a write that
would change nothing may leave the version as it is. The object goes away with
its last finalizer. `spec.active` is sent with `omitempty` and defaulted to true
by the schema, so the client cannot store `false` though a user's `kubectl` can.
Objects can be updated but not created in a terminating namespace. A crash brings
the worker to `idle` and fills a new cache.

The life cycle. `PRStackLifecycle` says what may be seen of a stack: it takes hold
of the namespace and the account, and puts deployments up, only under the
finalizer; `Failed` is left for `Inactive` only; it may say `Inactive` only when
nothing is up, stays down while it says so, keeps its namespace until it is being
deleted, says `Cleaned` and goes away only when it holds nothing.
`PRStackOperator` maps `object` to existence and the deletion timestamp,
`guarded` to the finalizer, `phase` to `status.phase`, `space` to an active
namespace, `account` to the MongoDB user, `up` to the deployments at one replica.

Two owners. In `PRStackOwners` either stack has an object, a cache entry and a
reconcile of its own; the one worker takes up a stack only when it is done with
the other, a crash ends both, and the cluster is shared. Each takes the account
and the namespace from the other, so the single-stack `FinalizerGuards` is not
kept; what is kept is `SomeoneAnswers`.

## 3. Checks

The runs of `MCPRStackOperator` have two services, one that can work and one that
fails, and six passwords: one for every place that can hold one, and one more.
Deadlock is checked in every run.

| Run | Bounds (clock, rollouts, edits, creations, faults) | Shows |
|---|---|---|
| `lifecycle` | 1, 0, 2, 2, 2, backup on | `TypeOK`, `ProvisionedBeforeDeployed`, `InactiveIsScaledDown`, `RunningIsComplete`, `ReadyIsComplete`, `CleanupSparesTheLiving`, `FinalizerGuards`, `SecretIsTheRecord`, `CleanedIsClean` |
| `agreement` | 1, 2, 2, 1, 2, cache never behind | `CredentialsWork`, `NoneLeftBehind`, `RolloutReachesAll`, `ImplementsLifecycle` |
| `settling` | 1, 0, 2, 1, 1, dropped errors on, Lists that are behind, created active or not | `DeletionCompletes`, `InactiveIsParked`, `ReactivationRecovers`, `RunningIsServed` |
| `serving` | 2, 1, 2, 1, 0 | `ActiveIsServed`, `RolloutHappens` |
| `owners` | 1, 0, 0, 1 each, 1, one service | `SomeoneAnswers`, `EitherCanGo` |

Why the bounds are enough for what the runs are for: two edits deactivate and
reactivate a stack in the middle of anything; two creations are an old and a new
stack of one name; one fault is a handler that fails at any of its calls, two are
a first round and a second round of the cleanup that both fail; two rollouts are
one that is asked for while the other runs; a clock of two makes a stack expire
between any two calls. The databases of one service are enough where liveness
depends on their creation, and `lifecycle`, `agreement` and `owners` have none
(`NoService`): no property of theirs reads a database. Then the two services
are alike, and `lifecycle` and `agreement` use `ServiceSymmetry`; the liveness
runs do not. The theorems of section 4 hold without any of these bounds.

Three switches separate what holds from what does not.

- `CacheLag = FALSE`: a reconcile starts from a current object (it may still be
  overtaken afterwards). With `TRUE`, `CredentialsWork` is not kept: see
  `v_credentials`. What is kept is `SecretIsTheRecord`, and `lifecycle` checks it
  so: a running stack may have a password on record that MongoDB has forgotten,
  but its services never have another one than the record.
- `ListLag = FALSE`: a List of the deployments shows all there are. With `TRUE`,
  the scale-down may miss a deployment that has just been created and report
  `Inactive` while it runs, so `InactiveIsScaledDown` is not kept; the handler of
  an inactive stack scales again at every reconcile, which is why
  `InactiveIsParked` is kept, and `settling` checks it so.
- `SilentErrors = FALSE`: calls whose error the cleanup drops do not fail. With
  `TRUE`, `FinalizerGuards` is not kept: one failed `dropUser`, or one failed Get
  of the namespace, is taken for success, and the finalizer goes; `CleanedIsClean`
  is not kept either, and `v_cleaned` shows it; `lifecycle` checks it without them. What a first stack has left so may
  be taken for its own by the next of its name: with four faults, two failed Gets
  of NATS and two of Redis while the namespace is deleted, a re-created stack comes
  to `Running` in a namespace that is about to go, so `RunningIsComplete`,
  `ReadyIsComplete`, `SecretIsTheRecord` and `CredentialsWork` are not kept.

Fairness (`FairSpec`) is weak fairness of the worker as a whole and of the watch.
Every path of a reconcile of an existing stack returns a requeue or an error
(which requeues) or is followed by an event of its own write, so the worker
always runs again; the watch delivers every version eventually. `PRStackOwners`
needs strong fairness for the worker's turn with one stack: it is enabled again
and again, not all the time, while the other stack is reconciled too, and the
work queue is served in order. Nothing is assumed of the user, of the clock, of
crashes, which are bounded by `MaxFaults`, or of the cluster: no liveness property
needs the namespace to go. `ActiveIsServed` is checked without faults and with
Lists that show every deployment; only its reads of the `PRStack` may be old:
`reconcileByPhase` does nothing for `Failed`, so one failed call leaves an active
stack there until it is deactivated or deleted. What the code does offer is
`ReactivationRecovers`: a stack that has been parked after its failures and is
made active again is served, on whatever the failed attempt left behind.

`RunningIsServed`, in `settling`, is about what no run without faults can reach.
When the worker dies half way through a scale-down and the user makes the stack
active again, it is still `Running`, with some deployments at 1 and others at 0.
`handleRunning` then compares one deployment, the first of the List, and scales
all of them or none. `settling` therefore runs under `FairListsSpec`, which adds
to `FairSpec` that a mismatch which can come first again and again does so in the
end: the cache returns the items of a Go map, in an order that is drawn anew at
each call. Nothing else repairs such a stack while it stays `Running`. Under
`FairSpec` alone `RunningIsServed` is not kept: with a cache that sorts its lists
a deployment could stay at 0 behind a first one at 1. The other three properties
of `settling` hold under `FairSpec` too.

`RolloutHappens` is checked without faults and for one `spec.deployedAt`: that old
reads and conflicting edits do not lose a rollout. What a rollout that fails half
way, or another value of `spec.deployedAt` in the middle of it, may lead to is the
subject of `RolloutReachesAll` and `NoneLeftBehind`, in `agreement`.

The bound on faults is a bound on the model and an assumption of the liveness
runs: failures end.

Runs that end in a violation, each a statement of the repository that the code
does not keep (`PROJECT.json`, `findings`, quotes them):

| Run | Violated | Because |
|---|---|---|
| `v_expiry` | `ExpiredIsDeactivated` | the reactivation check runs first and takes an expired stack for a reactivated one |
| `v_databases` | `DatabasesAreDropped` | the cleanup forms other database names than the provisioning |
| `v_born_inactive` | `BornInactiveIsNotDeployed` | adding the finalizer turns `active` to true |
| `v_backup` | `FinalBackupIsTaken` | nobody waits for the backup job |
| `v_credentials` | `RecordedCredentialsWork` | provisioning again from an old read changes the password in MongoDB and nowhere else |
| `v_cleaned` | `CleanedIsClean` | the cleanup takes every failed Get of the namespace for its absence |
| `v_recreate` | `RecreatedIsServed` | a terminating namespace counts as existing |

One more statement of the code is not kept and needs no run: `handleCleaning`
says that deployments are removed before the database cleanup
(`prstack_controller.go:499-500`), and the function it calls there starts with
`cleanupMongoDB`.

## 4. Proofs

All theorems hold for all values of the constants that satisfy the named
assumptions (`ServicesAssumption`, `PasswordsAssumption`, `BoundsAssumption`,
`FlagsAssumption`, `CleanupAssumption`; what they say is in `PRStackAPI` and
`PRStackCleanup`), so for any number of services, faults, crashes, edits and
re-creations. Some need a switch of section 3 to be off, and say so.

| Theorem | States | Needs |
|---|---|---|
| `TypeCorrect` | `TypeOK` | |
| `DeployedIsProvisioned` | `ProvisionedBeforeDeployed` | |
| `CleanupIsSafe` | `CleanupSparesTheLiving` | |
| `FinalizerCovers` | `FinalizerGuards` | `~SilentErrors` |
| `InactiveIsDown` | `InactiveIsScaledDown` | `~ListLag` |
| `RolloutIsHonest` | `RolloutReachesAll` | `~ListLag` |
| `CleanedIsTrue` | `CleanedIsClean` | `~SilentErrors` |
| `RunningIsReal` | `RunningIsComplete` | `~SilentErrors` |
| `ReadyIsReal` | `ReadyIsComplete` | `~SilentErrors` |
| `NoneIsLeftBehind` | `NoneLeftBehind` | `~ListLag` |
| `CredentialsAgree` | `CredentialsWork` | `~SilentErrors`, `~CacheLag` |
| `SecretKeepsUp` | `SecretIsTheRecord` | `~SilentErrors` |
| `OneOfThemAnswers` | `SomeoneAnswers` | `~SilentErrors` |
| `KeepsPromise` | `ImplementsLifecycle` | `~SilentErrors`, `~ListLag` |

These are all the safety properties that passing runs check, of one stack and of
two. Each rests on an inductive invariant, and each invariant on those before it.

- `TypeOK` is inductive because it says of the deployment loop that it holds
  services only; without that, a failed item could not be put into `failed`.
- `ProvisioningInv`. The record is built up over several calls, and a stale copy
  may be dispatched and written later, so the invariant speaks of the stored
  object, of the cached one and of the worker's copy, and says for each call of
  `handleProvisioning` and `handleDeployment` what has been established before it
  (`Supports`).
- `ObjectInv`. The worker acts on the cluster before its next write of an old
  copy is refused. The invariant says what an old copy still guarantees
  (`AsOld`): one that was being deleted has been deleted further or is of a stack
  that has gone, one with the finalizer is of a stack that still has it. A
  current copy agrees with the stored object, and then the cache is not a
  re-creation behind (`NotFarBehind`). `Entitled` says what the copy is like for
  each call.
- `HoldingInv` follows the second round of the cleanup: from its MongoDB part on
  the namespace is not active, after it the user is gone. The first round proves
  nothing, since its errors are dropped.
- `CleanedInv`: a stack becomes `Cleaned` only at the end of a cleanup
  (`CleanedWritten`), when nothing is held, and from then on both the cache and the
  worker's copy know that it is being deleted, so no step takes hold of anything
  (`TakenInProvisioning`).
- `LoopInv`: what the running loop over the deployments has left undone is in
  `todo`.
- `LeavingInv`, `EmptiedInv`, `ReportsInv`. The conditions outlive what wrote
  them, and the cleanup of an old copy takes things away before it is refused, so
  `ReadyIsComplete` needs to know that whoever cleans up finds a stack whose own
  phase says so (`LeavingInv`), and that a deployment that gets past NATS is not
  in a namespace that is terminating (`EmptiedInv`: there NATS is gone, or the
  stack is). `Built` then says what `handleDeployment` has made before each of
  its calls, for a current copy.
- `CredentialsInv`: with a current read, no other writes the status while the
  worker is at MongoDB, and the phase of the copy is that of the stack; so the
  password changes only in phases in which nobody counts on it.
- `RolloutInv`. A redeployment takes an annotation away, and a rollout from an old
  copy may annotate some deployments before its record is refused. The invariant
  says that the record is no later than the `spec.deployedAt` of any copy of the
  object, old or not (the user only moves it on), so whatever a rollout writes is
  at least the record; a new record comes from a current copy whose loop has
  reached every deployment. `RecordMoves` and `AnnotationsMove` say how a step may
  change the two.
- `SecretInv`. The secret is written in provisioning and again in deployment, both
  times before the write that the API server may refuse. The invariant says that
  an old copy which still says `Deploying` has the credentials that a deployed
  stack has on record (`Keeps`): after the end of provisioning nothing changes
  them. Provisioning from an old copy does overwrite the secret, but only after
  its `saveCredentials` has been accepted, so with the password on record.
- `OwnersInv`. In `PRStackOwners` the invariants of the single stack do not hold:
  the other stack drops the user and deletes the namespace in the middle of
  anything. What an owner does to its own object, cache entry and reconcile does
  not depend on the cluster, so it is stated as `Moves` over records, without the
  cluster; every action of either instance is shown to be one of them, and
  `OwnerInv` is proved to be kept by moves once, for both. `OwnersInv` adds what the
  two share: one of them is at rest, and when the other is in or past the MongoDB
  part of the second round of the cleanup (`LateCalls`, `LastCalls`) the namespace,
  and then the user, is gone, whoever made them. The lemmas that take the actions
  apart are stated for `A` and again for `B`: the instances have different
  variables, and the prover has no substitution of one for the other.
- `KeepsPromise` needs no invariant of its own: given those above, every action
  is shown to be a step of `PRStackLifecycle`, or none.

Model-checked only: all liveness (`settling`, `serving`, `EitherCanGo`), since
reasoning about fairness and `ENABLED` is out of reach of the prover; and the seven
counterexamples, which need no proof.

## 5. Not modelled

- Messages, events, reasons and transition times of the conditions, the ingress,
  images, ports, environment variables, the tables of `service_config.go`, the
  text of the URIs and the plural names of the message subjects: no decision
  depends on them. Resource limits, domains and image tags are read when a
  deployment is built and never compared.
- Code without a caller: `ValidatePRStack` (only its tests call it), `RestoreBackup`
  with the restore job, `cleanupBackupPVC`, `getDatabaseURIs`. `ListBackups` and
  `CleanupOldBackups` are stubs.
- Edits of `spec.services`, `spec.imageTag` and `spec.mongoURI` of a living stack:
  the model has the services as a constant and one MongoDB.
- Two replicas of the operator: leader election is off by default in `main.go`,
  but the deployed manifests pass `--leader-elect`.
- Finalizers of others. The namespace controller removes the content of a
  namespace in one step. The caches of namespaces and secrets are taken to be up
  to date; those of the `PRStack` and of the deployments are not.
- Fractions of a second: `metav1.Time` keeps whole seconds, and `spec.deployedAt` is
  taken to be given in them, as the documents do. A fraction in it would never
  equal the `status.lastDeployedAt` that comes back.
- The time between two calls of one reconcile: the reactivation check writes the
  time at which the reconcile took up its checks, the model that of the write.
- Start-up, generated deep copies and manifests have no state of their own.

## 6. Left to do

What the cleanup still guarantees when errors it drops do occur (`SilentErrors`),
as theorems of their own; `spec.services` as a variable, once it is decided what an
edit of a running stack should do.
