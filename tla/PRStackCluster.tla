--------------------------- MODULE PRStackCluster ---------------------------
(***************************************************************************)
(* What a stack owns outside its own object: the namespace of the pull     *)
(* request with its deployments, mongodb-secret, backup claim and job,     *)
(* and the user and the databases in MongoDB.  The actions of this module  *)
(* are those of the cluster: the namespace controller and the backup job.  *)
(***************************************************************************)
EXTENDS PRStackAPI

VARIABLES
  namespace,    \* "absent", "active" or "terminating"
  replicas,     \* spec.replicas of each deployment, Absent if there is none
  restartedAt,  \* its restartedAt annotation, Nil if there is none
  secret,       \* the password in mongodb-secret, Nil if there is none
  secretURI,    \* whether mongodb-secret has the key uri and those like it
  claim,        \* whether mongodb-backup-pvc exists
  mongoUser,    \* the password MongoDB has for pishop_pr_<n>, Nil if no user
  databases,    \* databases that exist in MongoDB
  backupJob     \* the last backup job: "none", "running", "completed", "killed"

secretVars  == <<secret, secretURI>>
backupVars  == <<claim, backupJob>>
k8sVars     == <<namespace, replicas, restartedAt, secretVars, backupVars>>
mongoVars   == <<mongoUser, databases>>
clusterVars == <<k8sVars, mongoVars>>

Infra == {"nats", "redis"}
Deployments == Services \union Infra
Absent == 2   \* no such deployment; replicas are 0 or 1

Existing == {d \in Deployments : replicas[d] # Absent}

NoDeployments == [d \in Deployments |-> Absent]
NoAnnotations == [d \in Deployments |-> Nil]

\* pishop_<name>_pr_<n> for the name of a service with or without -service.
DatabaseNames == [service : DefaultServices, suffix : BOOLEAN]

\* Can an object be created in the namespace, or updated if it exists?
Accepts(exists) ==
  \/ namespace = "active"
  \/ namespace = "terminating" /\ exists

\* A password nobody has a copy of, the least one.
FreshPassword(p) ==
  LET held == {stack.status.mongoDB, cached.status.mongoDB,
               copy.status.mongoDB, secret, mongoUser, Nil}
  IN  /\ p \in Passwords \ held
      /\ \A q \in Passwords \ held : p <= q

-----------------------------------------------------------------------------
(* The namespace controller ends a deletion: the content goes with it. *)
PurgeNamespace ==
  /\ namespace = "terminating"
  /\ namespace' = "absent"
  /\ replicas' = NoDeployments
  /\ restartedAt' = NoAnnotations
  /\ secret' = Nil /\ secretURI' = FALSE
  /\ claim' = FALSE
  /\ backupJob' = IF backupJob = "running" THEN "killed" ELSE backupJob
  /\ UNCHANGED mongoVars
  /\ UNCHANGED <<apiVars, workerVars, budgetVars>>

\* The job mounts the claim and takes the address and the credentials of
\* mongodump from mongodb-secret.
CompleteBackup ==
  /\ backupJob = "running" /\ namespace # "absent"
  /\ claim /\ secretURI
  /\ secret # Nil /\ secret = mongoUser
  /\ backupJob' = "completed"
  /\ UNCHANGED <<namespace, replicas, restartedAt, secretVars, claim>>
  /\ UNCHANGED mongoVars
  /\ UNCHANGED <<apiVars, workerVars, budgetVars>>

=============================================================================
