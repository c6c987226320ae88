--------------------------- MODULE PRStackCleanup ---------------------------
(***************************************************************************)
(* Deletion: handleDeletion, handleCleaning and the cleanup functions.     *)
(* handleCleaning runs cleanupAllResources, whose MongoDB, NATS and Redis  *)
(* errors are only logged, and then the three cleanups again on their own, *)
(* whose errors are returned.                                              *)
(***************************************************************************)
EXTENDS PRStackReconciler

CONSTANT
  SilentErrors   \* TRUE: calls whose error the cleanup drops may fail

ASSUME CleanupAssumption == SilentErrors \in BOOLEAN

MarkCleaning ==
  /\ pc = "markCleaning"
  /\ StatusUpdate([copy.status EXCEPT !.phase = "Cleaning"], "idle", "idle")
  /\ UNCHANGED <<now, edits, stacks, clusterVars>>

-----------------------------------------------------------------------------
(* handleCleaning *)

\* The backup job of the namespace; its failure does not stop the cleanup.
CreateBackup ==
  /\ pc = "createBackup"
  /\ Goto("all.mongoDB")
  /\ IF BackupEnabled /\ copy.status.mongoDB # Nil
     THEN \/ backupJob' = "running" /\ namespace = "active" /\ NoFault
          \/ backupJob' = backupJob /\ namespace # "active" /\ NoFault
          \/ backupJob' = backupJob /\ Fault
     ELSE UNCHANGED backupJob /\ NoFault
  /\ UNCHANGED apiVars
  /\ UNCHANGED <<now, edits, stacks>>
  /\ UNCHANGED <<namespace, replicas, restartedAt, secretVars, claim, mongoVars>>

\* The name cleanupMongoDB forms keeps the suffix of the service name.
DroppedName(service) == [service |-> service, suffix |-> TRUE]

\* cleanupMongoDB.  Connect and ping fail; the errors of the drops are logged.
CleanupMongoDB(next, onError) ==
  /\ \/ /\ databases' = databases \ {DroppedName(s) : s \in DefaultServices}
        /\ mongoUser' = Nil
        /\ Goto(next)
        /\ NoFault
     \/ /\ SilentErrors
        /\ \E kept \in SUBSET DefaultServices :
             databases' = databases \ {DroppedName(s) : s \in DefaultServices \ kept}
        /\ mongoUser' \in {Nil, mongoUser}
        /\ Goto(next)
        /\ Fault
     \/ Goto(onError) /\ Fault /\ UNCHANGED mongoVars
  /\ UNCHANGED apiVars
  /\ UNCHANGED <<now, edits, stacks, k8sVars>>

Remove(d) ==
  /\ replicas' = [replicas EXCEPT ![d] = Absent]
  /\ restartedAt' = [restartedAt EXCEPT ![d] = Nil]

\* cleanupNATS and cleanupRedis delete the deployment, if it is found, and
\* then its service; a failed Delete ends them, a failed Get does not.
CleanupDeployment(d, next, onError) ==
  /\ \/ Remove(d) /\ Goto(next) /\ NoFault
     \/ /\ SilentErrors   \* the Get fails
        /\ Goto(next)
        /\ Fault
        /\ UNCHANGED <<replicas, restartedAt>>
     \/ /\ namespace # "absent"
        /\ Goto(onError)
        /\ Fault
        /\ Remove(d) \/ UNCHANGED <<replicas, restartedAt>>
  /\ UNCHANGED apiVars
  /\ UNCHANGED <<now, edits, stacks>>
  /\ UNCHANGED <<namespace, secretVars, backupVars, mongoVars>>

\* cleanupServices takes every error of its Get for an absent namespace.
CleanupServices(next, onError) ==
  /\ \/ /\ namespace' = IF namespace = "active" THEN "terminating" ELSE namespace
        /\ Goto(next)
        /\ NoFault
     \/ SilentErrors /\ Goto(next) /\ Fault /\ UNCHANGED namespace
     \/ /\ namespace # "absent"
        /\ Goto(onError)
        /\ Fault
        /\ UNCHANGED namespace
  /\ UNCHANGED apiVars
  /\ UNCHANGED <<now, edits, stacks>>
  /\ UNCHANGED <<replicas, restartedAt, secretVars, backupVars, mongoVars>>

\* cleanupAllResources.
CleanupAllMongoDB ==
  pc = "all.mongoDB" /\ CleanupMongoDB("all.nats", "all.nats")

CleanupAllNATS ==
  pc = "all.nats" /\ CleanupDeployment("nats", "all.redis", "all.redis")

CleanupAllRedis ==
  pc = "all.redis" /\ CleanupDeployment("redis", "all.services", "all.services")

CleanupAllServices ==
  /\ pc = "all.services"
  /\ CleanupServices("cleanupMongoDB", "updateStatusWithError")

\* The second round.
\* Mutated form of MongoDBCleanupFailed: the error is logged here as well.
MongoDBCleanupFailedLogged == "cleanupNATS"

MongoDBCleanupFailed == "updateStatusWithError"

CleanupMongoDBAgain ==
  /\ pc = "cleanupMongoDB"
  /\ CleanupMongoDB("cleanupNATS", MongoDBCleanupFailed)

CleanupNATS ==
  /\ pc = "cleanupNATS"
  /\ CleanupDeployment("nats", "cleanupRedis", "updateStatusWithError")

CleanupRedis ==
  /\ pc = "cleanupRedis"
  /\ CleanupDeployment("redis", "markCleaned", "updateStatusWithError")

MarkCleaned ==
  /\ pc = "markCleaned"
  /\ StatusUpdate([copy.status EXCEPT !.phase = "Cleaned"],
                  "removeFinalizer", "idle")
  /\ UNCHANGED <<now, edits, stacks, clusterVars>>

RemoveFinalizer ==
  /\ pc = "removeFinalizer"
  /\ SpecUpdate([copy EXCEPT !.finalizer = FALSE], "idle", "idle")
  /\ UNCHANGED <<now, edits, stacks, clusterVars>>

CleanupNext ==
  \/ MarkCleaning \/ CreateBackup
  \/ CleanupAllMongoDB \/ CleanupAllNATS \/ CleanupAllRedis \/ CleanupAllServices
  \/ CleanupMongoDBAgain \/ CleanupNATS \/ CleanupRedis
  \/ MarkCleaned \/ RemoveFinalizer

=============================================================================
