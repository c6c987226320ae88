---------------------------- MODULE PRStackOwners ----------------------------
(***************************************************************************)
(* Two PRStacks with one spec.prNumber.  Nothing keeps the user from this:  *)
(* the number is no key, and namespace, MongoDB user and databases are      *)
(* named by it.  The single worker serves one stack at a time; each stack   *)
(* has its own object, cache entry and reconcile, and both have the cluster *)
(* of PRStackCluster between them.                                          *)
(***************************************************************************)
EXTENDS Naturals, FiniteSets

CONSTANTS
  Services, DefaultServices, MaxHours, MaxDeployedAt, MaxEdits, MaxStacks,
  MaxFaults, BornActive, BackupEnabled, CacheLag, ListLag, SilentErrors,
  PasswordsA, PasswordsB   \* what the generator may return for either stack

\* A password generated for one stack is never generated for the other.
ASSUME OwnersAssumption == PasswordsA \intersect PasswordsB = {}

VARIABLES
  \* the stack a, the worker's reconcile of it
  stackA, cachedA, cacheCurrentA,
  pcA, copyA, copyCurrentA, todoA, failedA, passwordA,
  \* the stack b
  stackB, cachedB, cacheCurrentB,
  pcB, copyB, copyCurrentB, todoB, failedB, passwordB,
  \* the budgets and the cluster, for both
  now, edits, stacks, faults,
  namespace, replicas, restartedAt, secret, secretURI, claim, backupJob,
  mongoUser, databases

varsA == <<stackA, cachedA, cacheCurrentA,
           pcA, copyA, copyCurrentA, todoA, failedA, passwordA>>
varsB == <<stackB, cachedB, cacheCurrentB,
           pcB, copyB, copyCurrentB, todoB, failedB, passwordB>>
shared == <<now, edits, stacks, faults, namespace, replicas, restartedAt,
            secret, secretURI, claim, backupJob, mongoUser, databases>>
vars == <<varsA, varsB, shared>>

A == INSTANCE PRStackOperator WITH
  Passwords <- PasswordsA,
  stack <- stackA, cached <- cachedA, cacheCurrent <- cacheCurrentA, pc <- pcA,
  copy <- copyA, copyCurrent <- copyCurrentA, todo <- todoA, failed <- failedA,
  password <- passwordA

B == INSTANCE PRStackOperator WITH
  Passwords <- PasswordsB,
  stack <- stackB, cached <- cachedB, cacheCurrent <- cacheCurrentB, pc <- pcB,
  copy <- copyB, copyCurrent <- copyCurrentB, todo <- todoB, failed <- failedB,
  password <- passwordB

Init == A!Init /\ B!Init

\* One worker: it takes up a stack only when it is done with the other.
WorkA == pcB = "idle" /\ A!Worker /\ UNCHANGED varsB

WorkB == pcA = "idle" /\ B!Worker /\ UNCHANGED varsA

UserA == A!User /\ UNCHANGED varsB

UserB == B!User /\ UNCHANGED varsA

\* Nothing outside the two objects tells them apart.
Cluster == A!Cluster /\ UNCHANGED varsB

WatchA == A!Watch /\ UNCHANGED varsB

WatchB == B!Watch /\ UNCHANGED varsA

\* The process dies in the reconcile of either; the new one reads both again.
CrashA ==
  /\ A!Crash
  /\ cachedB' = stackB /\ cacheCurrentB' = TRUE
  /\ UNCHANGED <<stackB, pcB, copyB, copyCurrentB, todoB, failedB, passwordB>>

CrashB ==
  /\ B!Crash
  /\ cachedA' = stackA /\ cacheCurrentA' = TRUE
  /\ UNCHANGED <<stackA, pcA, copyA, copyCurrentA, todoA, failedA, passwordA>>

\* The clock stands still: how a stack expires does not depend on another.
Next ==
  \/ WorkA \/ WorkB \/ UserA \/ UserB \/ CrashA \/ CrashB
  \/ Cluster \/ WatchA \/ WatchB

Spec == Init /\ [][Next]_vars

\* The queue of the worker is served in order: a stack that is ready again and
\* again, whenever the worker is done with the other, gets its turn.  This is
\* what a needs; of b it is enough that its reconciles end.
FairSpec == Spec /\ SF_vars(WorkA) /\ WF_vars(WorkB) /\ WF_vars(WatchA)

-----------------------------------------------------------------------------
Guarded(s) == s.exists /\ s.finalizer

\* The stacks take the namespace and the MongoDB user from each other, but the
\* last one that has its finalizer answers for what is left: nothing is held
\* when both are gone.
SomeoneAnswers ==
  namespace = "active" \/ mongoUser # A!Nil => Guarded(stackA) \/ Guarded(stackB)

\* Either can be deleted, whatever the other does to what they share: the two
\* are alike, so this is said of one.
EitherCanGo == stackA.deleting ~> ~stackA.deleting

=============================================================================
