----------------------------- MODULE PRStackAPI -----------------------------
(***************************************************************************)
(* The PRStack custom resource as the API server stores it, the informer   *)
(* cache of the operator, the copy a reconcile works on, and the two write *)
(* calls of the controller-runtime client: Status().Update (StatusUpdate)  *)
(* and Update (SpecUpdate).                                                *)
(*                                                                         *)
(* Resource versions are abstracted to one bit per copy: a copy is current *)
(* when nobody has written the object since the copy was taken, and a      *)
(* write from a copy that is not current is refused (conflict, not found). *)
(***************************************************************************)
EXTENDS Naturals, FiniteSets

CONSTANTS
  Services,         \* the services this stack deploys (spec.services)
  DefaultServices,  \* the services databases are provisioned for
  Passwords,        \* MongoDB passwords the generator may return
  MaxHours,         \* bound: values of the expiration clock
  MaxDeployedAt,    \* bound: different spec.deployedAt timestamps
  MaxEdits,         \* bound: user edits of spec.active
  MaxStacks,        \* bound: times the stack is created
  MaxFaults,        \* bound: failed calls and operator crashes
  BornActive,       \* values of spec.active a user may create a stack with
  BackupEnabled,    \* spec.backupConfig.enabled
  CacheLag,         \* TRUE: the cache of the PRStack may be behind the API server
  ListLag           \* TRUE: so may the cache a List of the deployments reads

ASSUME ServicesAssumption == Services # {} /\ IsFiniteSet(Services)
ASSUME PasswordsAssumption == Passwords \subseteq Nat \ {0}
ASSUME BoundsAssumption ==
  /\ MaxHours \in Nat \ {0}
  /\ {MaxDeployedAt, MaxEdits, MaxStacks, MaxFaults} \subseteq Nat
ASSUME FlagsAssumption ==
  BornActive \subseteq BOOLEAN /\ {BackupEnabled, CacheLag, ListLag} \subseteq BOOLEAN

VARIABLES
  stack,         \* the object in the API server
  cached,        \* the object in the operator's informer cache
  cacheCurrent,  \* whether cached is the latest version
  pc,            \* the call the worker makes next
  copy,          \* the object the running reconcile works on
  copyCurrent,   \* whether copy is the latest version
  todo,          \* names the running loop has not processed yet
  failed,        \* services the running handleDeployment failed to deploy
  password,      \* prPassword of the running provisionMongoDB, 0 if none
  now,           \* the clock, in units of StackExpirationTime
  edits,         \* user edits so far
  stacks,        \* stacks created so far
  faults         \* faults so far

apiVars    == <<stack, cached, cacheCurrent>>
workerVars == <<pc, copy, copyCurrent, todo, failed, password>>
budgetVars == <<now, edits, stacks, faults>>

Phases == {"", "Provisioning", "Deploying", "Running", "Inactive", "Failed",
           "Degraded", "Cleaning", "Cleaned"}

Nil == 0   \* a nil pointer among timestamps and credentials

Status ==
  [phase : Phases,
   createdAt : 0..MaxHours, lastActiveAt : 0..MaxHours,
   lastDeployedAt : 0..MaxDeployedAt,
   mongoDB : Passwords \union {Nil},   \* the password stands for the record
   nats : BOOLEAN, redis : BOOLEAN,    \* whether the pointer is set
   unhealthy : BOOLEAN,                \* some services[] entry is not Running
   ready : BOOLEAN, degraded : BOOLEAN] \* the conditions that are True

PRStack ==
  [exists : BOOLEAN, deleting : BOOLEAN, finalizer : BOOLEAN,
   active : BOOLEAN, deployedAt : 0..MaxDeployedAt, status : Status]

NoStatus ==
  [phase |-> "", createdAt |-> Nil, lastActiveAt |-> Nil,
   lastDeployedAt |-> Nil, mongoDB |-> Nil, nats |-> FALSE, redis |-> FALSE,
   unhealthy |-> FALSE, ready |-> FALSE, degraded |-> FALSE]

NoStack ==
  [exists |-> FALSE, deleting |-> FALSE, finalizer |-> FALSE,
   active |-> FALSE, deployedAt |-> Nil, status |-> NoStatus]

NewStack(active) == [NoStack EXCEPT !.exists = TRUE, !.active = active]

(***************************************************************************)
(* The worker's control.  Ending a reconcile drops everything it held.     *)
(***************************************************************************)
HoldNothing ==
  /\ copy' = NoStack
  /\ copyCurrent' = FALSE
  /\ todo' = {}
  /\ failed' = {}
  /\ password' = Nil

EndReconcile == pc' = "idle" /\ HoldNothing

Hold(next, c, current) ==
  IF next = "idle"
  THEN EndReconcile
  ELSE /\ pc' = next
       /\ copy' = c
       /\ copyCurrent' = current
       /\ todo' = {}
       /\ UNCHANGED <<failed, password>>

\* The next call, with the copy as it is.
Goto(next) == Hold(next, copy, copyCurrent)

\* A call to the API server or to MongoDB fails without an effect.
Fault == faults < MaxFaults /\ faults' = faults + 1

NoFault == faults' = faults

-----------------------------------------------------------------------------
(* The write calls. *)

\* The API server stores c; everyone else's copy is now old.  When c is what
\* it has, the write may be void, or change a message, which is not modelled.
Store(c) ==
  /\ stack' = c
  /\ cacheCurrent' \in {FALSE, cacheCurrent /\ c = stack}
  /\ UNCHANGED cached

\* Status().Update: only the status is taken from the worker's copy, and the
\* stored object is decoded back into it.  The handler has assigned status to
\* its copy before the call, so it keeps it when the call fails.
StatusUpdate(status, next, otherwise) ==
  \/ /\ copyCurrent
     /\ Store([stack EXCEPT !.status = status])
     /\ Hold(next, [stack EXCEPT !.status = status], TRUE)
     /\ NoFault
  \/ /\ copyCurrent
     /\ Fault
     /\ Hold(otherwise, [copy EXCEPT !.status = status], TRUE)
     /\ UNCHANGED apiVars
  \/ /\ ~copyCurrent
     /\ Hold(otherwise, [copy EXCEPT !.status = status], FALSE)
     /\ NoFault
     /\ UNCHANGED apiVars

\* spec.active is sent with omitempty, and the CRD defaults it to true: the
\* client cannot store false.
Defaulted(active) == IF active THEN active ELSE TRUE

\* What the API server stores for an Update that sends c.  An object that is
\* being deleted goes away with its last finalizer.
Stored(c) ==
  IF stack.deleting /\ ~c.finalizer
  THEN NoStack
  ELSE [stack EXCEPT !.finalizer = c.finalizer, !.active = Defaulted(c.active)]

\* Update: metadata and spec are taken from c, the status is not.
SpecUpdate(c, next, otherwise) ==
  \/ /\ copyCurrent
     /\ Store(Stored(c))
     /\ Hold(next, Stored(c), TRUE)
     /\ NoFault
  \/ /\ copyCurrent
     /\ Fault
     /\ Hold(otherwise, c, TRUE)
     /\ UNCHANGED apiVars
  \/ /\ ~copyCurrent
     /\ Hold(otherwise, c, FALSE)
     /\ NoFault
     /\ UNCHANGED apiVars

-----------------------------------------------------------------------------
(* The user and the API server.  A write of theirs makes every copy old. *)

UserStore(c) ==
  /\ stack' = c
  /\ cacheCurrent' = FALSE
  /\ copyCurrent' = FALSE
  /\ UNCHANGED <<cached, pc, copy, todo, failed, password, now, faults>>

SetActive(active) ==
  /\ stack.exists /\ stack.active # active
  /\ edits < MaxEdits
  /\ edits' = edits + 1
  /\ UserStore([stack EXCEPT !.active = active])
  /\ UNCHANGED stacks

SetDeployedAt ==
  /\ stack.exists /\ stack.deployedAt < MaxDeployedAt
  /\ UserStore([stack EXCEPT !.deployedAt = @ + 1])
  /\ UNCHANGED <<edits, stacks>>

DeleteStack ==
  /\ stack.exists /\ ~stack.deleting
  /\ UserStore(IF stack.finalizer THEN [stack EXCEPT !.deleting = TRUE]
                                  ELSE NoStack)
  /\ UNCHANGED <<edits, stacks>>

CreateStack(active) ==
  /\ ~stack.exists
  /\ stacks < MaxStacks
  /\ stacks' = stacks + 1
  /\ UserStore(NewStack(active))
  /\ UNCHANGED edits

\* The watch delivers the latest version.
SyncCache ==
  /\ ~cacheCurrent
  /\ cached' = stack
  /\ cacheCurrent' = TRUE
  /\ UNCHANGED stack
  /\ UNCHANGED <<workerVars, budgetVars>>

Tick ==
  /\ now < MaxHours
  /\ now' = now + 1
  /\ UNCHANGED <<apiVars, workerVars, edits, stacks, faults>>

=============================================================================
