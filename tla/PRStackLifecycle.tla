-------------------------- MODULE PRStackLifecycle --------------------------
(***************************************************************************)
(* What the operator promises of a stack, without calls, copies or         *)
(* failures: the object and its phases, the namespace and the MongoDB      *)
(* account it holds, and the deployments that are up.  PRStackOperator     *)
(* implements it.                                                          *)
(***************************************************************************)
CONSTANT Deployments

VARIABLES
  object,     \* "absent", "present" or "leaving" (being deleted)
  guarded,    \* whether the object has the finalizer
  phase,      \* status.phase, "" when there is no object
  space,      \* whether the namespace is active
  account,    \* whether MongoDB has the user of the stack
  up          \* the deployments with a replica

vars == <<object, guarded, phase, space, account, up>>

Init ==
  /\ object = "present" /\ ~guarded /\ phase = ""
  /\ ~space /\ ~account /\ up = {}

\* The phases a stack that is not being deleted may go to.  Failed is left
\* for Inactive only, and Inactive for another start.
Successors ==
  [p \in {"", "Provisioning", "Deploying", "Running", "Degraded", "Inactive",
          "Failed"} |->
     {"Inactive", "Failed"} \union
     CASE p = ""             -> {"Provisioning"}
       [] p = "Provisioning" -> {"Deploying"}
       [] p = "Deploying"    -> {"Running", "Degraded"}
       [] p = "Inactive"     -> {""}
       [] OTHER              -> {}]

Create ==
  /\ object = "absent"
  /\ object' = "present"
  /\ UNCHANGED <<guarded, phase, space, account, up>>

\* The finalizer comes before everything else.
Guard ==
  /\ object = "present" /\ ~guarded
  /\ guarded' = TRUE
  /\ UNCHANGED <<object, phase, space, account, up>>

Delete ==
  /\ object = "present"
  /\ object' = IF guarded THEN "leaving" ELSE "absent"
  /\ UNCHANGED <<guarded, phase, space, account, up>>

\* A stack may only say it is parked when nothing of it is up.
Advance(p) ==
  /\ object = "present" /\ guarded
  /\ phase \in DOMAIN Successors /\ p \in Successors[phase]
  /\ p = "Inactive" => up = {}
  /\ phase' = p
  /\ UNCHANGED <<object, guarded, space, account, up>>

\* A stack that is being deleted is only ever cleaned, and may only say it is
\* when it holds nothing.
Leave(p) ==
  /\ object = "leaving"
  /\ \/ p \in {"Cleaning", "Failed"}
     \/ p = "Cleaned" /\ phase = "Cleaning" /\ ~space /\ ~account
  /\ phase' = p
  /\ UNCHANGED <<object, guarded, space, account, up>>

\* The name is free again when nothing is held under it.
Finish ==
  /\ object = "leaving" /\ phase = "Cleaned" /\ ~space /\ ~account
  /\ object' = "absent" /\ guarded' = FALSE /\ phase' = ""
  /\ UNCHANGED <<space, account, up>>

\* Nothing is held, and nothing is put up, without the finalizer.
TakeSpace ==
  /\ guarded
  /\ space' = TRUE
  /\ UNCHANGED <<object, guarded, phase, account, up>>

\* Provisioning replaces the account, cleanup takes it away.
TakeOrDropAccount ==
  /\ guarded
  /\ account' = ~account
  /\ UNCHANGED <<object, guarded, phase, space, up>>

\* A stack that is not being deleted keeps its namespace.
ReleaseSpace ==
  /\ object = "leaving"
  /\ space' = FALSE
  /\ UNCHANGED <<object, guarded, phase, account, up>>

\* A parked stack stays down.
Start(d) ==
  /\ guarded /\ phase # "Inactive"
  /\ up' = up \union {d}
  /\ UNCHANGED <<object, guarded, phase, space, account>>

Stop ==
  /\ up' \in SUBSET up
  /\ UNCHANGED <<object, guarded, phase, space, account>>

Next ==
  \/ Stop
  \/ \E d \in Deployments : Start(d)
  \/ Create \/ Guard \/ Delete \/ Finish
  \/ \E p \in DOMAIN Successors : Advance(p)
  \/ \E p \in {"Cleaning", "Failed", "Cleaned"} : Leave(p)
  \/ TakeSpace \/ TakeOrDropAccount \/ ReleaseSpace

Spec == Init /\ [][Next]_vars

=============================================================================
