------------------------ MODULE PRStackOwners_proofs ------------------------
(***************************************************************************)
(* Proof, for every value of the constants, that of two stacks with one    *)
(* number the last one that has its finalizer answers for what both hold.   *)
(* What a reconcile does to its stack is stated once, as moves of an owner *)
(* (a stack with its cache entry and its reconcile), and every step of     *)
(* either stack is one of them.                                            *)
(***************************************************************************)
EXTENDS PRStackOwners, TLAPS

-----------------------------------------------------------------------------
(* An owner *)

OwnerA ==
  [object |-> stackA, cached |-> cachedA, cacheCurrent |-> cacheCurrentA,
   pc |-> pcA, copy |-> copyA, copyCurrent |-> copyCurrentA]

OwnerB ==
  [object |-> stackB, cached |-> cachedB, cacheCurrent |-> cacheCurrentB,
   pc |-> pcB, copy |-> copyB, copyCurrent |-> copyCurrentB]

DeletionCalls == A!CleanupCalls \union {"markCleaning"}

\* Calls that only a version that is not being deleted, and has its
\* finalizer, leads to.
Serves(call) ==
  call \notin DeletionCalls \union {"idle", "addFinalizer", "updateStatusWithError"}

\* The second round of the cleanup, and what follows the MongoDB part of it.
LateCalls ==
  {"cleanupMongoDB", "cleanupNATS", "cleanupRedis", "markCleaned", "removeFinalizer"}

LastCalls == LateCalls \ {"cleanupMongoDB"}

\* A version with the fields the moves replace.
Shaped(c) ==
  /\ {"exists", "deleting", "finalizer", "active", "deployedAt", "status"} \subseteq DOMAIN c
  /\ "phase" \in DOMAIN c.status

Working(c) == c.exists /\ ~c.deleting /\ c.finalizer

\* The phases of the cleanup are only given to a stack that is being deleted.
Doomed(c) == c.status.phase \in {"Cleaning", "Cleaned"} => c.deleting

\* What the copy must be for the worker to make the call.
Entitled(call, c) ==
  /\ call \in DeletionCalls => c.exists /\ c.deleting
  /\ Serves(call) => Working(c)
  /\ call = "addFinalizer" => c.exists /\ ~c.deleting

\* The version c has the flags of the version s.
Alike(c, s) ==
  (c.exists <=> s.exists) /\ (c.deleting <=> s.deleting) /\ (c.finalizer <=> s.finalizer)

Blank(c) ==
  Shaped(c) /\ ~c.exists /\ ~c.deleting /\ ~c.finalizer /\ c.status.phase = ""

OwnerInv(m) ==
  /\ Shaped(m.object) /\ Shaped(m.cached) /\ Shaped(m.copy)
  /\ ~m.object.finalizer => ~m.object.deleting
  /\ Doomed(m.object) /\ Doomed(m.cached) /\ Doomed(m.copy)
  /\ Working(m.cached) => Guarded(m.object)
  /\ Working(m.copy) => Guarded(m.object)
  /\ m.cacheCurrent => m.cached = m.object
  /\ m.copyCurrent =>
       /\ Alike(m.copy, m.object)
       /\ m.cached.exists <=> m.object.exists
       /\ m.cached.deleting <=> m.object.deleting
  /\ Entitled(m.pc, m.copy)

-----------------------------------------------------------------------------
(* What may happen to an owner *)

\* The reconcile goes on with the call next and the version c, or ends.
Goes(n, next, c, current) ==
  IF next = "idle"
  THEN n.pc = "idle" /\ Blank(n.copy) /\ ~n.copyCurrent
  ELSE n.pc = next /\ n.copy = c /\ (n.copyCurrent => current)

\* The calls a call may lead to, when the copy is c.
Leads(call, next, c) ==
  \/ next \in {"idle", "updateStatusWithError"}
  \/ call \in DeletionCalls /\ next \in DeletionCalls
  \/ Serves(call) /\ Serves(next)
  \/ Serves(call) /\ next = "createBackup" /\ c.status.phase = "Cleaning"

Unwritten(m, n) ==
  n.object = m.object /\ n.cached = m.cached /\ n.cacheCurrent = m.cacheCurrent

Written(m, n, c) ==
  n.object = c /\ n.cached = m.cached /\ (n.cacheCurrent => m.cacheCurrent /\ c = m.object)

\* The object is read from the cache.
Fetches(m, n) ==
  /\ Unwritten(m, n)
  /\ \E next : Entitled(next, m.cached) /\ Goes(n, next, m.cached, m.cacheCurrent)

\* A call that does not write the object.
Calls(m, n) ==
  /\ Unwritten(m, n)
  /\ \E next : Leads(m.pc, next, m.copy) /\ Goes(n, next, m.copy, m.copyCurrent)

WithStatus(c, status) == [c EXCEPT !.status = status]

\* The status is written, or the write fails or is refused.
Reports(m, n) ==
  \E status, next, otherwise :
    /\ "phase" \in DOMAIN status
    /\ \/ status.phase \notin {"Cleaning", "Cleaned"}
       \/ status.phase = m.copy.status.phase
       \/ m.pc \in DeletionCalls
    /\ Leads(m.pc, next, m.copy) /\ Leads(m.pc, otherwise, m.copy)
    /\ \/ /\ m.copyCurrent
          /\ Written(m, n, WithStatus(m.object, status))
          /\ Goes(n, next, WithStatus(m.object, status), TRUE)
       \/ /\ Unwritten(m, n)
          /\ Goes(n, otherwise, WithStatus(m.copy, status), m.copyCurrent)

\* The finalizer is added, or kept in an Update.
Guards(m, n) ==
  \E finalizer, active, next :
    LET put == [m.object EXCEPT !.finalizer = finalizer, !.active = active]
    IN  /\ \/ m.pc = "addFinalizer" /\ finalizer
           \/ Serves(m.pc) /\ (finalizer <=> m.copy.finalizer)
        /\ next = "idle" \/ Serves(next)
        /\ \/ /\ m.copyCurrent
              /\ ~m.object.deleting => Written(m, n, put) /\ Goes(n, next, put, TRUE)
           \/ Unwritten(m, n) /\ Goes(n, "idle", m.copy, FALSE)

\* The finalizer is removed.
Leaves(m, n) ==
  /\ m.pc = "removeFinalizer"
  /\ Goes(n, "idle", m.copy, FALSE)
  /\ \/ Unwritten(m, n)
     \/ \E put : /\ m.copyCurrent /\ Written(m, n, put)
                 /\ m.object.deleting => Blank(put)

\* The user and the API server.
Edited(m, n) ==
  /\ n.cached = m.cached /\ n.pc = m.pc /\ n.copy = m.copy
  /\ ~n.cacheCurrent /\ ~n.copyCurrent
  /\ \/ /\ Shaped(n.object) /\ Alike(n.object, m.object)
        /\ n.object.status = m.object.status
     \/ /\ m.object.exists /\ m.object.finalizer
        /\ n.object = [m.object EXCEPT !.deleting = TRUE]
     \/ ~m.object.finalizer /\ Blank(n.object)
     \/ /\ ~m.object.exists
        /\ Shaped(n.object) /\ ~n.object.finalizer /\ ~n.object.deleting
        /\ n.object.status.phase = ""

\* The cache is brought up to date, by the watch or by a new process.
Synced(m, n) ==
  /\ n.object = m.object /\ n.cached = m.object
  /\ \/ n.pc = m.pc /\ n.copy = m.copy /\ n.copyCurrent = m.copyCurrent
     \/ Goes(n, "idle", m.copy, FALSE)

Moves(m, n) ==
  \/ Fetches(m, n) \/ Calls(m, n) \/ Reports(m, n) \/ Guards(m, n) \/ Leaves(m, n)
  \/ Edited(m, n) \/ Synced(m, n)

-----------------------------------------------------------------------------
(* The invariant of an owner is kept *)

\* A call leads to calls that the copy entitles to.
LEMMA LeadsEntitled ==
  ASSUME NEW c, NEW call, NEW next, Doomed(c), Entitled(call, c), Leads(call, next, c)
  PROVE  Entitled(next, c)
BY DEF Leads, Entitled, Serves, DeletionCalls, A!CleanupCalls, Working, Doomed

\* What the next copy is, when the call entitles to the next.
LEMMA GoesWell ==
  ASSUME NEW n, NEW next, NEW c, NEW current, Goes(n, next, c, current), NEW o,
         next # "idle" =>
           /\ Shaped(c) /\ Doomed(c) /\ Entitled(next, c)
           /\ Working(c) => Guarded(o)
           /\ current => Alike(c, o)
  PROVE  /\ Shaped(n.copy) /\ Doomed(n.copy) /\ Entitled(n.pc, n.copy)
         /\ Working(n.copy) => Guarded(o)
         /\ n.copyCurrent => Alike(n.copy, o) /\ current /\ next # "idle"
BY DEF Goes, Blank, Doomed, Entitled, Serves, DeletionCalls, A!CleanupCalls, Working

\* What a status write leaves of a version.
LEMMA WithStatusKeeps ==
  ASSUME NEW c, Shaped(c), NEW status, "phase" \in DOMAIN status
  PROVE  /\ Shaped(WithStatus(c, status)) /\ Alike(WithStatus(c, status), c)
         /\ WithStatus(c, status).status = status
BY DEF Shaped, WithStatus, Alike

\* Reading the object.
LEMMA FetchesKeeps == ASSUME NEW m, NEW n, OwnerInv(m), Fetches(m, n) PROVE OwnerInv(n)
<1>1. PICK next : Entitled(next, m.cached) /\ Goes(n, next, m.cached, m.cacheCurrent)
  BY DEF Fetches
<1>2. Unwritten(m, n)
  BY DEF Fetches
<1>3. m.cacheCurrent => Alike(m.cached, m.object)
  BY DEF OwnerInv, Alike
<1> QED
  BY <1>1, <1>2, <1>3, GoesWell DEF OwnerInv, Unwritten

\* A call that does not write it.
LEMMA CallsKeeps == ASSUME NEW m, NEW n, OwnerInv(m), Calls(m, n) PROVE OwnerInv(n)
<1>1. PICK next : Leads(m.pc, next, m.copy) /\ Goes(n, next, m.copy, m.copyCurrent)
  BY DEF Calls
<1>2. Entitled(next, m.copy)
  BY <1>1, LeadsEntitled DEF OwnerInv
<1> QED
  BY <1>1, <1>2, GoesWell DEF OwnerInv, Unwritten, Calls

\* A status write.
LEMMA ReportsKeeps == ASSUME NEW m, NEW n, OwnerInv(m), Reports(m, n) PROVE OwnerInv(n)
<1>1. PICK status, next, otherwise :
        /\ "phase" \in DOMAIN status
        /\ \/ status.phase \notin {"Cleaning", "Cleaned"}
           \/ status.phase = m.copy.status.phase
           \/ m.pc \in DeletionCalls
        /\ Leads(m.pc, next, m.copy) /\ Leads(m.pc, otherwise, m.copy)
        /\ \/ /\ m.copyCurrent
              /\ Written(m, n, WithStatus(m.object, status))
              /\ Goes(n, next, WithStatus(m.object, status), TRUE)
           \/ /\ Unwritten(m, n)
              /\ Goes(n, otherwise, WithStatus(m.copy, status), m.copyCurrent)
  BY DEF Reports
<1>2. /\ Entitled(next, m.copy) /\ Entitled(otherwise, m.copy)
      /\ Doomed(m.copy) /\ Entitled(m.pc, m.copy)
      /\ Shaped(m.object) /\ Shaped(m.copy)
  BY <1>1, LeadsEntitled DEF OwnerInv
<1>3. status.phase \in {"Cleaning", "Cleaned"} => m.copy.deleting
  BY <1>1, <1>2 DEF Doomed, Entitled
<1>4. ASSUME NEW c, Shaped(c), Alike(c, m.copy), NEW d, d = WithStatus(c, status)
      PROVE  /\ Shaped(d) /\ Alike(d, c) /\ Doomed(d)
             /\ Entitled(next, d) /\ Entitled(otherwise, d)
  <2>1. Shaped(d) /\ Alike(d, c) /\ d.status = status
    BY <1>1, <1>4, WithStatusKeeps
  <2> QED
    BY <2>1, <1>2, <1>3, <1>4 DEF Alike, Doomed, Entitled, Working
<1>5. CASE /\ m.copyCurrent
           /\ Written(m, n, WithStatus(m.object, status))
           /\ Goes(n, next, WithStatus(m.object, status), TRUE)
  <2> DEFINE put == WithStatus(m.object, status)
  <2>1. Alike(m.object, m.copy)
    BY <1>5 DEF OwnerInv, Alike
  <2>2. /\ Shaped(put) /\ Alike(put, m.object) /\ Doomed(put) /\ Entitled(next, put)
    BY <2>1, <1>2, <1>4
  <2> HIDE DEF put
  <2>3. Written(m, n, put) /\ Goes(n, next, put, TRUE)
    BY <1>5 DEF put
  <2>4. (Working(put) => Guarded(put)) /\ Alike(put, put)
    BY DEF Working, Guarded, Alike
  <2>5. /\ Shaped(n.copy) /\ Doomed(n.copy) /\ Entitled(n.pc, n.copy)
        /\ Working(n.copy) => Guarded(put)
        /\ n.copyCurrent => Alike(n.copy, put)
    BY <2>2, <2>3, <2>4, GoesWell
  <2> QED
    BY <2>2, <2>3, <2>5, <1>5 DEF OwnerInv, Written, Guarded, Alike
<1>6. CASE /\ Unwritten(m, n)
           /\ Goes(n, otherwise, WithStatus(m.copy, status), m.copyCurrent)
  <2> DEFINE new == WithStatus(m.copy, status)
  <2>1. Alike(m.copy, m.copy)
    BY DEF Alike
  <2>2. Shaped(new) /\ Alike(new, m.copy) /\ Doomed(new) /\ Entitled(otherwise, new)
    BY <2>1, <1>2, <1>4
  <2> HIDE DEF new
  <2>3. Unwritten(m, n) /\ Goes(n, otherwise, new, m.copyCurrent)
    BY <1>6 DEF new
  <2>4. /\ Working(new) => Guarded(m.object)
        /\ m.copyCurrent => Alike(new, m.object)
    BY <2>2 DEF OwnerInv, Working, Alike
  <2>5. /\ Shaped(n.copy) /\ Doomed(n.copy) /\ Entitled(n.pc, n.copy)
        /\ Working(n.copy) => Guarded(m.object)
        /\ n.copyCurrent => Alike(n.copy, m.object) /\ m.copyCurrent
    BY <2>2, <2>3, <2>4, GoesWell
  <2> QED
    BY <2>3, <2>5 DEF OwnerInv, Unwritten
<1> QED
  BY <1>1, <1>5, <1>6

\* An Update that keeps the finalizer or adds it.
LEMMA GuardsKeeps == ASSUME NEW m, NEW n, OwnerInv(m), Guards(m, n) PROVE OwnerInv(n)
<1> DEFINE Put(finalizer, active) ==
      [m.object EXCEPT !.finalizer = finalizer, !.active = active]
<1>1. PICK finalizer, active, next :
        /\ \/ m.pc = "addFinalizer" /\ finalizer
           \/ Serves(m.pc) /\ (finalizer <=> m.copy.finalizer)
        /\ next = "idle" \/ Serves(next)
        /\ \/ /\ m.copyCurrent
              /\ ~m.object.deleting =>
                   /\ Written(m, n, Put(finalizer, active))
                   /\ Goes(n, next, Put(finalizer, active), TRUE)
           \/ Unwritten(m, n) /\ Goes(n, "idle", m.copy, FALSE)
  BY DEF Guards
<1>2. m.copy.exists /\ ~m.copy.deleting /\ finalizer
  BY <1>1 DEF OwnerInv, Entitled, Working
<1>3. CASE m.copyCurrent /\ ~m.object.deleting
           /\ Written(m, n, Put(finalizer, active))
           /\ Goes(n, next, Put(finalizer, active), TRUE)
  <2> DEFINE put == Put(finalizer, active)
  <2>1. /\ m.object.exists /\ m.cached.exists /\ ~m.cached.deleting
        /\ Shaped(m.object) /\ Doomed(m.object)
    BY <1>2, <1>3 DEF OwnerInv, Alike
  <2>2. /\ Shaped(put) /\ put.exists /\ ~put.deleting /\ put.finalizer
        /\ put.status = m.object.status
    BY <2>1, <1>2, <1>3 DEF Shaped
  <2>a. Written(m, n, put) /\ Goes(n, next, put, TRUE)
    BY <1>3
  <2> HIDE DEF put, Put
  <2>3. Doomed(put) /\ Guarded(put) /\ Alike(put, put)
    BY <2>1, <2>2, <1>3 DEF Doomed, Guarded, Alike
  <2>4. next # "idle" => Entitled(next, put)
    BY <1>1, <2>2 DEF Entitled, Working, Serves
  <2>5. /\ Shaped(n.copy) /\ Doomed(n.copy) /\ Entitled(n.pc, n.copy)
        /\ n.copyCurrent => Alike(n.copy, put)
    BY <2>2, <2>3, <2>4, <2>a, GoesWell
  <2> QED
    BY <2>1, <2>2, <2>3, <2>5, <2>a DEF OwnerInv, Written
<1>4. CASE Unwritten(m, n) /\ Goes(n, "idle", m.copy, FALSE)
  BY <1>4, GoesWell DEF OwnerInv, Unwritten
<1>5. m.copyCurrent => ~m.object.deleting
  BY <1>2 DEF OwnerInv, Alike
<1> QED
  BY <1>1, <1>3, <1>4, <1>5

\* The removal of the finalizer.
LEMMA LeavesKeeps == ASSUME NEW m, NEW n, OwnerInv(m), Leaves(m, n) PROVE OwnerInv(n)
<1>1. m.copy.exists /\ m.copy.deleting
  BY DEF Leaves, OwnerInv, Entitled, DeletionCalls, A!CleanupCalls
<1>2. /\ Shaped(n.copy) /\ Doomed(n.copy) /\ Entitled(n.pc, n.copy)
      /\ ~Working(n.copy) /\ ~n.copyCurrent
  BY DEF Leaves, Goes, Blank, Doomed, Entitled, Serves, DeletionCalls,
         A!CleanupCalls, Working
<1>3. CASE Unwritten(m, n)
  BY <1>2, <1>3 DEF OwnerInv, Unwritten
<1>4. ASSUME NEW put, m.copyCurrent, Written(m, n, put), m.object.deleting => Blank(put)
      PROVE  OwnerInv(n)
  <2>1. m.object.exists /\ m.object.deleting /\ m.cached.deleting
    BY <1>1, <1>4 DEF OwnerInv, Alike
  <2>2. Blank(put)
    BY <2>1, <1>4
  <2> QED
    BY <2>1, <2>2, <1>2, <1>4 DEF OwnerInv, Written, Blank, Doomed, Working
<1> QED
  BY <1>3, <1>4 DEF Leaves

\* The user and the API server.
LEMMA EditedKeeps == ASSUME NEW m, NEW n, OwnerInv(m), Edited(m, n) PROVE OwnerInv(n)
<1>1. /\ Shaped(n.object) /\ Doomed(n.object)
      /\ ~n.object.finalizer => ~n.object.deleting
      /\ Guarded(m.object) => Guarded(n.object)
  <2>1. CASE /\ Shaped(n.object) /\ Alike(n.object, m.object)
             /\ n.object.status = m.object.status
    BY <2>1 DEF OwnerInv, Alike, Doomed, Guarded
  <2>2. CASE /\ m.object.exists /\ m.object.finalizer
             /\ n.object = [m.object EXCEPT !.deleting = TRUE]
    BY <2>2 DEF OwnerInv, Shaped, Doomed, Guarded
  <2>3. CASE ~m.object.finalizer /\ Blank(n.object)
    BY <2>3 DEF Blank, Doomed, Guarded
  <2>4. CASE /\ ~m.object.exists
             /\ Shaped(n.object) /\ ~n.object.finalizer /\ ~n.object.deleting
             /\ n.object.status.phase = ""
    BY <2>4 DEF Doomed, Guarded
  <2> QED
    BY <2>1, <2>2, <2>3, <2>4 DEF Edited
<1> QED
  BY <1>1 DEF Edited, OwnerInv

\* The cache.
LEMMA SyncedKeeps == ASSUME NEW m, NEW n, OwnerInv(m), Synced(m, n) PROVE OwnerInv(n)
<1>1. Working(m.object) => Guarded(m.object)
  BY DEF Working, Guarded
<1>2. CASE n.pc = m.pc /\ n.copy = m.copy /\ n.copyCurrent = m.copyCurrent
  BY <1>1, <1>2 DEF Synced, OwnerInv
<1>3. CASE Goes(n, "idle", m.copy, FALSE)
  BY <1>1, <1>3, GoesWell DEF Synced, OwnerInv
<1> QED
  BY <1>2, <1>3 DEF Synced

\* Whatever happens to an owner keeps it, and its object keeps the finalizer
\* but for the last call of the cleanup.
LEMMA MovesKeep ==
  ASSUME NEW m, NEW n, OwnerInv(m), Moves(m, n)
  PROVE  OwnerInv(n) /\ (Guarded(m.object) => Guarded(n.object) \/ m.pc \in LastCalls)
<1>1. OwnerInv(n)
  BY FetchesKeeps, CallsKeeps, ReportsKeeps, GuardsKeeps, LeavesKeeps, EditedKeeps,
     SyncedKeeps DEF Moves
<1>2. ASSUME Guarded(m.object), m.pc \notin LastCalls PROVE Guarded(n.object)
  <2>1. CASE Fetches(m, n) \/ Calls(m, n) \/ Synced(m, n)
    BY <1>2, <2>1 DEF Fetches, Calls, Synced, Unwritten
  <2>2. CASE Reports(m, n)
    <3>1. \/ n.object = m.object
          \/ \E status : "phase" \in DOMAIN status /\ n.object = WithStatus(m.object, status)
      BY <2>2 DEF Reports, Written, Unwritten
    <3>2. Shaped(m.object)
      BY DEF OwnerInv
    <3> QED
      BY <1>2, <3>1, <3>2, WithStatusKeeps DEF Guarded, Alike
  <2>3. CASE Guards(m, n)
    <3>1. m.copyCurrent => ~m.object.deleting
      BY <2>3 DEF Guards, OwnerInv, Entitled, Working, Alike
    <3>2. Serves(m.pc) => m.copy.finalizer
      BY DEF OwnerInv, Entitled, Working
    <3> QED
      BY <1>2, <2>3, <3>1, <3>2 DEF Guards, Written, Unwritten, OwnerInv, Guarded, Shaped
  <2>4. CASE Leaves(m, n)
    BY <1>2, <2>4 DEF Leaves, LastCalls, LateCalls
  <2>5. CASE Edited(m, n)
    BY <1>2, <2>5 DEF Edited, Guarded, Alike, OwnerInv, Shaped
  <2> QED
    BY <2>1, <2>2, <2>3, <2>4, <2>5 DEF Moves
<1> QED
  BY <1>1, <1>2

\* What the step of a worker does to what is held.
Effect(call, next) ==
  \/ Serves(call) /\ next \notin LateCalls
  \/ /\ namespace' = "active" => namespace = "active"
     /\ mongoUser' # A!Nil => mongoUser # A!Nil
     /\ next \in LateCalls => call \in LateCalls \/ namespace' # "active"
     /\ next \in LastCalls => call \in LastCalls \/ mongoUser' = A!Nil

-----------------------------------------------------------------------------
(* Calls *)

\* The calls that serve the stack, and those that do not.
LEMMA CallNames ==
  /\ \A call \in {"setCreatedAt", "checkReactivation", "checkExpiration",
                  "listForScaleDown", "scaleDown", "checkReplicas", "scaleUp",
                  "checkHealth", "listForRollout", "rollout", "recordRolloutError",
                  "reactivate", "initialize", "createNamespace", "dropUser",
                  "createUser", "createCollections", "saveCredentials",
                  "createMongoDBSecret", "finishProvisioning",
                  "createRegistrySecret", "createMongoDBResources",
                  "createNATSResources", "createRedisResources",
                  "ensureBackupStorage", "createServices"} : Serves(call)
  /\ LateCalls \subseteq DeletionCalls /\ LastCalls \subseteq LateCalls
  /\ DeletionCalls \intersect {"idle", "addFinalizer", "updateStatusWithError"} = {}
BY DEF Serves, DeletionCalls, A!CleanupCalls, LateCalls, LastCalls

\* A call that serves the stack may lead to any other, and to the end.
LEMMA ServesOn ==
  ASSUME NEW call, Serves(call), NEW c, NEW next,
         Serves(next) \/ next \in {"idle", "updateStatusWithError"}
  PROVE  Leads(call, next, c) /\ next \notin LateCalls
BY CallNames DEF Leads, Serves

-----------------------------------------------------------------------------
(* Every step of the stack a is a move of its owner *)

\* What OwnerA stands for.
LEMMA OwnerAFacts ==
  /\ OwnerA.object = stackA /\ OwnerA.cached = cachedA /\ OwnerA.pc = pcA
  /\ OwnerA.copy = copyA
  /\ OwnerA.cacheCurrent = cacheCurrentA /\ OwnerA.copyCurrent = copyCurrentA
  /\ OwnerA'.object = stackA' /\ OwnerA'.cached = cachedA' /\ OwnerA'.pc = pcA'
  /\ OwnerA'.copy = copyA'
  /\ OwnerA'.cacheCurrent = cacheCurrentA' /\ OwnerA'.copyCurrent = copyCurrentA'
BY DEF OwnerA

\* The worker takes hold of a call and of a version.
LEMMA HoldA ==
  ASSUME NEW next, NEW c, NEW current, A!Hold(next, c, current)
  PROVE  Goes(OwnerA', next, c, current) /\ pcA' = next
<1>1. Blank(A!NoStack)
  BY DEF Blank, Shaped, A!NoStack, A!NoStatus
<1> QED
  BY <1>1, OwnerAFacts DEF Goes, A!Hold, A!EndReconcile, A!HoldNothing

\* A call that does not write the object.
LEMMA CallA ==
  ASSUME UNCHANGED A!apiVars, NEW next, Leads(pcA, next, copyA),
         \/ A!Goto(next)
         \/ pcA' = next /\ next # "idle" /\ UNCHANGED <<copyA, copyCurrentA>>
  PROVE  Moves(OwnerA, OwnerA')
<1>1. Goes(OwnerA', next, copyA, copyCurrentA)
  BY HoldA, OwnerAFacts DEF A!Goto, Goes
<1>2. Unwritten(OwnerA, OwnerA')
  BY OwnerAFacts DEF Unwritten, A!apiVars
<1>3. Calls(OwnerA, OwnerA')
  BY <1>1, <1>2, OwnerAFacts DEF Calls
<1> QED
  BY <1>3 DEF Moves

\* A write of the status.
LEMMA StatusUpdateA ==
  ASSUME NEW status, NEW next, NEW otherwise, A!StatusUpdate(status, next, otherwise),
         "phase" \in DOMAIN status,
         \/ status.phase \notin {"Cleaning", "Cleaned"}
         \/ status.phase = copyA.status.phase
         \/ pcA \in DeletionCalls,
         Leads(pcA, next, copyA), Leads(pcA, otherwise, copyA)
  PROVE  Moves(OwnerA, OwnerA') /\ pcA' \in {next, otherwise}
<1> DEFINE put == WithStatus(stackA, status)
           new == WithStatus(copyA, status)
<1>1. CASE copyCurrentA /\ A!Store(put) /\ A!Hold(next, put, TRUE)
  <2>1. Written(OwnerA, OwnerA', put)
    BY <1>1, OwnerAFacts DEF Written, A!Store
  <2>2. Goes(OwnerA', next, put, TRUE) /\ pcA' = next
    BY <1>1, HoldA
  <2>3. Reports(OwnerA, OwnerA')
    BY <2>1, <2>2, <1>1, OwnerAFacts DEF Reports
  <2> QED
    BY <2>2, <2>3 DEF Moves
<1>2. CASE /\ UNCHANGED A!apiVars
           /\ \E current \in BOOLEAN :
                (current => copyCurrentA) /\ A!Hold(otherwise, new, current)
  <2>1. Unwritten(OwnerA, OwnerA')
    BY <1>2, OwnerAFacts DEF Unwritten, A!apiVars
  <2>2. Goes(OwnerA', otherwise, new, copyCurrentA) /\ pcA' = otherwise
    BY <1>2, HoldA DEF Goes
  <2>3. Reports(OwnerA, OwnerA')
    BY <2>1, <2>2, OwnerAFacts DEF Reports
  <2> QED
    BY <2>2, <2>3 DEF Moves
<1> QED
  BY <1>1, <1>2 DEF A!StatusUpdate, WithStatus

\* An Update that keeps the finalizer or adds it.
LEMMA SpecUpdateA ==
  ASSUME NEW c, NEW next, A!SpecUpdate(c, next, "idle"), next = "idle" \/ Serves(next),
         \/ pcA = "addFinalizer" /\ c.finalizer
         \/ Serves(pcA) /\ (c.finalizer <=> copyA.finalizer)
  PROVE  Moves(OwnerA, OwnerA') /\ pcA' \in {next, "idle"}
<1> DEFINE put == [stackA EXCEPT !.finalizer = c.finalizer, !.active = A!Defaulted(c.active)]
<1>1. CASE copyCurrentA /\ A!Store(A!Stored(c)) /\ A!Hold(next, A!Stored(c), TRUE)
  <2>1. ~stackA.deleting => A!Stored(c) = put
    BY DEF A!Stored
  <2>2. Written(OwnerA, OwnerA', A!Stored(c))
    BY <1>1, OwnerAFacts DEF Written, A!Store
  <2>3. Goes(OwnerA', next, A!Stored(c), TRUE) /\ pcA' = next
    BY <1>1, HoldA
  <2> HIDE DEF put
  <2>4. Guards(OwnerA, OwnerA')
    <3> DEFINE Put(finalizer, active) ==
          [OwnerA.object EXCEPT !.finalizer = finalizer, !.active = active]
    <3>1. put = Put(c.finalizer, A!Defaulted(c.active))
      BY OwnerAFacts DEF put
    <3> HIDE DEF Put
    <3>2. \E finalizer, active :
            /\ finalizer <=> c.finalizer
            /\ ~stackA.deleting =>
                 /\ Written(OwnerA, OwnerA', Put(finalizer, active))
                 /\ Goes(OwnerA', next, Put(finalizer, active), TRUE)
      BY <2>1, <2>2, <2>3, <3>1
    <3> QED
      BY <3>2, <1>1, OwnerAFacts DEF Guards, Put
  <2> QED
    BY <2>3, <2>4 DEF Moves
<1>2. CASE UNCHANGED A!apiVars /\ \E current \in BOOLEAN : A!Hold("idle", c, current)
  <2>1. Unwritten(OwnerA, OwnerA')
    BY <1>2, OwnerAFacts DEF Unwritten, A!apiVars
  <2>2. Goes(OwnerA', "idle", copyA, FALSE) /\ pcA' = "idle"
    BY <1>2, HoldA DEF Goes
  <2>3. Guards(OwnerA, OwnerA')
    BY <2>1, <2>2, OwnerAFacts DEF Guards
  <2> QED
    BY <2>2, <2>3 DEF Moves
<1> QED
  BY <1>1, <1>2 DEF A!SpecUpdate

\* The switches lead to calls that serve the stack, and to the cleanup of one
\* that is in Cleaning.
LEMMA DispatchA ==
  ASSUME NEW c, NEW call, Serves(call)
  PROVE  /\ Leads(call, A!Dispatch(c), c) /\ A!Dispatch(c) \notin LateCalls
         /\ Leads(call, A!PhaseHandler(c.status.phase), c)
         /\ A!PhaseHandler(c.status.phase) \notin LateCalls
BY DEF Leads, Serves, DeletionCalls, LateCalls, A!CleanupCalls, A!Dispatch, A!PhaseHandler

\* A status write of a stack that is served, or of the report of an error.
LEMMA QuietReportA ==
  ASSUME NEW status, NEW next, A!StatusUpdate(status, next, "idle"),
         Serves(pcA) \/ pcA = "updateStatusWithError",
         next = "idle" \/ Leads(pcA, next, copyA), next \notin LateCalls,
         UNCHANGED A!clusterVars, "phase" \in DOMAIN status,
         \/ status.phase \notin {"Cleaning", "Cleaned"}
         \/ status.phase = copyA.status.phase
  PROVE  Moves(OwnerA, OwnerA') /\ Effect(pcA, pcA')
<1>1. Leads(pcA, next, copyA) /\ Leads(pcA, "idle", copyA)
  BY DEF Leads
<1>2. Moves(OwnerA, OwnerA') /\ pcA' \in {next, "idle"}
  BY <1>1, StatusUpdateA
<1>3. UNCHANGED <<namespace, mongoUser>>
  BY DEF A!clusterVars, A!k8sVars, A!mongoVars
<1> QED
  BY <1>2, <1>3, CallNames DEF Effect

\* A call that neither writes the object nor touches what is held.
LEMMA QuietCallA ==
  ASSUME NEW next, UNCHANGED A!apiVars, Leads(pcA, next, copyA),
         \/ A!Goto(next)
         \/ pcA' = next /\ next # "idle" /\ UNCHANGED <<copyA, copyCurrentA>>,
         UNCHANGED <<namespace, mongoUser>>, next \notin LateCalls
  PROVE  Moves(OwnerA, OwnerA') /\ Effect(pcA, pcA')
BY CallNames, CallA, HoldA DEF Effect, A!Goto

\* Reconcile.
LEMMA ReconcileA ==
  ASSUME OwnerInv(OwnerA), A!ReconcileNext
  PROVE  Moves(OwnerA, OwnerA') /\ Effect(pcA, pcA')
<1>a. "phase" \in DOMAIN copyA.status /\ Shaped(copyA)
  BY OwnerAFacts DEF OwnerInv, Shaped
<1>b. UNCHANGED A!clusterVars => UNCHANGED <<namespace, mongoUser>>
  BY DEF A!clusterVars, A!k8sVars, A!mongoVars
<1>1. CASE A!FetchPRStack
  <2>1. Entitled(A!AfterGet(cachedA), cachedA)
    BY DEF Entitled, A!AfterGet, A!DeletionHandler, Serves, DeletionCalls,
           A!CleanupCalls, Working
  <2>2. A!AfterGet(cachedA) \notin LateCalls
    BY DEF A!AfterGet, A!DeletionHandler, LateCalls
  <2>3. /\ Goes(OwnerA', A!AfterGet(cachedA), cachedA, cacheCurrentA)
        /\ pcA' = A!AfterGet(cachedA)
    BY <1>1, HoldA DEF A!FetchPRStack
  <2>4. Fetches(OwnerA, OwnerA')
    BY <2>1, <2>3, <1>1, OwnerAFacts DEF Fetches, Unwritten, A!FetchPRStack, A!apiVars
  <2> QED
    BY <2>2, <2>3, <2>4, <1>1, <1>b, CallNames DEF Moves, Effect, A!FetchPRStack
<1>2. CASE A!AddFinalizer
  <2>1. [copyA EXCEPT !.finalizer = TRUE].finalizer
    BY <1>a DEF Shaped
  <2>2. Moves(OwnerA, OwnerA') /\ pcA' \in {"setCreatedAt", "checkReactivation", "idle"}
    BY <2>1, <1>2, CallNames, SpecUpdateA DEF A!AddFinalizer
  <2> QED
    BY <2>2, <1>2, <1>b, CallNames DEF Effect, A!AddFinalizer, LateCalls
<1>3. CASE A!SetCreatedAt
  <2> DEFINE status == [copyA.status EXCEPT !.createdAt = A!Timestamp,
                                            !.lastActiveAt = A!Timestamp]
  <2>1. "phase" \in DOMAIN status /\ status.phase = copyA.status.phase
    BY <1>a
  <2> HIDE DEF status
  <2>2. A!StatusUpdate(status, "checkReactivation", "idle") /\ Serves(pcA)
    BY <1>3, CallNames DEF A!SetCreatedAt, status
  <2> QED
    BY <2>1, <2>2, <1>3, CallNames, QuietReportA, ServesOn DEF A!SetCreatedAt
<1>4. CASE A!CheckReactivation
  <2> DEFINE status == [copyA.status EXCEPT !.lastActiveAt = A!Timestamp]
  <2>1. "phase" \in DOMAIN status /\ status.phase = copyA.status.phase
    BY <1>a
  <2> HIDE DEF status
  <2>2. Serves(pcA) /\ UNCHANGED A!clusterVars
    BY <1>4, CallNames DEF A!CheckReactivation
  <2>3. CASE A!StatusUpdate(status, A!Dispatch(copyA), "idle")
    BY <2>1, <2>2, <2>3, QuietReportA, DispatchA
  <2>4. CASE A!Goto("checkExpiration") /\ UNCHANGED A!apiVars
    BY <2>2, <2>4, <1>b, CallNames, QuietCallA, ServesOn
  <2> QED
    BY <2>3, <2>4, <1>4 DEF A!CheckReactivation, status
<1>5. CASE A!CheckExpiration
  <2>1. [copyA EXCEPT !.active = FALSE].finalizer = copyA.finalizer
    BY <1>a DEF Shaped
  <2>2. Serves(pcA) /\ UNCHANGED <<namespace, mongoUser>>
    BY <1>5, <1>b, CallNames DEF A!CheckExpiration
  <2>3. CASE A!SpecUpdate([copyA EXCEPT !.active = FALSE], "idle", "idle")
    <3>1. Moves(OwnerA, OwnerA') /\ pcA' = "idle"
      BY <2>1, <2>2, <2>3, SpecUpdateA
    <3> QED
      BY <3>1, <2>2, CallNames DEF Effect
  <2>4. CASE A!Goto(A!Dispatch(copyA)) /\ UNCHANGED A!apiVars
    BY <2>2, <2>4, QuietCallA, DispatchA
  <2> QED
    BY <2>3, <2>4, <1>5 DEF A!CheckExpiration
<1>6. CASE \/ A!ListForScaleDown \/ A!ScaleDown \/ A!CheckReplicas \/ A!ScaleUp
           \/ A!ListForRollout \/ A!RolloutDeployment
  <2>1. /\ Serves(pcA) /\ UNCHANGED A!apiVars /\ UNCHANGED <<namespace, mongoUser>>
        /\ \E next \in {"scaleDown", "checkHealth", "scaleUp", "rollout",
                        "recordRolloutError", "updateStatusWithError"} :
             \/ A!Goto(next)
             \/ pcA' = next /\ UNCHANGED <<copyA, copyCurrentA>>
    BY <1>6, <1>b, CallNames
       DEF A!ListForScaleDown, A!ScaleDown, A!ScaleDownFails, A!CheckReplicas,
           A!ScaleUp, A!ListForRollout, A!RolloutDeployment, A!RolloutFails,
           A!ItemFails, A!CallFails, A!StartLoop, A!LoopOn, A!mongoVars, A!apiVars
  <2> QED
    BY <2>1, CallNames, QuietCallA, ServesOn
<1>7. CASE A!MarkInactive
  <2> DEFINE status == [copyA.status EXCEPT !.phase = "Inactive"]
  <2>1. "phase" \in DOMAIN status /\ status.phase = "Inactive"
    BY <1>a
  <2> HIDE DEF status
  <2>2. A!StatusUpdate(status, "idle", "idle") /\ Serves(pcA)
    BY <1>7, CallNames DEF A!MarkInactive, status
  <2> QED
    BY <2>1, <2>2, <1>7, CallNames, QuietReportA DEF A!MarkInactive
<1>8. CASE A!CheckHealth
  <2>1. Serves(pcA) /\ UNCHANGED A!clusterVars
    BY <1>8, CallNames DEF A!CheckHealth
  <2>2. CASE A!StatusUpdate(copyA.status, "idle", "idle")
    BY <2>1, <2>2, <1>a, CallNames, QuietReportA
  <2>3. CASE A!EndReconcile /\ UNCHANGED A!apiVars
    BY <2>1, <2>3, <1>b, CallNames, QuietCallA, ServesOn DEF A!Goto, A!Hold
  <2> QED
    BY <2>2, <2>3, <1>8 DEF A!CheckHealth
<1>9. CASE A!RecordRollout
  <2> DEFINE status == A!RolledOut(copyA)
  <2>1. "phase" \in DOMAIN status /\ status.phase = copyA.status.phase
    BY <1>a DEF A!RolledOut
  <2> HIDE DEF status
  <2>2. A!StatusUpdate(status, A!PhaseHandler(copyA.status.phase), "idle") /\ Serves(pcA)
    BY <1>9, CallNames DEF A!RecordRollout, status
  <2> QED
    BY <2>1, <2>2, <1>9, QuietReportA, DispatchA DEF A!RecordRollout
<1>10. CASE A!RecordRolloutError
  <2>1. A!StatusUpdate(copyA.status, "idle", "idle") /\ Serves(pcA)
    BY <1>10, CallNames DEF A!RecordRolloutError
  <2> QED
    BY <2>1, <1>10, <1>a, CallNames, QuietReportA DEF A!RecordRolloutError
<1>11. CASE A!UpdateStatusWithError
  <2> DEFINE status == A!FailedStatus(copyA.status)
  <2>1. "phase" \in DOMAIN status /\ status.phase = "Failed"
    BY <1>a DEF A!FailedStatus
  <2> HIDE DEF status
  <2>2. A!StatusUpdate(status, "idle", "idle") /\ pcA = "updateStatusWithError"
    BY <1>11 DEF A!UpdateStatusWithError, status
  <2> QED
    BY <2>1, <2>2, <1>11, CallNames, QuietReportA DEF A!UpdateStatusWithError
<1> QED
  BY <1>1, <1>2, <1>3, <1>4, <1>5, <1>6, <1>7, <1>8, <1>9, <1>10, <1>11
     DEF A!ReconcileNext

\* handleInitialization and handleProvisioning.
LEMMA ProvisionA ==
  ASSUME OwnerInv(OwnerA), A!ProvisionNext
  PROVE  Moves(OwnerA, OwnerA') /\ Effect(pcA, pcA')
<1>a. "phase" \in DOMAIN copyA.status
  BY OwnerAFacts DEF OwnerInv, Shaped
<1>1. CASE A!Reactivate
  <2> DEFINE status == [copyA.status EXCEPT !.phase = ""]
  <2>1. "phase" \in DOMAIN status /\ status.phase = ""
    BY <1>a
  <2> HIDE DEF status
  <2>2. A!StatusUpdate(status, "initialize", "idle") /\ Serves(pcA)
    BY <1>1, CallNames DEF A!Reactivate, status
  <2> QED
    BY <2>1, <2>2, <1>1, CallNames, ServesOn, QuietReportA DEF A!Reactivate
<1>2. CASE A!HandleInitialization
  <2> DEFINE status == [copyA.status EXCEPT !.phase = "Provisioning"]
  <2>1. "phase" \in DOMAIN status /\ status.phase = "Provisioning"
    BY <1>a
  <2> HIDE DEF status
  <2>2. A!StatusUpdate(status, "idle", "idle") /\ Serves(pcA)
    BY <1>2, CallNames DEF A!HandleInitialization, status
  <2> QED
    BY <2>1, <2>2, <1>2, CallNames, QuietReportA DEF A!HandleInitialization
<1>3. CASE \/ A!CreateNamespace \/ A!DropUser \/ A!CreateUser
           \/ A!CreateCollections \/ A!CreateMongoDBSecret
  <2>1. /\ Serves(pcA) /\ UNCHANGED A!apiVars
        /\ \E next \in {"dropUser", "createUser", "createCollections", "saveCredentials",
                        "finishProvisioning", "updateStatusWithError"} :
             \/ A!Goto(next)
             \/ pcA' = next /\ UNCHANGED <<copyA, copyCurrentA>>
    BY <1>3, CallNames
       DEF A!CreateNamespace, A!DropUser, A!CreateUser, A!CreateCollections,
           A!CreateMongoDBSecret, A!WriteSecret, A!CallFails
  <2>2. PICK next \in {"dropUser", "createUser", "createCollections", "saveCredentials",
                       "finishProvisioning", "updateStatusWithError"} :
          \/ A!Goto(next)
          \/ pcA' = next /\ UNCHANGED <<copyA, copyCurrentA>>
    BY <2>1
  <2>3. Leads(pcA, next, copyA) /\ next \notin LateCalls
    BY <2>1, <2>2, CallNames, ServesOn
  <2>4. pcA' = next
    BY <2>2, HoldA DEF A!Goto
  <2> QED
    BY <2>1, <2>2, <2>3, <2>4, CallA DEF Effect
<1>4. CASE A!SaveCredentials
  <2> DEFINE status == A!WithCredentials(copyA.status)
  <2>1. "phase" \in DOMAIN status /\ status.phase = copyA.status.phase
    BY <1>a DEF A!WithCredentials
  <2> HIDE DEF status
  <2>2. /\ A!StatusUpdate(status, "createMongoDBSecret", "updateStatusWithError")
        /\ Serves(pcA)
    BY <1>4, CallNames DEF A!SaveCredentials, status
  <2>3. \A next \in {"createMongoDBSecret", "updateStatusWithError"} :
          Leads(pcA, next, copyA) /\ next \notin LateCalls
    BY <2>2, CallNames, ServesOn
  <2>4. /\ Moves(OwnerA, OwnerA')
        /\ pcA' \in {"createMongoDBSecret", "updateStatusWithError"}
    BY <2>1, <2>2, <2>3, StatusUpdateA
  <2> QED
    BY <2>2, <2>3, <2>4 DEF Effect
<1>5. CASE A!FinishProvisioning
  <2> DEFINE status == A!Provisioned(copyA.status)
  <2>1. "phase" \in DOMAIN status /\ status.phase = "Deploying"
    BY <1>a DEF A!Provisioned
  <2> HIDE DEF status
  <2>2. A!StatusUpdate(status, "idle", "idle") /\ Serves(pcA)
    BY <1>5, CallNames DEF A!FinishProvisioning, status
  <2> QED
    BY <2>1, <2>2, <1>5, CallNames, QuietReportA DEF A!FinishProvisioning
<1> QED
  BY <1>1, <1>2, <1>3, <1>4, <1>5 DEF A!ProvisionNext

\* handleDeployment.
LEMMA DeployA ==
  ASSUME OwnerInv(OwnerA), A!DeployNext
  PROVE  Moves(OwnerA, OwnerA') /\ Effect(pcA, pcA')
<1>1. CASE A!FinishDeployment
  <2> DEFINE status == A!DeployedStatus(copyA.status)
  <2>1. "phase" \in DOMAIN status /\ status.phase \in {"Failed", "Degraded", "Running"}
    BY OwnerAFacts DEF OwnerInv, Shaped, A!DeployedStatus, A!PhaseAfterDeployment
  <2> HIDE DEF status
  <2>2. A!StatusUpdate(status, "idle", "idle") /\ Serves(pcA)
    BY <1>1, CallNames DEF A!FinishDeployment, status
  <2> QED
    BY <2>1, <2>2, <1>1, CallNames, QuietReportA DEF A!FinishDeployment
<1>2. CASE ~A!FinishDeployment
  <2>1. /\ Serves(pcA) /\ UNCHANGED A!apiVars /\ UNCHANGED <<namespace, mongoUser>>
        /\ \E next \in {"createMongoDBResources", "createNATSResources",
                        "createRedisResources", "ensureBackupStorage",
                        "createServices", "updateStatusWithError"} :
             \/ A!Goto(next)
             \/ pcA' = next /\ UNCHANGED <<copyA, copyCurrentA>>
    BY <1>2, CallNames
       DEF A!DeployNext, A!CreateRegistrySecret, A!CreateMongoDBResources,
           A!WriteSecret, A!CreateNATSResources, A!CreateRedisResources,
           A!DeployInfra, A!EnsureBackupStorage, A!CreateServiceDeployment,
           A!CallFails, A!StartLoop, A!clusterVars, A!k8sVars, A!mongoVars
  <2> QED
    BY <2>1, CallNames, ServesOn, QuietCallA
<1> QED
  BY <1>1, <1>2

\* The deletion, when the cleanup notices every error it meets.
LEMMA CleanupA ==
  ASSUME ~SilentErrors, OwnerInv(OwnerA), A!CleanupNext
  PROVE  Moves(OwnerA, OwnerA') /\ Effect(pcA, pcA')
<1>a. Shaped(copyA) /\ "phase" \in DOMAIN copyA.status
  BY OwnerAFacts DEF OwnerInv, Shaped
<1>b. UNCHANGED A!clusterVars => UNCHANGED <<namespace, mongoUser>>
  BY DEF A!clusterVars, A!k8sVars, A!mongoVars
<1>c. {"createBackup", "all.mongoDB", "all.nats", "all.redis", "all.services",
       "cleanupMongoDB", "cleanupNATS", "cleanupRedis", "markCleaned",
       "markCleaning", "removeFinalizer"} \subseteq DeletionCalls
  BY DEF DeletionCalls, A!CleanupCalls
<1>d. \A next \in DeletionCalls \union {"idle", "updateStatusWithError"} :
        pcA \in DeletionCalls => Leads(pcA, next, copyA)
  BY DEF Leads
<1>1. CASE A!MarkCleaning
  <2> DEFINE status == [copyA.status EXCEPT !.phase = "Cleaning"]
  <2>1. "phase" \in DOMAIN status
    BY <1>a
  <2> HIDE DEF status
  <2>2. A!StatusUpdate(status, "idle", "idle") /\ pcA \in DeletionCalls
    BY <1>1, <1>c DEF A!MarkCleaning, status
  <2>3. Moves(OwnerA, OwnerA') /\ pcA' = "idle"
    BY <2>1, <2>2, <1>d, StatusUpdateA
  <2> QED
    BY <2>3, <1>1, <1>b, CallNames DEF A!MarkCleaning, Effect
<1>2. CASE A!CreateBackup \/ A!CleanupAllMongoDB \/ A!CleanupAllNATS \/ A!CleanupAllRedis
  <2>1. /\ pcA \in DeletionCalls /\ UNCHANGED A!apiVars /\ UNCHANGED namespace
        /\ mongoUser' \in {mongoUser, A!Nil}
        /\ \E next \in {"all.mongoDB", "all.nats", "all.redis", "all.services"} :
             A!Goto(next)
    BY <1>2, <1>c
       DEF A!CreateBackup, A!CleanupAllMongoDB, A!CleanupAllNATS, A!CleanupAllRedis,
           A!CleanupMongoDB, A!CleanupDeployment, A!k8sVars, A!mongoVars
  <2>2. PICK next \in {"all.mongoDB", "all.nats", "all.redis", "all.services"} :
          A!Goto(next)
    BY <2>1
  <2>3. pcA' = next /\ next \notin LateCalls
    BY <2>2, HoldA DEF A!Goto, LateCalls
  <2>4. Moves(OwnerA, OwnerA')
    BY <2>1, <2>2, <1>c, <1>d, CallA
  <2> QED
    BY <2>1, <2>3, <2>4, CallNames DEF Effect
<1>3. CASE A!CleanupAllServices
  <2>1. /\ pcA \in DeletionCalls /\ UNCHANGED A!apiVars /\ UNCHANGED mongoUser
        /\ \/ A!Goto("cleanupMongoDB") /\ namespace' # "active"
           \/ A!Goto("updateStatusWithError") /\ namespace' = namespace
    BY <1>3, <1>c DEF A!CleanupAllServices, A!CleanupServices, A!mongoVars
  <2>2. Moves(OwnerA, OwnerA') /\ pcA' \in {"cleanupMongoDB", "updateStatusWithError"}
    BY <2>1, <1>c, <1>d, CallA, HoldA DEF A!Goto
  <2>3. pcA' = "cleanupMongoDB" => namespace' # "active"
    BY <2>1, HoldA DEF A!Goto
  <2>4. namespace' = "active" => namespace = "active"
    BY <2>1
  <2> QED
    BY <2>1, <2>2, <2>3, <2>4, CallNames DEF Effect, LastCalls
<1>4. CASE A!CleanupMongoDBAgain
  <2>1. /\ pcA = "cleanupMongoDB" /\ UNCHANGED A!apiVars /\ UNCHANGED namespace
        /\ \/ A!Goto("cleanupNATS") /\ mongoUser' = A!Nil
           \/ A!Goto("updateStatusWithError") /\ mongoUser' = mongoUser
    BY <1>4
       DEF A!CleanupMongoDBAgain, A!CleanupMongoDB, A!MongoDBCleanupFailed,
           A!k8sVars, A!mongoVars
  <2>2. Moves(OwnerA, OwnerA') /\ pcA' \in {"cleanupNATS", "updateStatusWithError"}
    BY <2>1, <1>c, <1>d, CallA, HoldA DEF A!Goto
  <2>3. pcA' = "cleanupNATS" => mongoUser' = A!Nil
    BY <2>1, HoldA DEF A!Goto
  <2> QED
    BY <2>1, <2>2, <2>3, CallNames DEF Effect, LateCalls
<1>5. CASE A!CleanupNATS \/ A!CleanupRedis
  <2>1. /\ pcA \in LastCalls /\ pcA \in DeletionCalls /\ UNCHANGED A!apiVars
        /\ UNCHANGED <<namespace, mongoUser>>
        /\ \E next \in {"cleanupRedis", "markCleaned", "updateStatusWithError"} :
             A!Goto(next)
    BY <1>5, <1>c
       DEF A!CleanupNATS, A!CleanupRedis, A!CleanupDeployment, A!mongoVars,
           LastCalls, LateCalls
  <2>2. Moves(OwnerA, OwnerA')
    BY <2>1, <1>c, <1>d, CallA
  <2> QED
    BY <2>1, <2>2, CallNames DEF Effect
<1>6. CASE A!MarkCleaned
  <2> DEFINE status == [copyA.status EXCEPT !.phase = "Cleaned"]
  <2>1. "phase" \in DOMAIN status
    BY <1>a
  <2> HIDE DEF status
  <2>2. A!StatusUpdate(status, "removeFinalizer", "idle") /\ pcA \in DeletionCalls
    BY <1>6, <1>c DEF A!MarkCleaned, status
  <2>3. Moves(OwnerA, OwnerA')
    BY <2>1, <2>2, <1>c, <1>d, StatusUpdateA
  <2> QED
    BY <2>3, <1>6, <1>b DEF A!MarkCleaned, Effect, LastCalls, LateCalls
<1>7. CASE A!RemoveFinalizer
  <2> DEFINE sent == [copyA EXCEPT !.finalizer = FALSE]
  <2>1. ~sent.finalizer
    BY <1>a DEF Shaped
  <2> HIDE DEF sent
  <2>2. A!SpecUpdate(sent, "idle", "idle") /\ pcA = "removeFinalizer"
    BY <1>7 DEF A!RemoveFinalizer, sent
  <2>3. Goes(OwnerA', "idle", copyA, FALSE)
    BY <2>2, HoldA DEF A!SpecUpdate, Goes
  <2>4. \/ Unwritten(OwnerA, OwnerA')
        \/ /\ copyCurrentA /\ Written(OwnerA, OwnerA', A!Stored(sent))
           /\ stackA.deleting => Blank(A!Stored(sent))
    <3>1. stackA.deleting => Blank(A!Stored(sent))
      BY <2>1 DEF A!Stored, Blank, Shaped, A!NoStack, A!NoStatus
    <3> QED
      BY <3>1, <2>2, OwnerAFacts
         DEF A!SpecUpdate, A!Store, Written, Unwritten, A!apiVars
  <2>5. Leaves(OwnerA, OwnerA')
    BY <2>2, <2>3, <2>4, OwnerAFacts DEF Leaves
  <2> QED
    BY <2>5, <1>7, <1>b DEF A!RemoveFinalizer, Moves, Effect, LastCalls, LateCalls
<1> QED
  BY <1>1, <1>2, <1>3, <1>4, <1>5, <1>6, <1>7 DEF A!CleanupNext

\* The worker's step of a.
LEMMA WorkerA ==
  ASSUME ~SilentErrors, OwnerInv(OwnerA), A!Worker
  PROVE  Moves(OwnerA, OwnerA') /\ Effect(pcA, pcA')
BY ReconcileA, ProvisionA, DeployA, CleanupA DEF A!Worker

\* The user's step on a.
LEMMA UserStepA ==
  ASSUME OwnerInv(OwnerA), A!User
  PROVE  Moves(OwnerA, OwnerA') /\ UNCHANGED <<namespace, mongoUser, pcA>>
<1>a. Shaped(stackA)
  BY OwnerAFacts DEF OwnerInv
<1>b. UNCHANGED A!clusterVars => UNCHANGED <<namespace, mongoUser>>
  BY DEF A!clusterVars, A!k8sVars, A!mongoVars
<1>1. /\ UNCHANGED <<cachedA, pcA, copyA>> /\ ~cacheCurrentA' /\ ~copyCurrentA'
      /\ UNCHANGED <<namespace, mongoUser>>
  BY <1>b DEF A!User, A!SetActive, A!SetDeployedAt, A!DeleteStack, A!CreateStack, A!UserStore
<1>2. \/ /\ Shaped(stackA') /\ Alike(stackA', stackA)
         /\ stackA'.status = stackA.status
      \/ /\ stackA.exists /\ stackA.finalizer
         /\ stackA' = [stackA EXCEPT !.deleting = TRUE]
      \/ ~stackA.finalizer /\ Blank(stackA')
      \/ /\ ~stackA.exists
         /\ Shaped(stackA') /\ ~stackA'.finalizer /\ ~stackA'.deleting
         /\ stackA'.status.phase = ""
  <2>1. CASE \E active \in BOOLEAN : A!SetActive(active)
    BY <2>1, <1>a DEF A!SetActive, A!UserStore, Shaped, Alike
  <2>2. CASE A!SetDeployedAt
    BY <2>2, <1>a DEF A!SetDeployedAt, A!UserStore, Shaped, Alike
  <2>3. CASE A!DeleteStack
    BY <2>3 DEF A!DeleteStack, A!UserStore, Blank, Shaped, A!NoStack, A!NoStatus
  <2>4. CASE \E active \in BornActive : A!CreateStack(active)
    <3>1. PICK active \in BornActive : A!CreateStack(active)
      BY <2>4
    <3>2. stackA' = [A!NoStack EXCEPT !.exists = TRUE, !.active = active] /\ ~stackA.exists
      BY <3>1 DEF A!CreateStack, A!UserStore, A!NewStack
    <3>3. Blank(A!NoStack)
      BY DEF Blank, Shaped, A!NoStack, A!NoStatus
    <3> QED
      BY <3>2, <3>3 DEF Blank, Shaped
  <2> QED
    BY <2>1, <2>2, <2>3, <2>4 DEF A!User
<1> QED
  BY <1>1, <1>2, OwnerAFacts DEF Edited, Moves

\* The watch of a, and a new process that reads a.
LEMMA WatchStepA ==
  ASSUME A!Watch
  PROVE  Moves(OwnerA, OwnerA') /\ UNCHANGED <<namespace, mongoUser, pcA>>
<1>1. /\ UNCHANGED <<stackA, pcA, copyA, copyCurrentA>> /\ cachedA' = stackA
      /\ UNCHANGED <<namespace, mongoUser>>
  BY DEF A!Watch, A!SyncCache, A!workerVars, A!clusterVars, A!k8sVars, A!mongoVars
<1> QED
  BY <1>1, OwnerAFacts DEF Synced, Moves

\* The crash of a reconcile of a.
LEMMA CrashStepA ==
  ASSUME A!Crash
  PROVE  Moves(OwnerA, OwnerA') /\ UNCHANGED <<namespace, mongoUser>> /\ pcA' = "idle"
<1>1. /\ UNCHANGED stackA /\ cachedA' = stackA /\ A!Hold("idle", copyA, FALSE)
      /\ UNCHANGED <<namespace, mongoUser>>
  BY DEF A!Crash, A!Hold, A!clusterVars, A!k8sVars, A!mongoVars
<1>2. Goes(OwnerA', "idle", copyA, FALSE) /\ pcA' = "idle"
  BY <1>1, HoldA
<1> QED
  BY <1>1, <1>2, OwnerAFacts DEF Synced, Moves

-----------------------------------------------------------------------------
(* Every step of the stack b is a move of its owner, which is shown as for a *)

\* What OwnerB stands for.
LEMMA OwnerBFacts ==
  /\ OwnerB.object = stackB /\ OwnerB.cached = cachedB /\ OwnerB.pc = pcB
  /\ OwnerB.copy = copyB
  /\ OwnerB.cacheCurrent = cacheCurrentB /\ OwnerB.copyCurrent = copyCurrentB
  /\ OwnerB'.object = stackB' /\ OwnerB'.cached = cachedB' /\ OwnerB'.pc = pcB'
  /\ OwnerB'.copy = copyB'
  /\ OwnerB'.cacheCurrent = cacheCurrentB' /\ OwnerB'.copyCurrent = copyCurrentB'
BY DEF OwnerB

\* The worker takes hold of a call and of a version.
LEMMA HoldB ==
  ASSUME NEW next, NEW c, NEW current, B!Hold(next, c, current)
  PROVE  Goes(OwnerB', next, c, current) /\ pcB' = next
<1>1. Blank(B!NoStack)
  BY DEF Blank, Shaped, B!NoStack, B!NoStatus
<1> QED
  BY <1>1, OwnerBFacts DEF Goes, B!Hold, B!EndReconcile, B!HoldNothing

\* A call that does not write the object.
LEMMA CallB ==
  ASSUME UNCHANGED B!apiVars, NEW next, Leads(pcB, next, copyB),
         \/ B!Goto(next)
         \/ pcB' = next /\ next # "idle" /\ UNCHANGED <<copyB, copyCurrentB>>
  PROVE  Moves(OwnerB, OwnerB')
<1>1. Goes(OwnerB', next, copyB, copyCurrentB)
  BY HoldB, OwnerBFacts DEF B!Goto, Goes
<1>2. Unwritten(OwnerB, OwnerB')
  BY OwnerBFacts DEF Unwritten, B!apiVars
<1>3. Calls(OwnerB, OwnerB')
  BY <1>1, <1>2, OwnerBFacts DEF Calls
<1> QED
  BY <1>3 DEF Moves

\* A write of the status.
LEMMA StatusUpdateB ==
  ASSUME NEW status, NEW next, NEW otherwise, B!StatusUpdate(status, next, otherwise),
         "phase" \in DOMAIN status,
         \/ status.phase \notin {"Cleaning", "Cleaned"}
         \/ status.phase = copyB.status.phase
         \/ pcB \in DeletionCalls,
         Leads(pcB, next, copyB), Leads(pcB, otherwise, copyB)
  PROVE  Moves(OwnerB, OwnerB') /\ pcB' \in {next, otherwise}
<1> DEFINE put == WithStatus(stackB, status)
           new == WithStatus(copyB, status)
<1>1. CASE copyCurrentB /\ B!Store(put) /\ B!Hold(next, put, TRUE)
  <2>1. Written(OwnerB, OwnerB', put)
    BY <1>1, OwnerBFacts DEF Written, B!Store
  <2>2. Goes(OwnerB', next, put, TRUE) /\ pcB' = next
    BY <1>1, HoldB
  <2>3. Reports(OwnerB, OwnerB')
    BY <2>1, <2>2, <1>1, OwnerBFacts DEF Reports
  <2> QED
    BY <2>2, <2>3 DEF Moves
<1>2. CASE /\ UNCHANGED B!apiVars
           /\ \E current \in BOOLEAN :
                (current => copyCurrentB) /\ B!Hold(otherwise, new, current)
  <2>1. Unwritten(OwnerB, OwnerB')
    BY <1>2, OwnerBFacts DEF Unwritten, B!apiVars
  <2>2. Goes(OwnerB', otherwise, new, copyCurrentB) /\ pcB' = otherwise
    BY <1>2, HoldB DEF Goes
  <2>3. Reports(OwnerB, OwnerB')
    BY <2>1, <2>2, OwnerBFacts DEF Reports
  <2> QED
    BY <2>2, <2>3 DEF Moves
<1> QED
  BY <1>1, <1>2 DEF B!StatusUpdate, WithStatus

\* An Update that keeps the finalizer or adds it.
LEMMA SpecUpdateB ==
  ASSUME NEW c, NEW next, B!SpecUpdate(c, next, "idle"), next = "idle" \/ Serves(next),
         \/ pcB = "addFinalizer" /\ c.finalizer
         \/ Serves(pcB) /\ (c.finalizer <=> copyB.finalizer)
  PROVE  Moves(OwnerB, OwnerB') /\ pcB' \in {next, "idle"}
<1> DEFINE put == [stackB EXCEPT !.finalizer = c.finalizer, !.active = B!Defaulted(c.active)]
<1>1. CASE copyCurrentB /\ B!Store(B!Stored(c)) /\ B!Hold(next, B!Stored(c), TRUE)
  <2>1. ~stackB.deleting => B!Stored(c) = put
    BY DEF B!Stored
  <2>2. Written(OwnerB, OwnerB', B!Stored(c))
    BY <1>1, OwnerBFacts DEF Written, B!Store
  <2>3. Goes(OwnerB', next, B!Stored(c), TRUE) /\ pcB' = next
    BY <1>1, HoldB
  <2> HIDE DEF put
  <2>4. Guards(OwnerB, OwnerB')
    <3> DEFINE Put(finalizer, active) ==
          [OwnerB.object EXCEPT !.finalizer = finalizer, !.active = active]
    <3>1. put = Put(c.finalizer, B!Defaulted(c.active))
      BY OwnerBFacts DEF put
    <3> HIDE DEF Put
    <3>2. \E finalizer, active :
            /\ finalizer <=> c.finalizer
            /\ ~stackB.deleting =>
                 /\ Written(OwnerB, OwnerB', Put(finalizer, active))
                 /\ Goes(OwnerB', next, Put(finalizer, active), TRUE)
      BY <2>1, <2>2, <2>3, <3>1
    <3> QED
      BY <3>2, <1>1, OwnerBFacts DEF Guards, Put
  <2> QED
    BY <2>3, <2>4 DEF Moves
<1>2. CASE UNCHANGED B!apiVars /\ \E current \in BOOLEAN : B!Hold("idle", c, current)
  <2>1. Unwritten(OwnerB, OwnerB')
    BY <1>2, OwnerBFacts DEF Unwritten, B!apiVars
  <2>2. Goes(OwnerB', "idle", copyB, FALSE) /\ pcB' = "idle"
    BY <1>2, HoldB DEF Goes
  <2>3. Guards(OwnerB, OwnerB')
    BY <2>1, <2>2, OwnerBFacts DEF Guards
  <2> QED
    BY <2>2, <2>3 DEF Moves
<1> QED
  BY <1>1, <1>2 DEF B!SpecUpdate

\* The switches lead to calls that serve the stack, and to the cleanup of one
\* that is in Cleaning.
LEMMA DispatchB ==
  ASSUME NEW c, NEW call, Serves(call)
  PROVE  /\ Leads(call, B!Dispatch(c), c) /\ B!Dispatch(c) \notin LateCalls
         /\ Leads(call, B!PhaseHandler(c.status.phase), c)
         /\ B!PhaseHandler(c.status.phase) \notin LateCalls
BY DEF Leads, Serves, DeletionCalls, LateCalls, A!CleanupCalls, B!Dispatch, B!PhaseHandler

\* A status write of a stack that is served, or of the report of an error.
LEMMA QuietReportB ==
  ASSUME NEW status, NEW next, B!StatusUpdate(status, next, "idle"),
         Serves(pcB) \/ pcB = "updateStatusWithError",
         next = "idle" \/ Leads(pcB, next, copyB), next \notin LateCalls,
         UNCHANGED B!clusterVars, "phase" \in DOMAIN status,
         \/ status.phase \notin {"Cleaning", "Cleaned"}
         \/ status.phase = copyB.status.phase
  PROVE  Moves(OwnerB, OwnerB') /\ Effect(pcB, pcB')
<1>1. Leads(pcB, next, copyB) /\ Leads(pcB, "idle", copyB)
  BY DEF Leads
<1>2. Moves(OwnerB, OwnerB') /\ pcB' \in {next, "idle"}
  BY <1>1, StatusUpdateB
<1>3. UNCHANGED <<namespace, mongoUser>>
  BY DEF B!clusterVars, B!k8sVars, B!mongoVars
<1> QED
  BY <1>2, <1>3, CallNames DEF Effect

\* A call that neither writes the object nor touches what is held.
LEMMA QuietCallB ==
  ASSUME NEW next, UNCHANGED B!apiVars, Leads(pcB, next, copyB),
         \/ B!Goto(next)
         \/ pcB' = next /\ next # "idle" /\ UNCHANGED <<copyB, copyCurrentB>>,
         UNCHANGED <<namespace, mongoUser>>, next \notin LateCalls
  PROVE  Moves(OwnerB, OwnerB') /\ Effect(pcB, pcB')
BY CallNames, CallB, HoldB DEF Effect, B!Goto

\* Reconcile.
LEMMA ReconcileB ==
  ASSUME OwnerInv(OwnerB), B!ReconcileNext
  PROVE  Moves(OwnerB, OwnerB') /\ Effect(pcB, pcB')
<1>a. "phase" \in DOMAIN copyB.status /\ Shaped(copyB)
  BY OwnerBFacts DEF OwnerInv, Shaped
<1>b. UNCHANGED B!clusterVars => UNCHANGED <<namespace, mongoUser>>
  BY DEF B!clusterVars, B!k8sVars, B!mongoVars
<1>1. CASE B!FetchPRStack
  <2>1. Entitled(B!AfterGet(cachedB), cachedB)
    BY DEF Entitled, B!AfterGet, B!DeletionHandler, Serves, DeletionCalls,
           A!CleanupCalls, Working
  <2>2. B!AfterGet(cachedB) \notin LateCalls
    BY DEF B!AfterGet, B!DeletionHandler, LateCalls
  <2>3. /\ Goes(OwnerB', B!AfterGet(cachedB), cachedB, cacheCurrentB)
        /\ pcB' = B!AfterGet(cachedB)
    BY <1>1, HoldB DEF B!FetchPRStack
  <2>4. Fetches(OwnerB, OwnerB')
    BY <2>1, <2>3, <1>1, OwnerBFacts DEF Fetches, Unwritten, B!FetchPRStack, B!apiVars
  <2> QED
    BY <2>2, <2>3, <2>4, <1>1, <1>b, CallNames DEF Moves, Effect, B!FetchPRStack
<1>2. CASE B!AddFinalizer
  <2>1. [copyB EXCEPT !.finalizer = TRUE].finalizer
    BY <1>a DEF Shaped
  <2>2. Moves(OwnerB, OwnerB') /\ pcB' \in {"setCreatedAt", "checkReactivation", "idle"}
    BY <2>1, <1>2, CallNames, SpecUpdateB DEF B!AddFinalizer
  <2> QED
    BY <2>2, <1>2, <1>b, CallNames DEF Effect, B!AddFinalizer, LateCalls
<1>3. CASE B!SetCreatedAt
  <2> DEFINE status == [copyB.status EXCEPT !.createdAt = B!Timestamp,
                                            !.lastActiveAt = B!Timestamp]
  <2>1. "phase" \in DOMAIN status /\ status.phase = copyB.status.phase
    BY <1>a
  <2> HIDE DEF status
  <2>2. B!StatusUpdate(status, "checkReactivation", "idle") /\ Serves(pcB)
    BY <1>3, CallNames DEF B!SetCreatedAt, status
  <2> QED
    BY <2>1, <2>2, <1>3, CallNames, QuietReportB, ServesOn DEF B!SetCreatedAt
<1>4. CASE B!CheckReactivation
  <2> DEFINE status == [copyB.status EXCEPT !.lastActiveAt = B!Timestamp]
  <2>1. "phase" \in DOMAIN status /\ status.phase = copyB.status.phase
    BY <1>a
  <2> HIDE DEF status
  <2>2. Serves(pcB) /\ UNCHANGED B!clusterVars
    BY <1>4, CallNames DEF B!CheckReactivation
  <2>3. CASE B!StatusUpdate(status, B!Dispatch(copyB), "idle")
    BY <2>1, <2>2, <2>3, QuietReportB, DispatchB
  <2>4. CASE B!Goto("checkExpiration") /\ UNCHANGED B!apiVars
    BY <2>2, <2>4, <1>b, CallNames, QuietCallB, ServesOn
  <2> QED
    BY <2>3, <2>4, <1>4 DEF B!CheckReactivation, status
<1>5. CASE B!CheckExpiration
  <2>1. [copyB EXCEPT !.active = FALSE].finalizer = copyB.finalizer
    BY <1>a DEF Shaped
  <2>2. Serves(pcB) /\ UNCHANGED <<namespace, mongoUser>>
    BY <1>5, <1>b, CallNames DEF B!CheckExpiration
  <2>3. CASE B!SpecUpdate([copyB EXCEPT !.active = FALSE], "idle", "idle")
    <3>1. Moves(OwnerB, OwnerB') /\ pcB' = "idle"
      BY <2>1, <2>2, <2>3, SpecUpdateB
    <3> QED
      BY <3>1, <2>2, CallNames DEF Effect
  <2>4. CASE B!Goto(B!Dispatch(copyB)) /\ UNCHANGED B!apiVars
    BY <2>2, <2>4, QuietCallB, DispatchB
  <2> QED
    BY <2>3, <2>4, <1>5 DEF B!CheckExpiration
<1>6. CASE \/ B!ListForScaleDown \/ B!ScaleDown \/ B!CheckReplicas \/ B!ScaleUp
           \/ B!ListForRollout \/ B!RolloutDeployment
  <2>1. /\ Serves(pcB) /\ UNCHANGED B!apiVars /\ UNCHANGED <<namespace, mongoUser>>
        /\ \E next \in {"scaleDown", "checkHealth", "scaleUp", "rollout",
                        "recordRolloutError", "updateStatusWithError"} :
             \/ B!Goto(next)
             \/ pcB' = next /\ UNCHANGED <<copyB, copyCurrentB>>
    BY <1>6, <1>b, CallNames
       DEF B!ListForScaleDown, B!ScaleDown, B!ScaleDownFails, B!CheckReplicas,
           B!ScaleUp, B!ListForRollout, B!RolloutDeployment, B!RolloutFails,
           B!ItemFails, B!CallFails, B!StartLoop, B!LoopOn, B!mongoVars, B!apiVars
  <2> QED
    BY <2>1, CallNames, QuietCallB, ServesOn
<1>7. CASE B!MarkInactive
  <2> DEFINE status == [copyB.status EXCEPT !.phase = "Inactive"]
  <2>1. "phase" \in DOMAIN status /\ status.phase = "Inactive"
    BY <1>a
  <2> HIDE DEF status
  <2>2. B!StatusUpdate(status, "idle", "idle") /\ Serves(pcB)
    BY <1>7, CallNames DEF B!MarkInactive, status
  <2> QED
    BY <2>1, <2>2, <1>7, CallNames, QuietReportB DEF B!MarkInactive
<1>8. CASE B!CheckHealth
  <2>1. Serves(pcB) /\ UNCHANGED B!clusterVars
    BY <1>8, CallNames DEF B!CheckHealth
  <2>2. CASE B!StatusUpdate(copyB.status, "idle", "idle")
    BY <2>1, <2>2, <1>a, CallNames, QuietReportB
  <2>3. CASE B!EndReconcile /\ UNCHANGED B!apiVars
    BY <2>1, <2>3, <1>b, CallNames, QuietCallB, ServesOn DEF B!Goto, B!Hold
  <2> QED
    BY <2>2, <2>3, <1>8 DEF B!CheckHealth
<1>9. CASE B!RecordRollout
  <2> DEFINE status == B!RolledOut(copyB)
  <2>1. "phase" \in DOMAIN status /\ status.phase = copyB.status.phase
    BY <1>a DEF B!RolledOut
  <2> HIDE DEF status
  <2>2. B!StatusUpdate(status, B!PhaseHandler(copyB.status.phase), "idle") /\ Serves(pcB)
    BY <1>9, CallNames DEF B!RecordRollout, status
  <2> QED
    BY <2>1, <2>2, <1>9, QuietReportB, DispatchB DEF B!RecordRollout
<1>10. CASE B!RecordRolloutError
  <2>1. B!StatusUpdate(copyB.status, "idle", "idle") /\ Serves(pcB)
    BY <1>10, CallNames DEF B!RecordRolloutError
  <2> QED
    BY <2>1, <1>10, <1>a, CallNames, QuietReportB DEF B!RecordRolloutError
<1>11. CASE B!UpdateStatusWithError
  <2> DEFINE status == B!FailedStatus(copyB.status)
  <2>1. "phase" \in DOMAIN status /\ status.phase = "Failed"
    BY <1>a DEF B!FailedStatus
  <2> HIDE DEF status
  <2>2. B!StatusUpdate(status, "idle", "idle") /\ pcB = "updateStatusWithError"
    BY <1>11 DEF B!UpdateStatusWithError, status
  <2> QED
    BY <2>1, <2>2, <1>11, CallNames, QuietReportB DEF B!UpdateStatusWithError
<1> QED
  BY <1>1, <1>2, <1>3, <1>4, <1>5, <1>6, <1>7, <1>8, <1>9, <1>10, <1>11
     DEF B!ReconcileNext

\* handleInitialization and handleProvisioning.
LEMMA ProvisionB ==
  ASSUME OwnerInv(OwnerB), B!ProvisionNext
  PROVE  Moves(OwnerB, OwnerB') /\ Effect(pcB, pcB')
<1>a. "phase" \in DOMAIN copyB.status
  BY OwnerBFacts DEF OwnerInv, Shaped
<1>1. CASE B!Reactivate
  <2> DEFINE status == [copyB.status EXCEPT !.phase = ""]
  <2>1. "phase" \in DOMAIN status /\ status.phase = ""
    BY <1>a
  <2> HIDE DEF status
  <2>2. B!StatusUpdate(status, "initialize", "idle") /\ Serves(pcB)
    BY <1>1, CallNames DEF B!Reactivate, status
  <2> QED
    BY <2>1, <2>2, <1>1, CallNames, ServesOn, QuietReportB DEF B!Reactivate
<1>2. CASE B!HandleInitialization
  <2> DEFINE status == [copyB.status EXCEPT !.phase = "Provisioning"]
  <2>1. "phase" \in DOMAIN status /\ status.phase = "Provisioning"
    BY <1>a
  <2> HIDE DEF status
  <2>2. B!StatusUpdate(status, "idle", "idle") /\ Serves(pcB)
    BY <1>2, CallNames DEF B!HandleInitialization, status
  <2> QED
    BY <2>1, <2>2, <1>2, CallNames, QuietReportB DEF B!HandleInitialization
<1>3. CASE \/ B!CreateNamespace \/ B!DropUser \/ B!CreateUser
           \/ B!CreateCollections \/ B!CreateMongoDBSecret
  <2>1. /\ Serves(pcB) /\ UNCHANGED B!apiVars
        /\ \E next \in {"dropUser", "createUser", "createCollections", "saveCredentials",
                        "finishProvisioning", "updateStatusWithError"} :
             \/ B!Goto(next)
             \/ pcB' = next /\ UNCHANGED <<copyB, copyCurrentB>>
    BY <1>3, CallNames
       DEF B!CreateNamespace, B!DropUser, B!CreateUser, B!CreateCollections,
           B!CreateMongoDBSecret, B!WriteSecret, B!CallFails
  <2>2. PICK next \in {"dropUser", "createUser", "createCollections", "saveCredentials",
                       "finishProvisioning", "updateStatusWithError"} :
          \/ B!Goto(next)
          \/ pcB' = next /\ UNCHANGED <<copyB, copyCurrentB>>
    BY <2>1
  <2>3. Leads(pcB, next, copyB) /\ next \notin LateCalls
    BY <2>1, <2>2, CallNames, ServesOn
  <2>4. pcB' = next
    BY <2>2, HoldB DEF B!Goto
  <2> QED
    BY <2>1, <2>2, <2>3, <2>4, CallB DEF Effect
<1>4. CASE B!SaveCredentials
  <2> DEFINE status == B!WithCredentials(copyB.status)
  <2>1. "phase" \in DOMAIN status /\ status.phase = copyB.status.phase
    BY <1>a DEF B!WithCredentials
  <2> HIDE DEF status
  <2>2. /\ B!StatusUpdate(status, "createMongoDBSecret", "updateStatusWithError")
        /\ Serves(pcB)
    BY <1>4, CallNames DEF B!SaveCredentials, status
  <2>3. \A next \in {"createMongoDBSecret", "updateStatusWithError"} :
          Leads(pcB, next, copyB) /\ next \notin LateCalls
    BY <2>2, CallNames, ServesOn
  <2>4. /\ Moves(OwnerB, OwnerB')
        /\ pcB' \in {"createMongoDBSecret", "updateStatusWithError"}
    BY <2>1, <2>2, <2>3, StatusUpdateB
  <2> QED
    BY <2>2, <2>3, <2>4 DEF Effect
<1>5. CASE B!FinishProvisioning
  <2> DEFINE status == B!Provisioned(copyB.status)
  <2>1. "phase" \in DOMAIN status /\ status.phase = "Deploying"
    BY <1>a DEF B!Provisioned
  <2> HIDE DEF status
  <2>2. B!StatusUpdate(status, "idle", "idle") /\ Serves(pcB)
    BY <1>5, CallNames DEF B!FinishProvisioning, status
  <2> QED
    BY <2>1, <2>2, <1>5, CallNames, QuietReportB DEF B!FinishProvisioning
<1> QED
  BY <1>1, <1>2, <1>3, <1>4, <1>5 DEF B!ProvisionNext

\* handleDeployment.
LEMMA DeployB ==
  ASSUME OwnerInv(OwnerB), B!DeployNext
  PROVE  Moves(OwnerB, OwnerB') /\ Effect(pcB, pcB')
<1>1. CASE B!FinishDeployment
  <2> DEFINE status == B!DeployedStatus(copyB.status)
  <2>1. "phase" \in DOMAIN status /\ status.phase \in {"Failed", "Degraded", "Running"}
    BY OwnerBFacts DEF OwnerInv, Shaped, B!DeployedStatus, B!PhaseAfterDeployment
  <2> HIDE DEF status
  <2>2. B!StatusUpdate(status, "idle", "idle") /\ Serves(pcB)
    BY <1>1, CallNames DEF B!FinishDeployment, status
  <2> QED
    BY <2>1, <2>2, <1>1, CallNames, QuietReportB DEF B!FinishDeployment
<1>2. CASE ~B!FinishDeployment
  <2>1. /\ Serves(pcB) /\ UNCHANGED B!apiVars /\ UNCHANGED <<namespace, mongoUser>>
        /\ \E next \in {"createMongoDBResources", "createNATSResources",
                        "createRedisResources", "ensureBackupStorage",
                        "createServices", "updateStatusWithError"} :
             \/ B!Goto(next)
             \/ pcB' = next /\ UNCHANGED <<copyB, copyCurrentB>>
    BY <1>2, CallNames
       DEF B!DeployNext, B!CreateRegistrySecret, B!CreateMongoDBResources,
           B!WriteSecret, B!CreateNATSResources, B!CreateRedisResources,
           B!DeployInfra, B!EnsureBackupStorage, B!CreateServiceDeployment,
           B!CallFails, B!StartLoop, B!clusterVars, B!k8sVars, B!mongoVars
  <2> QED
    BY <2>1, CallNames, ServesOn, QuietCallB
<1> QED
  BY <1>1, <1>2

\* The deletion, when the cleanup notices every error it meets.
LEMMA CleanupB ==
  ASSUME ~SilentErrors, OwnerInv(OwnerB), B!CleanupNext
  PROVE  Moves(OwnerB, OwnerB') /\ Effect(pcB, pcB')
<1>a. Shaped(copyB) /\ "phase" \in DOMAIN copyB.status
  BY OwnerBFacts DEF OwnerInv, Shaped
<1>b. UNCHANGED B!clusterVars => UNCHANGED <<namespace, mongoUser>>
  BY DEF B!clusterVars, B!k8sVars, B!mongoVars
<1>c. {"createBackup", "all.mongoDB", "all.nats", "all.redis", "all.services",
       "cleanupMongoDB", "cleanupNATS", "cleanupRedis", "markCleaned",
       "markCleaning", "removeFinalizer"} \subseteq DeletionCalls
  BY DEF DeletionCalls, A!CleanupCalls
<1>d. \A next \in DeletionCalls \union {"idle", "updateStatusWithError"} :
        pcB \in DeletionCalls => Leads(pcB, next, copyB)
  BY DEF Leads
<1>1. CASE B!MarkCleaning
  <2> DEFINE status == [copyB.status EXCEPT !.phase = "Cleaning"]
  <2>1. "phase" \in DOMAIN status
    BY <1>a
  <2> HIDE DEF status
  <2>2. B!StatusUpdate(status, "idle", "idle") /\ pcB \in DeletionCalls
    BY <1>1, <1>c DEF B!MarkCleaning, status
  <2>3. Moves(OwnerB, OwnerB') /\ pcB' = "idle"
    BY <2>1, <2>2, <1>d, StatusUpdateB
  <2> QED
    BY <2>3, <1>1, <1>b, CallNames DEF B!MarkCleaning, Effect
<1>2. CASE B!CreateBackup \/ B!CleanupAllMongoDB \/ B!CleanupAllNATS \/ B!CleanupAllRedis
  <2>1. /\ pcB \in DeletionCalls /\ UNCHANGED B!apiVars /\ UNCHANGED namespace
        /\ mongoUser' \in {mongoUser, A!Nil}
        /\ \E next \in {"all.mongoDB", "all.nats", "all.redis", "all.services"} :
             B!Goto(next)
    BY <1>2, <1>c
       DEF B!CreateBackup, B!CleanupAllMongoDB, B!CleanupAllNATS, B!CleanupAllRedis,
           B!CleanupMongoDB, B!CleanupDeployment, B!k8sVars, B!mongoVars,
           A!Nil, B!Nil
  <2>2. PICK next \in {"all.mongoDB", "all.nats", "all.redis", "all.services"} :
          B!Goto(next)
    BY <2>1
  <2>3. pcB' = next /\ next \notin LateCalls
    BY <2>2, HoldB DEF B!Goto, LateCalls
  <2>4. Moves(OwnerB, OwnerB')
    BY <2>1, <2>2, <1>c, <1>d, CallB
  <2> QED
    BY <2>1, <2>3, <2>4, CallNames DEF Effect
<1>3. CASE B!CleanupAllServices
  <2>1. /\ pcB \in DeletionCalls /\ UNCHANGED B!apiVars /\ UNCHANGED mongoUser
        /\ \/ B!Goto("cleanupMongoDB") /\ namespace' # "active"
           \/ B!Goto("updateStatusWithError") /\ namespace' = namespace
    BY <1>3, <1>c DEF B!CleanupAllServices, B!CleanupServices, B!mongoVars
  <2>2. Moves(OwnerB, OwnerB') /\ pcB' \in {"cleanupMongoDB", "updateStatusWithError"}
    BY <2>1, <1>c, <1>d, CallB, HoldB DEF B!Goto
  <2>3. pcB' = "cleanupMongoDB" => namespace' # "active"
    BY <2>1, HoldB DEF B!Goto
  <2>4. namespace' = "active" => namespace = "active"
    BY <2>1
  <2> QED
    BY <2>1, <2>2, <2>3, <2>4, CallNames DEF Effect, LastCalls
<1>4. CASE B!CleanupMongoDBAgain
  <2>1. /\ pcB = "cleanupMongoDB" /\ UNCHANGED B!apiVars /\ UNCHANGED namespace
        /\ \/ B!Goto("cleanupNATS") /\ mongoUser' = A!Nil
           \/ B!Goto("updateStatusWithError") /\ mongoUser' = mongoUser
    BY <1>4
       DEF B!CleanupMongoDBAgain, B!CleanupMongoDB, B!MongoDBCleanupFailed,
           B!k8sVars, B!mongoVars, A!Nil, B!Nil
  <2>2. Moves(OwnerB, OwnerB') /\ pcB' \in {"cleanupNATS", "updateStatusWithError"}
    BY <2>1, <1>c, <1>d, CallB, HoldB DEF B!Goto
  <2>3. pcB' = "cleanupNATS" => mongoUser' = A!Nil
    BY <2>1, HoldB DEF B!Goto
  <2> QED
    BY <2>1, <2>2, <2>3, CallNames DEF Effect, LateCalls
<1>5. CASE B!CleanupNATS \/ B!CleanupRedis
  <2>1. /\ pcB \in LastCalls /\ pcB \in DeletionCalls /\ UNCHANGED B!apiVars
        /\ UNCHANGED <<namespace, mongoUser>>
        /\ \E next \in {"cleanupRedis", "markCleaned", "updateStatusWithError"} :
             B!Goto(next)
    BY <1>5, <1>c
       DEF B!CleanupNATS, B!CleanupRedis, B!CleanupDeployment, B!mongoVars,
           LastCalls, LateCalls
  <2>2. Moves(OwnerB, OwnerB')
    BY <2>1, <1>c, <1>d, CallB
  <2> QED
    BY <2>1, <2>2, CallNames DEF Effect
<1>6. CASE B!MarkCleaned
  <2> DEFINE status == [copyB.status EXCEPT !.phase = "Cleaned"]
  <2>1. "phase" \in DOMAIN status
    BY <1>a
  <2> HIDE DEF status
  <2>2. B!StatusUpdate(status, "removeFinalizer", "idle") /\ pcB \in DeletionCalls
    BY <1>6, <1>c DEF B!MarkCleaned, status
  <2>3. Moves(OwnerB, OwnerB')
    BY <2>1, <2>2, <1>c, <1>d, StatusUpdateB
  <2> QED
    BY <2>3, <1>6, <1>b DEF B!MarkCleaned, Effect, LastCalls, LateCalls
<1>7. CASE B!RemoveFinalizer
  <2> DEFINE sent == [copyB EXCEPT !.finalizer = FALSE]
  <2>1. ~sent.finalizer
    BY <1>a DEF Shaped
  <2> HIDE DEF sent
  <2>2. B!SpecUpdate(sent, "idle", "idle") /\ pcB = "removeFinalizer"
    BY <1>7 DEF B!RemoveFinalizer, sent
  <2>3. Goes(OwnerB', "idle", copyB, FALSE)
    BY <2>2, HoldB DEF B!SpecUpdate, Goes
  <2>4. \/ Unwritten(OwnerB, OwnerB')
        \/ /\ copyCurrentB /\ Written(OwnerB, OwnerB', B!Stored(sent))
           /\ stackB.deleting => Blank(B!Stored(sent))
    <3>1. stackB.deleting => Blank(B!Stored(sent))
      BY <2>1 DEF B!Stored, Blank, Shaped, B!NoStack, B!NoStatus
    <3> QED
      BY <3>1, <2>2, OwnerBFacts
         DEF B!SpecUpdate, B!Store, Written, Unwritten, B!apiVars
  <2>5. Leaves(OwnerB, OwnerB')
    BY <2>2, <2>3, <2>4, OwnerBFacts DEF Leaves
  <2> QED
    BY <2>5, <1>7, <1>b DEF B!RemoveFinalizer, Moves, Effect, LastCalls, LateCalls
<1> QED
  BY <1>1, <1>2, <1>3, <1>4, <1>5, <1>6, <1>7 DEF B!CleanupNext

\* The worker's step of b.
LEMMA WorkerB ==
  ASSUME ~SilentErrors, OwnerInv(OwnerB), B!Worker
  PROVE  Moves(OwnerB, OwnerB') /\ Effect(pcB, pcB')
BY ReconcileB, ProvisionB, DeployB, CleanupB DEF B!Worker

\* The user's step on b.
LEMMA UserStepB ==
  ASSUME OwnerInv(OwnerB), B!User
  PROVE  Moves(OwnerB, OwnerB') /\ UNCHANGED <<namespace, mongoUser, pcB>>
<1>a. Shaped(stackB)
  BY OwnerBFacts DEF OwnerInv
<1>b. UNCHANGED B!clusterVars => UNCHANGED <<namespace, mongoUser>>
  BY DEF B!clusterVars, B!k8sVars, B!mongoVars
<1>1. /\ UNCHANGED <<cachedB, pcB, copyB>> /\ ~cacheCurrentB' /\ ~copyCurrentB'
      /\ UNCHANGED <<namespace, mongoUser>>
  BY <1>b DEF B!User, B!SetActive, B!SetDeployedAt, B!DeleteStack, B!CreateStack, B!UserStore
<1>2. \/ /\ Shaped(stackB') /\ Alike(stackB', stackB)
         /\ stackB'.status = stackB.status
      \/ /\ stackB.exists /\ stackB.finalizer
         /\ stackB' = [stackB EXCEPT !.deleting = TRUE]
      \/ ~stackB.finalizer /\ Blank(stackB')
      \/ /\ ~stackB.exists
         /\ Shaped(stackB') /\ ~stackB'.finalizer /\ ~stackB'.deleting
         /\ stackB'.status.phase = ""
  <2>1. CASE \E active \in BOOLEAN : B!SetActive(active)
    BY <2>1, <1>a DEF B!SetActive, B!UserStore, Shaped, Alike
  <2>2. CASE B!SetDeployedAt
    BY <2>2, <1>a DEF B!SetDeployedAt, B!UserStore, Shaped, Alike
  <2>3. CASE B!DeleteStack
    BY <2>3 DEF B!DeleteStack, B!UserStore, Blank, Shaped, B!NoStack, B!NoStatus
  <2>4. CASE \E active \in BornActive : B!CreateStack(active)
    <3>1. PICK active \in BornActive : B!CreateStack(active)
      BY <2>4
    <3>2. stackB' = [B!NoStack EXCEPT !.exists = TRUE, !.active = active] /\ ~stackB.exists
      BY <3>1 DEF B!CreateStack, B!UserStore, B!NewStack
    <3>3. Blank(B!NoStack)
      BY DEF Blank, Shaped, B!NoStack, B!NoStatus
    <3> QED
      BY <3>2, <3>3 DEF Blank, Shaped
  <2> QED
    BY <2>1, <2>2, <2>3, <2>4 DEF B!User
<1> QED
  BY <1>1, <1>2, OwnerBFacts DEF Edited, Moves

\* The watch of b, and a new process that reads b.
LEMMA WatchStepB ==
  ASSUME B!Watch
  PROVE  Moves(OwnerB, OwnerB') /\ UNCHANGED <<namespace, mongoUser, pcB>>
<1>1. /\ UNCHANGED <<stackB, pcB, copyB, copyCurrentB>> /\ cachedB' = stackB
      /\ UNCHANGED <<namespace, mongoUser>>
  BY DEF B!Watch, B!SyncCache, B!workerVars, B!clusterVars, B!k8sVars, B!mongoVars
<1> QED
  BY <1>1, OwnerBFacts DEF Synced, Moves

\* The crash of a reconcile of b.
LEMMA CrashStepB ==
  ASSUME B!Crash
  PROVE  Moves(OwnerB, OwnerB') /\ UNCHANGED <<namespace, mongoUser>> /\ pcB' = "idle"
<1>1. /\ UNCHANGED stackB /\ cachedB' = stackB /\ B!Hold("idle", copyB, FALSE)
      /\ UNCHANGED <<namespace, mongoUser>>
  BY DEF B!Crash, B!Hold, B!clusterVars, B!k8sVars, B!mongoVars
<1>2. Goes(OwnerB', "idle", copyB, FALSE) /\ pcB' = "idle"
  BY <1>1, HoldB
<1> QED
  BY <1>1, <1>2, OwnerBFacts DEF Synced, Moves

-----------------------------------------------------------------------------
(* Both *)

Held == namespace = "active" \/ mongoUser # A!Nil

\* The calls after the drops of the second round find nothing held.
Dropped(call) ==
  /\ call \in LateCalls => namespace # "active"
  /\ call \in LastCalls => mongoUser = A!Nil

OwnersInv ==
  /\ OwnerInv(OwnerA) /\ OwnerInv(OwnerB)
  /\ pcA = "idle" \/ pcB = "idle"
  /\ Dropped(pcA) /\ Dropped(pcB)
  /\ SomeoneAnswers

\* What a move of m leaves of it and of what is held, when the other owner o
\* keeps its finalizer.
LEMMA AnswersOn ==
  ASSUME NEW m, NEW n, NEW o, NEW p, OwnerInv(m), Moves(m, n), Effect(m.pc, n.pc),
         Dropped(m.pc), Held => Guarded(m.object) \/ Guarded(o.object),
         Guarded(o.object) => Guarded(p.object)
  PROVE  /\ OwnerInv(n)
         /\ n.pc \in LateCalls => namespace' # "active"
         /\ n.pc \in LastCalls => mongoUser' = A!Nil
         /\ Held' => Guarded(n.object) \/ Guarded(p.object)
<1>1. /\ OwnerInv(n)
      /\ Guarded(m.object) => Guarded(n.object) \/ m.pc \in LastCalls
  BY MovesKeep
<1>2. CASE Serves(m.pc) /\ n.pc \notin LateCalls
  <2>1. Guarded(m.object) /\ m.pc \notin LastCalls
    BY <1>2, CallNames DEF OwnerInv, Entitled, Serves
  <2> QED
    BY <2>1, <1>1, <1>2, CallNames
<1>3. CASE /\ namespace' = "active" => namespace = "active"
           /\ mongoUser' # A!Nil => mongoUser # A!Nil
           /\ n.pc \in LateCalls => m.pc \in LateCalls \/ namespace' # "active"
           /\ n.pc \in LastCalls => m.pc \in LastCalls \/ mongoUser' = A!Nil
  <2>1. Held' => Held
    BY <1>3 DEF Held, A!Nil
  <2>2. m.pc \in LastCalls => ~Held
    BY CallNames DEF Dropped, Held
  <2> QED
    BY <2>1, <2>2, <1>1, <1>3 DEF Dropped
<1> QED
  BY <1>2, <1>3 DEF Effect

\* What a step that takes hold of nothing leaves of the calls.
LEMMA DroppedOn ==
  ASSUME NEW call, Dropped(call), UNCHANGED <<namespace, mongoUser>>
  PROVE  /\ call \in LateCalls => namespace' # "active"
         /\ call \in LastCalls => mongoUser' = A!Nil
         /\ Effect(call, call)
BY DEF Dropped, Effect

\* The worker does nothing to the stack it does not serve.
LEMMA Untouched ==
  /\ UNCHANGED varsA => OwnerA' = OwnerA /\ pcA' = pcA
  /\ UNCHANGED varsB => OwnerB' = OwnerB /\ pcB' = pcB
BY DEF varsA, varsB, OwnerA, OwnerB

\* The invariant is inductive, when the cleanup notices every error it meets.
LEMMA NextOwners == ASSUME ~SilentErrors PROVE OwnersInv /\ [Next]_vars => OwnersInv'
<1> SUFFICES ASSUME OwnersInv, [Next]_vars PROVE OwnersInv'
  OBVIOUS
<1>a. /\ OwnerInv(OwnerA) /\ OwnerInv(OwnerB) /\ Dropped(pcA) /\ Dropped(pcB)
      /\ Held => Guarded(stackA) \/ Guarded(stackB)
      /\ pcA = "idle" \/ pcB = "idle"
  BY DEF OwnersInv, SomeoneAnswers, Held
<1>b. "idle" \notin LateCalls /\ "idle" \notin LastCalls
  BY CallNames
<1>1. ASSUME Moves(OwnerA, OwnerA'), Effect(pcA, pcA'), OwnerB' = OwnerB, pcB' = pcB,
             pcB = "idle" \/ UNCHANGED <<namespace, mongoUser, pcA>>
      PROVE  OwnersInv'
  <2>1. /\ OwnerInv(OwnerA')
        /\ pcA' \in LateCalls => namespace' # "active"
        /\ pcA' \in LastCalls => mongoUser' = A!Nil
        /\ Held' => Guarded(stackA') \/ Guarded(stackB')
    BY <1>1, <1>a, AnswersOn, OwnerAFacts, OwnerBFacts
  <2>2. /\ pcB' \in LateCalls => namespace' # "active"
        /\ pcB' \in LastCalls => mongoUser' = A!Nil
    BY <1>1, <1>a, <1>b, DroppedOn
  <2> QED
    BY <2>1, <2>2, <1>1, <1>a DEF OwnersInv, Dropped, SomeoneAnswers, Held, Guarded
<1>2. ASSUME Moves(OwnerB, OwnerB'), Effect(pcB, pcB'), OwnerA' = OwnerA, pcA' = pcA,
             pcA = "idle" \/ UNCHANGED <<namespace, mongoUser, pcB>>
      PROVE  OwnersInv'
  <2>1. /\ OwnerInv(OwnerB')
        /\ pcB' \in LateCalls => namespace' # "active"
        /\ pcB' \in LastCalls => mongoUser' = A!Nil
        /\ Held' => Guarded(stackB') \/ Guarded(stackA')
    BY <1>2, <1>a, AnswersOn, OwnerAFacts, OwnerBFacts
  <2>2. /\ pcA' \in LateCalls => namespace' # "active"
        /\ pcA' \in LastCalls => mongoUser' = A!Nil
    BY <1>2, <1>a, <1>b, DroppedOn
  <2> QED
    BY <2>1, <2>2, <1>2, <1>a DEF OwnersInv, Dropped, SomeoneAnswers, Held, Guarded
<1>3. CASE WorkA
  BY <1>3, <1>1, <1>a, WorkerA, Untouched DEF WorkA
<1>4. CASE WorkB
  BY <1>4, <1>2, <1>a, WorkerB, Untouched DEF WorkB
<1>5. CASE UserA \/ WatchA
  BY <1>5, <1>1, <1>a, UserStepA, WatchStepA, Untouched, DroppedOn DEF UserA, WatchA
<1>6. CASE UserB \/ WatchB
  BY <1>6, <1>2, <1>a, UserStepB, WatchStepB, Untouched, DroppedOn DEF UserB, WatchB
<1>7. ASSUME Moves(OwnerA, OwnerA'), Moves(OwnerB, OwnerB'),
             UNCHANGED <<namespace, mongoUser>>,
             pcA' \in {pcA, "idle"}, pcB' \in {pcB, "idle"},
             pcA' = "idle" \/ pcB' = "idle",
             Guarded(stackA') <=> Guarded(stackA), Guarded(stackB') <=> Guarded(stackB)
      PROVE  OwnersInv'
  <2>1. OwnerInv(OwnerA') /\ OwnerInv(OwnerB')
    BY <1>7, <1>a, MovesKeep
  <2>2. Dropped(pcA)' /\ Dropped(pcB)'
    BY <1>7, <1>a, <1>b DEF Dropped
  <2> QED
    BY <2>1, <2>2, <1>7, <1>a DEF OwnersInv, SomeoneAnswers, Held, Guarded
<1>8. CASE CrashA
  <2>1. /\ Moves(OwnerA, OwnerA') /\ UNCHANGED <<namespace, mongoUser>>
        /\ pcA' = "idle" /\ UNCHANGED stackA
    BY <1>8, CrashStepA DEF CrashA, A!Crash
  <2>2. Moves(OwnerB, OwnerB') /\ UNCHANGED <<stackB, pcB>>
    BY <1>8, OwnerBFacts DEF CrashA, Moves, Synced
  <2> QED
    BY <2>1, <2>2, <1>7
<1>9. CASE CrashB
  <2>1. /\ Moves(OwnerB, OwnerB') /\ UNCHANGED <<namespace, mongoUser>>
        /\ pcB' = "idle" /\ UNCHANGED stackB
    BY <1>9, CrashStepB DEF CrashB, B!Crash
  <2>2. Moves(OwnerA, OwnerA') /\ UNCHANGED <<stackA, pcA>>
    BY <1>9, OwnerAFacts DEF CrashB, Moves, Synced
  <2> QED
    BY <2>1, <2>2, <1>7
<1>10. CASE Cluster \/ UNCHANGED vars
  <2>1. /\ OwnerA' = OwnerA /\ OwnerB' = OwnerB
        /\ UNCHANGED <<pcA, pcB, stackA, stackB, mongoUser>>
        /\ namespace' \in {namespace, "absent"}
    BY <1>10
       DEF Cluster, A!Cluster, A!PurgeNamespace, A!CompleteBackup, A!apiVars,
           A!workerVars, A!mongoVars, vars, varsA, varsB, shared, OwnerA, OwnerB
  <2> QED
    BY <2>1, <1>a DEF OwnersInv, Dropped, SomeoneAnswers, Held, Guarded
<1> QED
  BY <1>3, <1>4, <1>5, <1>6, <1>8, <1>9, <1>10 DEF Next

\* It holds at first.
LEMMA InitOwners == Init => OwnersInv
<1> SUFFICES ASSUME Init PROVE OwnersInv
  OBVIOUS
<1>1. Blank(A!NoStack) /\ Blank(B!NoStack)
  BY DEF Blank, Shaped, A!NoStack, A!NoStatus, B!NoStack, B!NoStatus
<1>2. PICK a, b : /\ stackA = [A!NoStack EXCEPT !.exists = TRUE, !.active = a]
                  /\ stackB = [B!NoStack EXCEPT !.exists = TRUE, !.active = b]
  BY DEF Init, A!Init, B!Init, A!NewStack, B!NewStack
<1>3. \A s \in {stackA, stackB} :
        Shaped(s) /\ ~s.finalizer /\ ~s.deleting /\ s.status.phase = ""
  BY <1>1, <1>2 DEF Blank, Shaped
<1>4. /\ cachedA = stackA /\ pcA = "idle" /\ copyA = A!NoStack /\ ~copyCurrentA
      /\ cachedB = stackB /\ pcB = "idle" /\ copyB = B!NoStack /\ ~copyCurrentB
      /\ namespace = "absent" /\ mongoUser = A!Nil
  BY DEF Init, A!Init, B!Init
<1>5. \A call, c : call = "idle" => Entitled(call, c)
  BY CallNames DEF Entitled, Serves
<1>6. OwnerInv(OwnerA) /\ OwnerInv(OwnerB)
  BY <1>1, <1>3, <1>4, <1>5, OwnerAFacts, OwnerBFacts
     DEF OwnerInv, Blank, Doomed, Working
<1> QED
  BY <1>4, <1>6, CallNames DEF OwnersInv, Dropped, SomeoneAnswers

\* Of two stacks with one number, each of which takes the namespace and the
\* MongoDB user for its own, the last one that has its finalizer answers for
\* them, whatever the users, the crashes, the conflicts and the stale reads of
\* either do, when the cleanup notices every error it meets.
THEOREM OneOfThemAnswers == ASSUME ~SilentErrors PROVE Spec => []SomeoneAnswers
<1>1. OwnersInv => SomeoneAnswers
  BY DEF OwnersInv
<1> QED
  BY <1>1, InitOwners, NextOwners, PTL DEF Spec

=============================================================================
