---------------------------- MODULE ServerProofs ----------------------------
(***************************************************************************)
(* For any number of requests, sandboxes, shards and workers: permits are   *)
(* conserved, a sandbox executes one guest, and every sandbox that can be    *)
(* reached is on the dashboard.                                              *)
(***************************************************************************)
EXTENDS Server, FiniteSetTheorems, TLAPS

\* Handlers that hold a permit.
Holders == {r \in Req : pc[r] \in {"insert", "register"}}

\* A guest is only started in a sandbox that has had none.
GuestsFit ==
  \A i \in Id : guests[i] <= 1 /\ (sb[i] \in {"none", "Ready"} => guests[i] = 0)

\* A sandbox that is about to be inserted is known to its handler alone.
Fresh ==
  /\ \A r \in Req : pc[r] = "insert" => tgt[r] \in Id /\ sb[tgt[r]] = "none"
  /\ \A q, r \in Req : pc[q] = "insert" /\ pc[r] = "insert" /\ q # r => tgt[q] # tgt[r]

\* Every other sandbox that a handler works on, or that the map holds, exists.
Known ==
  /\ \A r \in Req : pc[r] \in {"register", "remove", "try", "lock", "guest", "resume"} =>
                      tgt[r] \in Id /\ sb[tgt[r]] # "none"
  /\ \A r \in Req : \A i \in todo[r] : sb[i] # "none"
  /\ \A i \in inMap : sb[i] # "none"

\* What terminate_sandbox has taken out of the map does not come back.
Gone ==
  \A r \in Req : kind[r] = "terminate" /\ pc[r] \in {"try", "lock"} => tgt[r] \notin inMap

\* Only list_sandboxes scans.
Listing == \A r \in Req : pc[r] = "scan" => kind[r] = "list"

\* The types, with the bound of permits left to PermitsConserved.
Typed ==
  /\ pc \in [Req -> PCs]
  /\ kind \in [Req -> Kinds]
  /\ tgt \in [Req -> Id \cup {None}]
  /\ guard \in [Req -> Shard \cup {None}]
  /\ todo \in [Req -> SUBSET Id]
  /\ left \in [Req -> SUBSET Shard]
  /\ inMap \in SUBSET Id
  /\ sb \in [Id -> {"none", "Ready", "Running", "Terminated"}]
  /\ mutex \in [Id -> Req \cup {None}]
  /\ permits \in Nat
  /\ dash \in [Id -> {"none", "Ready"}]
  /\ guests \in [Id -> Nat]

\* The part about sandboxes and those who work on them.
StoreInv == GuestsFit /\ Fresh /\ Known /\ Gone /\ Listing /\ ReachableIsTracked

ServerInv == Typed /\ PermitsConserved /\ StoreInv

-----------------------------------------------------------------------------
(* Types *)

LEMMA TypedStep ==
  ASSUME Typed, Fresh, [Next]_vars
  PROVE  Typed'
<1> USE ServerAssumption DEF Typed, PCs, Kinds, Goto
<1>1. ASSUME NEW r \in Req, CreateArrive(r) \/ ListArrive(r) PROVE Typed'
  BY <1>1 DEF CreateArrive, ListArrive, Accept, listVars, storeVars
<1>2. ASSUME NEW r \in Req, NEW i \in Id, RunArrive(r, i) \/ StreamArrive(r, i) PROVE Typed'
  BY <1>2 DEF RunArrive, StreamArrive, LookupClone, AcceptFor, Accept, listVars, storeVars
<1>3. ASSUME NEW r \in Req, NEW i \in Id, GetArrive(r, i) \/ TerminateArrive(r, i) PROVE Typed'
  BY <1>3 DEF GetArrive, TerminateArrive, AcceptFor, Accept, listVars, storeVars
<1>4. ASSUME NEW r \in Req, CreateFails(r) \/ CreateInsert(r) \/ CreateRegister(r) PROVE Typed'
  <2>1. CASE CreateFails(r) \/ CreateRegister(r)
    BY <2>1 DEF CreateFails, CreateRegister, listVars, storeVars
  <2>2. CASE CreateInsert(r)
    <3>1. inMap' \in SUBSET Id
      BY <2>2 DEF CreateInsert, Fresh
    <3> QED
      BY <2>2, <3>1 DEF CreateInsert, listVars
  <2> QED
    BY <1>4, <2>1, <2>2
<1>5. ASSUME NEW r \in Req, NEW i \in Id, CreateBuild(r, i) PROVE Typed'
  <2>1. permits' \in Nat
    BY <1>5 DEF CreateBuild
  <2>2. /\ pc' \in [Req -> PCs] /\ tgt' \in [Req -> Id \cup {None}]
        /\ UNCHANGED << kind, guard, todo, left, inMap, sb, dash, guests, mutex >>
    BY <1>5 DEF CreateBuild, listVars, storeVars
  <2> QED
    BY <2>1, <2>2, Zenon
<1>6. ASSUME NEW r \in Req, LockWait(r) \/ StartRefused(r) \/ TerminateRefused(r) \/ GuestEnds(r)
      PROVE  Typed'
  BY <1>6 DEF LockWait, StartRefused, TerminateRefused, GuestEnds, listVars, storeVars
<1>7. ASSUME NEW r \in Req, RunStart(r) \/ StartFails(r) PROVE Typed'
  BY <1>7 DEF RunStart, StartFails, listVars
<1>8. ASSUME NEW r \in Req, RunFinish(r) \/ StreamStart(r) PROVE Typed'
  BY <1>8 DEF RunFinish, StreamStart, listVars
<1>9. ASSUME NEW r \in Req, GetFinish(r) \/ ListRead(r) \/ ListFinish(r) PROVE Typed'
  BY <1>9 DEF GetFinish, ListRead, ListFinish, listVars, storeVars
<1>10. ASSUME NEW r \in Req, NEW s \in Shard, ListShard(r, s) PROVE Typed'
  BY <1>10 DEF ListShard, storeVars
<1>11. ASSUME NEW r \in Req, NEW i \in Id, ListEntry(r, i) PROVE Typed'
  BY <1>11 DEF ListEntry, storeVars
<1>12. ASSUME NEW r \in Req, TerminateRemove(r) \/ TerminateFinish(r) PROVE Typed'
  BY <1>12 DEF TerminateRemove, TerminateFinish, listVars
<1>13. ASSUME NEW r \in Req, Cancel(r) PROVE Typed'
  BY <1>13 DEF Cancel, listVars, storeVars
<1>14. CASE UNCHANGED vars
  BY <1>14 DEF vars
<1> QED
  BY <1>1, <1>2, <1>3, <1>4, <1>5, <1>6, <1>7, <1>8, <1>9, <1>10, <1>11, <1>12, <1>13, <1>14
  DEF Next, Arrive, Advance
-----------------------------------------------------------------------------
(* Permits *)

LEMMA PermitsStep ==
  ASSUME Typed, PermitsConserved, [Next]_vars
  PROVE  PermitsConserved'
<1> USE DEF Typed, Goto
<1>1. ASSUME Holders' = Holders, permits' = permits PROVE PermitsConserved'
  BY <1>1, Zenon DEF PermitsConserved, Holders
<1>2. IsFiniteSet(Holders) /\ Cardinality(Holders) \in Nat
  <2>1. Holders \subseteq Req
    BY Zenon DEF Holders
  <2> QED
    BY <2>1, ServerAssumption, FS_Subset, FS_CardinalityType
<1>3. permits \in Nat /\ permits + Cardinality(Holders) = MaxSandboxes
  BY Zenon DEF PermitsConserved, Holders
<1>4. ASSUME NEW r \in Req, NEW i \in Id, CreateBuild(r, i) PROVE PermitsConserved'
  <2>1. r \notin Holders /\ Holders' = Holders \union {r}
    BY <1>4 DEF CreateBuild, Holders
  <2>2. permits' = permits - 1
    BY <1>4, Zenon DEF CreateBuild
  <2>3. Cardinality(Holders') = Cardinality(Holders) + 1
    BY <1>2, <2>1, FS_AddElement
  <2>4. permits' + Cardinality(Holders') = MaxSandboxes
    BY <1>2, <1>3, <2>2, <2>3
  <2> QED
    BY <2>4, Zenon DEF PermitsConserved, Holders
<1>5. ASSUME NEW r \in Req, CreateRegister(r) PROVE PermitsConserved'
  <2>1. r \in Holders /\ Holders' = Holders \ {r}
    BY <1>5 DEF CreateRegister, Holders
  <2>2. permits' = permits + 1
    BY <1>5, Zenon DEF CreateRegister
  <2>3. Cardinality(Holders') = Cardinality(Holders) - 1
    BY <1>2, <2>1, FS_RemoveElement
  <2>4. permits' + Cardinality(Holders') = MaxSandboxes
    BY <1>2, <1>3, <2>2, <2>3
  <2> QED
    BY <2>4, Zenon DEF PermitsConserved, Holders
<1>6. ASSUME NEW r \in Req, Arrive(r) PROVE PermitsConserved'
  <2>1. permits' = permits /\ pc[r] = "none" /\ UNCHANGED inMap
    BY <1>6 DEF Arrive, CreateArrive, ListArrive, RunArrive, StreamArrive, LookupClone,
                GetArrive, TerminateArrive, AcceptFor, Accept, storeVars
  <2>2. \E l \in {"permit", "scan", "try", "done", "remove"} : pc' = [pc EXCEPT ![r] = l]
    BY <1>6 DEF Arrive, CreateArrive, ListArrive, RunArrive, StreamArrive, LookupClone,
                GetArrive, TerminateArrive
  <2>3. Holders' = Holders
    BY <2>1, <2>2 DEF Holders
  <2> QED
    BY <1>1, <2>1, <2>3
<1>7. ASSUME NEW r \in Req,
             \/ CreateFails(r) \/ CreateInsert(r) \/ LockWait(r) \/ StartRefused(r)
             \/ TerminateRefused(r) \/ GuestEnds(r) \/ RunStart(r) \/ StartFails(r)
             \/ RunFinish(r) \/ StreamStart(r) \/ GetFinish(r) \/ ListRead(r) \/ ListFinish(r)
             \/ TerminateRemove(r) \/ TerminateFinish(r) \/ Cancel(r)
      PROVE  PermitsConserved'
  <2>1. permits' = permits
    BY <1>7 DEF CreateFails, CreateInsert, LockWait, StartRefused, TerminateRefused, GuestEnds,
                RunStart, StartFails, RunFinish, StreamStart, GetFinish, ListRead, ListFinish,
                TerminateRemove, TerminateFinish, Cancel
  <2>2. \/ pc[r] = "insert" /\ pc' = [pc EXCEPT ![r] = "register"]
        \/ /\ pc[r] \notin {"insert", "register"}
           /\ \E l \in {"done", "lock", "guest", "resume", "scan", "try"} : pc' = [pc EXCEPT ![r] = l]
    BY <1>7 DEF CreateFails, CreateInsert, LockWait, StartRefused, TerminateRefused, GuestEnds,
                RunStart, StartFails, RunFinish, StreamStart, GetFinish, ListRead, ListFinish,
                TerminateRemove, TerminateFinish, Cancel, GetsLock
  <2>3. Holders' = Holders
    BY <2>2 DEF Holders
  <2> QED
    BY <1>1, <2>1, <2>3
<1>8. ASSUME NEW r \in Req, (\E s \in Shard : ListShard(r, s)) \/ (\E i \in Id : ListEntry(r, i))
      PROVE  PermitsConserved'
  <2>1. permits' = permits /\ Holders' = Holders
    BY <1>8 DEF ListShard, ListEntry, Holders
  <2> QED
    BY <1>1, <2>1
<1>9. CASE UNCHANGED vars
  BY <1>1, <1>9 DEF vars, Holders
<1> QED
  BY <1>4, <1>5, <1>6, <1>7, <1>8, <1>9 DEF Next, Advance

-----------------------------------------------------------------------------
(* Sandboxes *)

LEMMA StoreStep ==
  ASSUME Typed, StoreInv, [Next]_vars
  PROVE  StoreInv'
<1> USE DEF Typed, StoreInv, GuestsFit, Fresh, Known, Gone, Listing, ReachableIsTracked, Goto
<1>1. ASSUME NEW r \in Req, CreateArrive(r) \/ ListArrive(r) PROVE StoreInv'
  <2>1. CASE CreateArrive(r)
    BY <2>1 DEF CreateArrive, Accept, listVars, storeVars
  <2>2. CASE ListArrive(r)
    BY <2>2 DEF ListArrive, Accept, listVars, storeVars
  <2> QED
    BY <1>1, <2>1, <2>2
<1>2. ASSUME NEW r \in Req, NEW i \in Id, RunArrive(r, i) \/ StreamArrive(r, i) PROVE StoreInv'
  BY <1>2 DEF RunArrive, StreamArrive, LookupClone, AcceptFor, Accept, listVars, storeVars
<1>3. ASSUME NEW r \in Req, NEW i \in Id, GetArrive(r, i) \/ TerminateArrive(r, i) PROVE StoreInv'
  BY <1>3 DEF GetArrive, TerminateArrive, AcceptFor, Accept, listVars, storeVars
<1>4. ASSUME NEW r \in Req, CreateFails(r) PROVE StoreInv'
  BY <1>4 DEF CreateFails, listVars, storeVars
<1>5. ASSUME NEW r \in Req, NEW i \in Id, CreateBuild(r, i) PROVE StoreInv'
  BY <1>5 DEF CreateBuild, listVars, storeVars
<1>6. ASSUME NEW r \in Req, CreateInsert(r) PROVE StoreInv'
  BY <1>6 DEF CreateInsert, listVars
<1>7. ASSUME NEW r \in Req, CreateRegister(r) PROVE StoreInv'
  BY <1>7 DEF CreateRegister, listVars
<1>8. ASSUME NEW r \in Req, LockWait(r) \/ StartRefused(r) PROVE StoreInv'
  BY <1>8 DEF LockWait, StartRefused, GetsLock, listVars, storeVars
<1>9. ASSUME NEW r \in Req, TerminateRefused(r) \/ GuestEnds(r) PROVE StoreInv'
  BY <1>9 DEF TerminateRefused, GuestEnds, GetsLock, listVars, storeVars
<1>10. ASSUME NEW r \in Req, RunStart(r) PROVE StoreInv'
  BY <1>10 DEF RunStart, GetsLock, listVars
<1>11. ASSUME NEW r \in Req, StartFails(r) PROVE StoreInv'
  BY <1>11 DEF StartFails, GetsLock, listVars
<1>12. ASSUME NEW r \in Req, RunFinish(r) PROVE StoreInv'
  BY <1>12 DEF RunFinish, listVars
<1>13. ASSUME NEW r \in Req, StreamStart(r) PROVE StoreInv'
  BY <1>13 DEF StreamStart, GetsLock, listVars
<1>14. ASSUME NEW r \in Req, GetFinish(r) \/ ListRead(r) \/ ListFinish(r) PROVE StoreInv'
  BY <1>14 DEF GetFinish, ListRead, ListFinish, GetsLock, listVars, storeVars
<1>15. ASSUME NEW r \in Req, NEW s \in Shard, ListShard(r, s) PROVE StoreInv'
  BY <1>15 DEF ListShard, storeVars
<1>16. ASSUME NEW r \in Req, NEW i \in Id, ListEntry(r, i) PROVE StoreInv'
  BY <1>16 DEF ListEntry, storeVars
<1>17. ASSUME NEW r \in Req, TerminateRemove(r) PROVE StoreInv'
  BY <1>17 DEF TerminateRemove, listVars
<1>18. ASSUME NEW r \in Req, TerminateFinish(r) PROVE StoreInv'
  BY <1>18 DEF TerminateFinish, GetsLock, listVars
<1>19. ASSUME NEW r \in Req, Cancel(r) PROVE StoreInv'
  BY <1>19 DEF Cancel, listVars, storeVars
<1>20. CASE UNCHANGED vars
  BY <1>20 DEF vars
<1> QED
  BY <1>1, <1>2, <1>3, <1>4, <1>5, <1>6, <1>7, <1>8, <1>9, <1>10, <1>11, <1>12, <1>13, <1>14,
     <1>15, <1>16, <1>17, <1>18, <1>19, <1>20, Zenon
  DEF Next, Arrive, Advance

-----------------------------------------------------------------------------
LEMMA ServerInvariant == Spec => []ServerInv
<1>1. Init => ServerInv
  <2> SUFFICES ASSUME Init PROVE ServerInv
    OBVIOUS
  <2>1. Typed /\ StoreInv
    BY ServerAssumption DEF Init, Typed, StoreInv, PCs, Kinds, GuestsFit, Fresh, Known, Gone,
                            Listing, ReachableIsTracked
  <2>2. PermitsConserved
    <3>1. {r \in Req : pc[r] \in {"insert", "register"}} = {}
      BY DEF Init
    <3>2. permits = MaxSandboxes /\ MaxSandboxes \in Nat
      BY ServerAssumption DEF Init
    <3> QED
      BY <3>1, <3>2, FS_EmptySet DEF PermitsConserved
  <2> QED
    BY <2>1, <2>2 DEF ServerInv
<1>2. ServerInv /\ [Next]_vars => ServerInv'
  BY TypedStep, PermitsStep, StoreStep DEF ServerInv, StoreInv
<1> QED
  BY <1>1, <1>2, PTL DEF Spec

\* No error path, no client that goes away and no race of creations loses a
\* permit of the creation semaphore or gives one back twice.
THEOREM PermitsAreConserved == Spec => []PermitsConserved
<1>1. ServerInv => PermitsConserved
  BY DEF ServerInv
<1> QED
  BY <1>1, ServerInvariant, PTL

\* Every sandbox a client can reach is on the dashboard or its creation is about
\* to put it there, however creations and terminations interleave.
THEOREM ReachableAreTracked == Spec => []ReachableIsTracked
<1>1. ServerInv => ReachableIsTracked
  BY DEF ServerInv, StoreInv
<1> QED
  BY <1>1, ServerInvariant, PTL

\* However many run and stream requests race for a sandbox, are refused or are
\* dropped by their clients, it executes one guest in its life.
THEOREM OneGuestEver == Spec => []OneGuestPerSandbox
<1>1. ServerInv => OneGuestPerSandbox
  BY DEF ServerInv, StoreInv, GuestsFit, OneGuestPerSandbox
<1> QED
  BY <1>1, ServerInvariant, PTL

\* The permits left stay between none and max_sandboxes, and every handler's
\* state keeps its type, for any number of requests, sandboxes and shards.
THEOREM ServerIsTyped == Spec => []TypeOK
<1>1. ServerInv => TypeOK
  <2> SUFFICES ASSUME ServerInv PROVE TypeOK
    OBVIOUS
  <2>1. Holders \subseteq Req
    BY Zenon DEF Holders
  <2>2. Cardinality(Holders) \in Nat
    BY <2>1, ServerAssumption, FS_Subset, FS_CardinalityType
  <2>3. permits \in Nat /\ permits + Cardinality(Holders) = MaxSandboxes /\ MaxSandboxes \in Nat
    BY ServerAssumption, Zenon DEF ServerInv, Typed, PermitsConserved, Holders
  <2>4. permits \in 0 .. MaxSandboxes
    BY <2>2, <2>3
  <2> QED
    BY <2>4, Zenon DEF ServerInv, Typed, TypeOK
<1> QED
  BY <1>1, ServerInvariant, PTL

-----------------------------------------------------------------------------
(* The mutex of a sandbox *)

\* A handler that awaits its guest holds the mutex of its sandbox.
Locked ==
  \A r \in Req : pc[r] \in {"guest", "resume"} => tgt[r] \in Id /\ mutex[tgt[r]] = r

LEMMA LockedStep ==
  ASSUME Typed, Known, Locked, [Next]_vars
  PROVE  Locked'
<1> USE ServerAssumption DEF Typed, Locked, Goto
<1>1. ASSUME NEW r \in Req, Arrive(r) PROVE Locked'
  <2>1. /\ UNCHANGED mutex /\ pc[r] = "none"
        /\ \E l \in {"permit", "scan", "try", "done", "remove"} : pc' = [pc EXCEPT ![r] = l]
        /\ \E i \in Id \cup {None} : tgt' = [tgt EXCEPT ![r] = i]
    BY <1>1 DEF Arrive, CreateArrive, ListArrive, RunArrive, StreamArrive, LookupClone,
                GetArrive, TerminateArrive, AcceptFor, Accept
  <2> QED
    BY <2>1
<1>2. ASSUME NEW r \in Req,
             \/ CreateFails(r) \/ CreateInsert(r) \/ CreateRegister(r)
             \/ LockWait(r) \/ StartRefused(r) \/ StartFails(r) \/ StreamStart(r)
             \/ GetFinish(r) \/ ListRead(r) \/ ListFinish(r)
             \/ TerminateRemove(r) \/ TerminateFinish(r) \/ TerminateRefused(r)
      PROVE  Locked'
  <2>1. /\ UNCHANGED << mutex, tgt >>
        /\ \E l \in {"done", "register", "lock", "scan", "try"} : pc' = [pc EXCEPT ![r] = l]
    BY <1>2 DEF CreateFails, CreateInsert, CreateRegister, LockWait, StartRefused, StartFails,
                StreamStart, GetFinish, ListRead, ListFinish, TerminateRemove, TerminateFinish,
                TerminateRefused
  <2> QED
    BY <2>1
<1>3. ASSUME NEW r \in Req, NEW i \in Id, CreateBuild(r, i) \/ ListEntry(r, i) PROVE Locked'
  BY <1>3 DEF CreateBuild, ListEntry
<1>4. ASSUME NEW r \in Req, NEW s \in Shard, ListShard(r, s) PROVE Locked'
  BY <1>4 DEF ListShard
<1>5. ASSUME NEW r \in Req, RunStart(r) PROVE Locked'
  BY <1>5 DEF RunStart, GetsLock, Known
<1>6. ASSUME NEW r \in Req, GuestEnds(r) \/ RunFinish(r) PROVE Locked'
  BY <1>6 DEF GuestEnds, RunFinish
<1>7. ASSUME NEW r \in Req, Cancel(r) PROVE Locked'
  BY <1>7 DEF Cancel
<1>8. CASE UNCHANGED vars
  BY <1>8 DEF vars
<1> QED
  BY <1>1, <1>2, <1>3, <1>4, <1>5, <1>6, <1>7, <1>8 DEF Next, Advance

\* No two handlers await a guest of the same sandbox.
GuestsExclusive ==
  \A q, r \in Req :
    pc[q] \in {"guest", "resume"} /\ pc[r] \in {"guest", "resume"} /\ q # r => tgt[q] # tgt[r]

\* run_sandbox holds the mutex from the start of its guest to the end of its
\* handler, also when the client goes away: no second handler gets to a guest
\* of the same sandbox meanwhile.
THEOREM GuestsAreExclusive == Spec => []GuestsExclusive
<1>1. Init => Locked
  BY DEF Init, Locked
<1>2. ServerInv /\ Locked /\ [Next]_vars => Locked'
  BY LockedStep DEF ServerInv, StoreInv
<1>3. Locked => GuestsExclusive
  BY DEF Locked, GuestsExclusive
<1> QED
  BY <1>1, <1>2, <1>3, ServerInvariant, PTL DEF Spec
=============================================================================
