------------------------------- MODULE Server -------------------------------
(***************************************************************************)
(* The gRPC service (isolate-server/src/service.rs): its handlers as tasks  *)
(* on a tokio runtime, the DashMap of sandboxes with its shard locks, the   *)
(* mutex around each sandbox, the creation semaphore and the dashboard's    *)
(* table (isolate-core/src/dashboard.rs).                                   *)
(*                                                                          *)
(* A handler runs from one await to the next without giving up its worker   *)
(* thread.  Awaiting (a permit, a sandbox mutex, a guest) frees the worker; *)
(* a DashMap write that finds its shard guarded blocks the worker itself.   *)
(* The sandbox is reduced to the states and outcomes Sandbox.tla describes: *)
(* run() ends Terminated, or leaves Running when instantiation fails or its *)
(* future is dropped; run_streaming() ends Terminated at once.              *)
(***************************************************************************)
EXTENDS Naturals, FiniteSets

CONSTANTS
  Req,           \* requests; bounds how many the server gets
  Id,            \* sandbox identifiers (fresh UUIDs); bounds the sandboxes
  Shard,         \* shards of the DashMap
  ShardOf,       \* ShardOf[i]: the shard that holds key i
  Workers,       \* worker threads of the runtime
  MaxSandboxes,  \* max_sandboxes
  None           \* no request, no shard

ASSUME ServerAssumption ==
  /\ IsFiniteSet(Req) /\ IsFiniteSet(Id)
  /\ ShardOf \in [Id -> Shard]
  /\ Workers \in Nat \ {0}
  /\ MaxSandboxes \in Nat
  /\ None \notin Req /\ None \notin Shard /\ None \notin Id

VARIABLES
  pc,        \* pc[r]: where handler r is
  kind,      \* kind[r]: which handler r is
  tgt,       \* tgt[r]: the sandbox r works on
  guard,     \* guard[r]: shard whose read guard r holds across awaits
  todo,      \* todo[r]: list: sandboxes of the guarded shard still to visit
  left,      \* left[r]: list: shards still to visit
  inMap,     \* keys of self.sandboxes
  sb,        \* sb[i]: state of sandbox i
  mutex,     \* mutex[i]: request that holds i's mutex
  permits,   \* permits left in the semaphore
  dash,      \* dash[i]: the dashboard's state for i, "none" when untracked
  guests     \* guests[i]: how many guests sandbox i has started

vars == << pc, kind, tgt, guard, todo, left, inMap, sb, mutex, permits, dash, guests >>
listVars == << todo, left >>
storeVars == << inMap, sb, dash, guests >>

Kinds == {"none", "create", "run", "get", "terminate", "list", "stream"}

\* permit, lock, guest: awaiting the semaphore, a sandbox mutex, the guest;
\* try: about to poll lock(), which only suspends when the mutex is taken;
\* resume: the guest has returned; scan: list at work between two awaits; insert,
\* remove: blocked on a shard; register: between insert and register_sandbox.
PCs == {"none", "permit", "insert", "register", "remove", "try", "lock", "guest",
        "resume", "scan", "done"}
OnWorker == {"insert", "register", "remove", "scan", "try"}

\* A task can be polled only on a worker that no other handler blocks.
FreeWorker == Cardinality({r \in Req : pc[r] \in OnWorker}) < Workers

\* DashMap takes the write lock of a shard when no read guard is out.
Writable(s) == \A r \in Req : guard[r] # s

Goto(r, label) == pc' = [pc EXCEPT ![r] = label]

-----------------------------------------------------------------------------
Init ==
  /\ pc = [r \in Req |-> "none"]
  /\ kind = [r \in Req |-> "none"]
  /\ tgt = [r \in Req |-> None]
  /\ guard = [r \in Req |-> None]
  /\ todo = [r \in Req |-> {}]
  /\ left = [r \in Req |-> {}]
  /\ inMap = {}
  /\ sb = [i \in Id |-> "none"]
  /\ mutex = [i \in Id |-> None]
  /\ permits = MaxSandboxes
  /\ dash = [i \in Id |-> "none"]
  /\ guests = [i \in Id |-> 0]

Accept(r, k, i) ==
  /\ pc[r] = "none"
  /\ FreeWorker
  /\ kind' = [kind EXCEPT ![r] = k]
  /\ tgt' = [tgt EXCEPT ![r] = i]

-----------------------------------------------------------------------------
(* create_sandbox *)

\* A well-formed request that the rate limiter lets in; one it rejects ends
\* without a trace.
CreateArrive(r) ==
  /\ Accept(r, "create", None)
  /\ Goto(r, "permit")
  /\ UNCHANGED << guard, listVars, storeVars, mutex, permits >>

\* Mutant: the permit is forgotten (mem::forget) when creation fails.
CreateFailsLeaking(r) ==
  /\ pc[r] = "permit"
  /\ permits > 0
  /\ FreeWorker
  /\ permits' = permits - 1
  /\ Goto(r, "done")
  /\ UNCHANGED << kind, tgt, guard, listVars, storeVars, mutex >>

\* The configuration or the module is rejected; the permit goes back.
CreateFails(r) ==
  /\ pc[r] = "permit"
  /\ permits > 0
  /\ FreeWorker
  /\ Goto(r, "done")
  /\ UNCHANGED << kind, tgt, guard, listVars, storeVars, mutex, permits >>

\* A permit is obtained and sandbox i is built; its insertion is next.
CreateBuild(r, i) ==
  /\ pc[r] = "permit"
  /\ permits > 0
  /\ FreeWorker
  /\ sb[i] = "none"
  /\ \A q \in Req : pc[q] = "insert" => tgt[q] # i
  /\ permits' = permits - 1
  /\ tgt' = [tgt EXCEPT ![r] = i]
  /\ Goto(r, "insert")
  /\ UNCHANGED << kind, guard, listVars, storeVars, mutex >>

\* sandboxes.insert: waits for the shard on its worker.
CreateInsert(r) ==
  /\ pc[r] = "insert"
  /\ Writable(ShardOf[tgt[r]])
  /\ inMap' = inMap \cup {tgt[r]}
  /\ sb' = [sb EXCEPT ![tgt[r]] = "Ready"]
  /\ Goto(r, "register")
  /\ UNCHANGED << kind, tgt, guard, listVars, mutex, permits, dash, guests >>

\* Mutant: the permit is given back explicitly and dropped as well.
CreateRegisterTwice(r) ==
  /\ pc[r] = "register"
  /\ dash' = [dash EXCEPT ![tgt[r]] = "Ready"]
  /\ permits' = permits + 2
  /\ Goto(r, "done")
  /\ UNCHANGED << kind, tgt, guard, listVars, inMap, sb, mutex, guests >>

\* dashboard.register_sandbox; the permit is dropped with the handler.
CreateRegister(r) ==
  /\ pc[r] = "register"
  /\ dash' = [dash EXCEPT ![tgt[r]] = "Ready"]
  /\ permits' = permits + 1
  /\ Goto(r, "done")
  /\ UNCHANGED << kind, tgt, guard, listVars, inMap, sb, mutex, guests >>

-----------------------------------------------------------------------------
(* run_sandbox and stream_output *)

\* A client names a sandbox it has learned of, terminated ones included.
AcceptFor(r, k, i) == Accept(r, k, i) /\ sb[i] # "none"

\* The Arc is cloned out of the map, so no guard is held while locking.
LookupClone(r, k, i) ==
  /\ AcceptFor(r, k, i)
  /\ Goto(r, IF i \in inMap THEN "try" ELSE "done")
  /\ UNCHANGED << guard, listVars, storeVars, mutex, permits >>

RunArrive(r, i) == LookupClone(r, "run", i)

StreamArrive(r, i) == LookupClone(r, "stream", i)

\* Mutant: a mutex of the standard library, which blocks the worker.
LockWaitBlocks(r) ==
  /\ pc[r] = "try"
  /\ mutex[tgt[r]] # None
  /\ UNCHANGED vars

\* The mutex is taken: the handler suspends and gives up its worker.
LockWait(r) ==
  /\ pc[r] = "try"
  /\ mutex[tgt[r]] # None
  /\ Goto(r, "lock")
  /\ UNCHANGED << kind, tgt, guard, listVars, storeVars, mutex, permits >>

\* r finds the mutex of its sandbox free, at once or when polled again.
GetsLock(r, k) ==
  /\ pc[r] = "try" \/ (pc[r] = "lock" /\ FreeWorker)
  /\ kind[r] = k
  /\ mutex[tgt[r]] = None

\* Sandbox::run starts the guest; the mutex is held across its await.
RunStart(r) ==
  /\ GetsLock(r, "run")
  /\ sb[tgt[r]] = "Ready"
  /\ mutex' = [mutex EXCEPT ![tgt[r]] = r]
  /\ sb' = [sb EXCEPT ![tgt[r]] = "Running"]
  /\ guests' = [guests EXCEPT ![tgt[r]] = @ + 1]
  /\ Goto(r, "guest")
  /\ UNCHANGED << kind, tgt, guard, listVars, inMap, permits, dash >>

\* Sandbox::run or run_streaming fails to instantiate, after it set Running.
StartFails(r) ==
  /\ GetsLock(r, kind[r])
  /\ kind[r] \in {"run", "stream"}
  /\ sb[tgt[r]] = "Ready"
  /\ sb' = [sb EXCEPT ![tgt[r]] = "Running"]
  /\ Goto(r, "done")
  /\ UNCHANGED << kind, tgt, guard, listVars, inMap, mutex, permits, dash, guests >>

\* The sandbox is not Ready, or the request names another entry point.
StartRefused(r) ==
  /\ GetsLock(r, kind[r])
  /\ kind[r] \in {"run", "stream"}
  /\ kind[r] = "stream" => sb[tgt[r]] # "Ready"
  /\ Goto(r, "done")
  /\ UNCHANGED << kind, tgt, guard, listVars, storeVars, mutex, permits >>

\* The blocking task returns; the handler becomes runnable.
GuestEnds(r) ==
  /\ pc[r] = "guest"
  /\ Goto(r, "resume")
  /\ UNCHANGED << kind, tgt, guard, listVars, storeVars, mutex, permits >>

\* Sandbox::run returns and record_run leaves the dashboard's state alone; a
\* task that panicked returns with the sandbox still Running.
RunFinish(r) ==
  /\ pc[r] = "resume"
  /\ FreeWorker
  /\ \E s \in {"Terminated", "Running"} : sb' = [sb EXCEPT ![tgt[r]] = s]
  /\ mutex' = [mutex EXCEPT ![tgt[r]] = None]
  /\ Goto(r, "done")
  /\ UNCHANGED << kind, tgt, guard, listVars, inMap, permits, dash, guests >>

\* Mutant: the guard is dropped before run_streaming has set the state.
StreamStartReady(r) ==
  /\ GetsLock(r, "stream")
  /\ sb[tgt[r]] = "Ready"
  /\ guests' = [guests EXCEPT ![tgt[r]] = @ + 1]
  /\ Goto(r, "done")
  /\ UNCHANGED << kind, tgt, guard, listVars, inMap, sb, mutex, permits, dash >>

\* run_streaming: Terminated at once, guest in the background.
StreamStart(r) ==
  /\ GetsLock(r, "stream")
  /\ sb[tgt[r]] = "Ready"
  /\ sb' = [sb EXCEPT ![tgt[r]] = "Terminated"]
  /\ guests' = [guests EXCEPT ![tgt[r]] = @ + 1]
  /\ Goto(r, "done")
  /\ UNCHANGED << kind, tgt, guard, listVars, inMap, mutex, permits, dash >>

-----------------------------------------------------------------------------
(* get_sandbox and list_sandboxes *)

\* get_sandbox keeps the map's read guard while it awaits the mutex.
GetArrive(r, i) ==
  /\ AcceptFor(r, "get", i)
  /\ IF i \in inMap
     THEN Goto(r, "try") /\ guard' = [guard EXCEPT ![r] = ShardOf[i]]
     ELSE Goto(r, "done") /\ UNCHANGED guard
  /\ UNCHANGED << listVars, storeVars, mutex, permits >>

GetFinish(r) ==
  /\ GetsLock(r, "get")
  /\ guard' = [guard EXCEPT ![r] = None]
  /\ Goto(r, "done")
  /\ UNCHANGED << kind, tgt, listVars, storeVars, mutex, permits >>

ListArrive(r) ==
  /\ Accept(r, "list", None)
  /\ left' = [left EXCEPT ![r] = Shard]
  /\ Goto(r, "scan")
  /\ UNCHANGED << guard, todo, storeVars, mutex, permits >>

\* The iterator moves on to another shard and guards it.
ListShard(r, s) ==
  /\ pc[r] = "scan"
  /\ todo[r] = {}
  /\ s \in left[r]
  /\ left' = [left EXCEPT ![r] = @ \ {s}]
  /\ todo' = [todo EXCEPT ![r] = {i \in inMap : ShardOf[i] = s}]
  /\ guard' = [guard EXCEPT ![r] = s]
  /\ UNCHANGED << pc, kind, tgt, storeVars, mutex, permits >>

\* The next entry: its mutex is awaited with the shard guarded.
ListEntry(r, i) ==
  /\ pc[r] = "scan"
  /\ i \in todo[r]
  /\ todo' = [todo EXCEPT ![r] = @ \ {i}]
  /\ tgt' = [tgt EXCEPT ![r] = i]
  /\ Goto(r, "try")
  /\ UNCHANGED << kind, guard, left, storeVars, mutex, permits >>

ListRead(r) ==
  /\ GetsLock(r, "list")
  /\ Goto(r, "scan")
  /\ UNCHANGED << kind, tgt, guard, listVars, storeVars, mutex, permits >>

ListFinish(r) ==
  /\ pc[r] = "scan"
  /\ todo[r] = {} /\ left[r] = {}
  /\ guard' = [guard EXCEPT ![r] = None]
  /\ Goto(r, "done")
  /\ UNCHANGED << kind, tgt, listVars, storeVars, mutex, permits >>

-----------------------------------------------------------------------------
(* terminate_sandbox *)

TerminateArrive(r, i) ==
  /\ AcceptFor(r, "terminate", i)
  /\ Goto(r, "remove")
  /\ UNCHANGED << guard, listVars, storeVars, mutex, permits >>

\* Mutant: the sandbox is looked up but not taken out of the map.
TerminateLookup(r) ==
  /\ pc[r] = "remove"
  /\ Writable(ShardOf[tgt[r]])
  /\ Goto(r, IF tgt[r] \in inMap THEN "try" ELSE "done")
  /\ UNCHANGED << kind, tgt, guard, listVars, storeVars, mutex, permits >>

\* sandboxes.remove: waits for the shard on its worker.
TerminateRemove(r) ==
  /\ pc[r] = "remove"
  /\ Writable(ShardOf[tgt[r]])
  /\ inMap' = inMap \ {tgt[r]}
  /\ Goto(r, IF tgt[r] \in inMap THEN "try" ELSE "done")
  /\ UNCHANGED << kind, tgt, guard, listVars, sb, mutex, permits, dash, guests >>

\* Sandbox::terminate succeeds: update_state and remove_sandbox follow.
TerminateFinish(r) ==
  /\ GetsLock(r, "terminate")
  /\ sb[tgt[r]] # "Running"
  /\ sb' = [sb EXCEPT ![tgt[r]] = "Terminated"]
  /\ dash' = [dash EXCEPT ![tgt[r]] = "none"]
  /\ Goto(r, "done")
  /\ UNCHANGED << kind, tgt, guard, listVars, inMap, mutex, permits, guests >>

\* Sandbox::terminate refuses: the handler returns before the dashboard.
TerminateRefused(r) ==
  /\ GetsLock(r, "terminate")
  /\ sb[tgt[r]] = "Running"
  /\ Goto(r, "done")
  /\ UNCHANGED << kind, tgt, guard, listVars, storeVars, mutex, permits >>

-----------------------------------------------------------------------------
\* The client goes away and the handler's future is dropped at an await:
\* guards and the mutex are released, a started guest is not stopped.
Cancel(r) ==
  /\ pc[r] \in {"permit", "lock", "guest", "resume"}
  /\ FreeWorker
  /\ guard' = [guard EXCEPT ![r] = None]
  /\ mutex' = [i \in Id |-> IF mutex[i] = r THEN None ELSE mutex[i]]
  /\ Goto(r, "done")
  /\ UNCHANGED << kind, tgt, listVars, storeVars, permits >>

-----------------------------------------------------------------------------
Arrive(r) ==
  \/ CreateArrive(r)
  \/ ListArrive(r)
  \/ \E i \in Id : \/ RunArrive(r, i) \/ StreamArrive(r, i)
                   \/ GetArrive(r, i) \/ TerminateArrive(r, i)

\* Steps a handler takes by itself once it is polled.
Advance(r) ==
  \/ CreateFails(r) \/ (\E i \in Id : CreateBuild(r, i))
  \/ CreateInsert(r) \/ CreateRegister(r)
  \/ LockWait(r)
  \/ RunStart(r) \/ StartFails(r) \/ StartRefused(r) \/ RunFinish(r) \/ StreamStart(r)
  \/ GetFinish(r)
  \/ (\E s \in Shard : ListShard(r, s)) \/ (\E i \in Id : ListEntry(r, i))
  \/ ListRead(r) \/ ListFinish(r)
  \/ TerminateRemove(r) \/ TerminateFinish(r) \/ TerminateRefused(r)

Next == \E r \in Req : Arrive(r) \/ Advance(r) \/ GuestEnds(r) \/ Cancel(r)

\* The runtime polls a runnable task in the end; guests are bounded.
Fairness == \A r \in Req : WF_vars(Advance(r)) /\ WF_vars(GuestEnds(r))

Spec == Init /\ [][Next]_vars

FairSpec == Spec /\ Fairness

-----------------------------------------------------------------------------
(* Properties *)

TypeOK ==
  /\ pc \in [Req -> PCs]
  /\ kind \in [Req -> Kinds]
  /\ tgt \in [Req -> Id \cup {None}]
  /\ guard \in [Req -> Shard \cup {None}]
  /\ todo \in [Req -> SUBSET Id]
  /\ left \in [Req -> SUBSET Shard]
  /\ inMap \in SUBSET Id
  /\ sb \in [Id -> {"none", "Ready", "Running", "Terminated"}]
  /\ mutex \in [Id -> Req \cup {None}]
  /\ permits \in 0 .. MaxSandboxes
  /\ dash \in [Id -> {"none", "Ready"}]
  /\ guests \in [Id -> Nat]

\* A permit is only ever held by a handler that is creating a sandbox: no
\* error path and no client that goes away loses one.
PermitsConserved ==
  permits + Cardinality({r \in Req : pc[r] \in {"insert", "register"}}) = MaxSandboxes

\* Every sandbox clients can reach is on the dashboard, except while its own
\* create_sandbox is between the two insertions.
ReachableIsTracked ==
  \A i \in inMap :
    dash[i] # "none" \/ \E r \in Req : pc[r] = "register" /\ tgt[r] = i

\* However many run and stream requests race for a sandbox, it executes one
\* guest in its life: run and run_streaming leave it not Ready, and the
\* mutex keeps a second request out in between.
OneGuestPerSandbox == \A i \in Id : guests[i] <= 1

\* Every request is answered, although handlers hold shard guards while they
\* wait for a mutex and writers block their worker on such a shard: as long as
\* the writers are too few to block all the workers, one is left to poll the
\* handler that holds the mutex, and whoever waits for it behind the guard.
RequestsAnswered == \A r \in Req : (pc[r] # "none") ~> (pc[r] = "done")

-----------------------------------------------------------------------------
(* What the documentation says and the code does not do *)

\* "Use tokio::sync::Mutex/RwLock for async code that holds locks across
\* await points" (docs/adr/ADR-0012-parking-lot-and-atomics-for-concurrency.md:184),
\* so that no lock blocks the runtime: the workers are never all blocked on
\* shards of the map, where no task would be polled again.
NeverStarved ==
  FreeWorker \/ \E r \in Req :
                  /\ pc[r] \in OnWorker
                  /\ pc[r] \in {"insert", "remove"} => Writable(ShardOf[tgt[r]])
=============================================================================
