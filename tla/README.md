# Isolate: TLA+ models, model checking and proofs

Isolate runs untrusted WebAssembly in sandboxes with capabilities, resource
limits and rate limits. It is used as a Rust library (`isolate-core`), behind a
gRPC server (`isolate-server`) and through a CLI, bindings and SDKs. This
directory holds TLA+ models of the parts in which order, concurrency, failure and
time matter, the TLC runs that check them, and the TLAPS proofs of the main
invariants. `PROJECT.json` maps every definition to the source lines it models.
Paths below are relative to the repository; `core/` is short for
`isolate-core/src/`.

## 1. The system

### Components that are modelled

| Component | State it keeps | Operations | Talks to |
|---|---|---|---|
| Sandbox lifecycle (`core/sandbox.rs`) | `SandboxState`, meter, limiter, kept instance, metrics, lineage log | `create`, `run`, `call`, `run_streaming`, `run_batch`, `terminate`, `reset` | engine (instantiate, execute), rate limiter (acquire before, record after), blocking pool, hooks |
| Rate limiter of a sandbox (`core/ratelimit/`) | token bucket, hourly quota window | `try_acquire`, `record_execution`, refill, window reset | called by the sandbox |
| Epoch ticker (`core/engine/wasm.rs`) | started and shutdown flags, the ticker task, the engine's epoch | `ensure_epoch_ticker`, `shutdown_epoch_ticker`, a tick | deadlines set by the sandbox's methods; needs a runtime worker to be polled |
| Compiled-module cache (`core/engine/wasm.rs`) | `module_cache`, `access_counter` | `compile` with its eviction loop, `clear_cache` | every thread that creates a sandbox |
| gRPC service and dashboard (`isolate-server/src/service.rs`, `core/dashboard.rs`) | `DashMap` of sandboxes, a mutex per sandbox, a semaphore, the dashboard's table | create, run, stream, get, list, terminate | sandbox lifecycle, runtime workers, clients that go away |
| Circuit breaker (`core/ratelimit/circuit_breaker.rs`) | state, two counters, two times, each behind its own lock or atomic | `allow_request`, `record_success`, `record_failure`, `reset` | any thread |
| Mesh leader election (`core/mesh/consensus.rs`) | term, role, vote, votes received, members, log | elections, vote requests and responses, heartbeats, appends, membership changes | other nodes, over messages |
| Multi-tenant orchestrator (`core/orchestrator/scheduler.rs`) | tenants (queue, active tickets, deficit, rate window) and items, each behind a lock; an atomic count of what runs | register, update, suspend, resume, remove, `submit`, `schedule`, `complete` | any thread; two locks per call |
| Inter-sandbox channels (`core/ipc/channel.rs`, `hub.rs`) | a `DashMap` of channels; per channel a bounded queue and statistics | create, get, get-or-create, remove, send, receive, clear | sandboxes that keep clones of a channel |
| Tenant resource pool (`core/pool/tenant.rs`, `quota.rs`) | a `DashMap` of tenants, atomic counters per tenant and for the pool | register, update, remove, `acquire`, dropping a lease, counter resets | leases that outlive their tenant |
| Replicated data types (`core/kv/replication.rs`) | vector clock, last-writer-wins register, observed-remove set, counter per node | updates, `merge` | states of other nodes |

### What is hard here

* **Concurrency inside one sandbox.** Operations take `&mut self`, but guests do
  not: a streaming guest outlives its operation and even a `reset()`, and a
  dropped `run()` future leaves its guest running.
* **Cancellation.** tonic drops a handler's future when its client goes away; an
  await point is where state can be left half way.
* **Blocking in async code.** `call()` executes guests on a runtime worker, and a
  `DashMap` guard held over an await makes writers block workers. Ticker and
  handlers then have nobody to poll them.
* **Several locks for one fact.** Breaker, cache, tenant pool, channel hub and
  orchestrator read, check and write under different locks or atomics; the
  orchestrator takes its two locks in both orders.
* **Handles that outlive what they name.** Channels and tenants are removed or
  created anew while clones and leases of the old ones are in use.
* **Time.** Deadlines are counted in epochs which a task increments; quotas have
  windows; breakers have an open duration.
* **Unreliable messages** between the nodes of the mesh and of the replicated
  store: lost, late, repeated and out of order.

### Components that are not modelled (yet)

Planned: the checkout pool and the copy-on-write store (`core/snapshot/`), the rate
limiter and the resource meter under several threads, the warm pool, admission control
(`core/orchestrator/admission.rs`), the quota hierarchy, mesh membership and failover, the
workflow levels, and the RPC client's breaker. Section 6 has the order.

Of `core/kv/replication.rs` the `ReplicationCoordinator` is left out: `receive_op` counts
an operation and applies nothing, so there is no replicated state to speak about.

Not planned, with the reason in `PROJECT.json`: capability checks, policy
languages and parsers (functions of fixed data, without concurrent state), WASI
and host-function adapters (the operating system's behaviour), cryptography,
audit, signing and compliance (data), AI and agent integrations, telemetry and
cost reports (nothing acts on them), enclave, GPU and JavaScript back ends
(simulated), Kubernetes and infrastructure-as-code, CLI, bindings, SDKs, website.

## 2. Modules

| Module | What it is |
|---|---|
| `Sandbox` | the lifecycle of one sandbox with its guests and its rate limiter |
| `Server` | the service's handlers as tasks on worker threads; sandboxes reduced to their state |
| `EpochTicker` | wall-time limits: executions, the ticker task, time |
| `ModuleCache` | threads in `compile` over a shared map |
| `CircuitMachine` | abstract: the three-state machine a circuit breaker promises |
| `CircuitBreaker` | the breaker, one step per access to a lock or an atomic; implements `CircuitMachine` |
| `RaftElection` | the election among `RaftNode`s over a network |
| `Orchestrator` | submitters, schedulers and runners over tenants and items, one step per lock |
| `FifoWithLoss` | abstract: a queue that delivers in order, at most once, and loses only its oldest |
| `ChannelHub` | the hub and its channels; each channel implements `FifoWithLoss` |
| `TenantPool` | leases and tenants, one step per atomic access |
| `KvReplication` | replicas that update, ship their state and merge what arrives |
| `MCServer`, `MCRaftElection`, `MCChannelHub` | instances for TLC: sandboxes that share a shard, the member changes of a mesh, the symmetric names of a hub |
| `...Proofs` | theorems and proofs about the module they extend; `EngineProofs` is about `EpochTicker` and `ModuleCache`, `ClusterProofs` about `RaftElection`, `CircuitBreaker` and `KvReplication` |
| `FiniteSums` | lemmas about sums over finite sets, for `TenantPoolProofs` and `OrchestratorProofs` |

Where one proof module extends several models their definitions have names of their own:
`CacheInit`, `BreakerSpec`, `ReplicaTypeOK`, and `Site` for the nodes of `KvReplication`.

Definitions whose comment starts with "Mutant" are changed forms of the definition
that follows them. They take no part in any specification; they are there so that
each property can be seen to fail when the code is changed the way the mutant is.

### Sandbox

`state`, `meter`, `limiter` and `instance` are the fields of `Sandbox`; handles are
numbers, and `reset()` takes a new one for the meter and the limiter. `method` is the
operation whose future holds the `&mut self` borrow, so at most one operation is in
progress. `phase[e]` follows one guest execution through the blocking pool:
`usesMeter[e]` and `usesLimiter[e]` are the handles it was given. Each operation is
split at its await: `RunEnter`/`RunResume`/`RunJoinFails` (a panicked task),
`StreamEnter`/`StreamRecord` (the background task), `BatchEnter`/`BatchTask`/
`BatchResume`, `CallEnter`/`CallResume`. `EnterFails` and `CallEnterFails` are the
`?` after a failed instantiation, which leaves `Running` behind. `FutureDropped` is
a caller that gives up at an await. Bytes, fuel amounts, output and error texts are
left out; which limits are configured (`HasFuel`, `HasWallTime`, `Limited`) is kept.
Bandwidth recording is left out, as its result is ignored at `sandbox.rs:926`.

### Server

A handler (`pc[r]`) runs from await to await on a worker. `OnWorker` are the points
at which it occupies one; `FreeWorker` guards every poll. `guard[r]` is a `DashMap`
read guard kept over an await (get and list), and `Writable` is what insert and
remove wait for, on their worker. `tokio::sync::Mutex` is `mutex[i]`. `sb[i]`
summarises `Sandbox`: a run ends `Terminated`, or leaves `Running` when instantiation
fails or the future is dropped. `Cancel` drops a future at an await. Field validation,
authentication, rate-limit rejections, pagination and the dashboard's event ring are
left out: they end a request or change nothing that handlers act on.

### EpochTicker

Three durations in one unit decide: the limit `WallTime`, `Interval` (the constant 10 ms by
which `sandbox.rs` counts) and `TickMs` (the engine's `epoch_tick_ms`). A deadline is the
truncated quotient `WholeEpochs`, at least 1. `left[e]` is the number of epochs until e's
deadline, `owed` the ticks that are due: tokio's interval delivers missed ticks in a burst.
`Tick` needs a worker that no `call()` occupies, and `call()` guests may occupy them all.
A guest without a limit has the deadline `u64::MAX` added to the epoch of its instantiation
(`wasm.rs:799`): `armed` says whether the epoch can reach it, which it can once a tick was
delivered, as the sum wraps. With overflow checks that addition panics; the model has the
release build. With `TickMs = 0` the interval panics and there is no ticker, whatever the flag
says. `age` and `backlog` are history: how long a limited guest has run, and how many ticks were
overdue when it started.

### ModuleCache

One step per `DashMap` operation: lookup (`Hit`, `Miss`), compilation, insertion, and
in each round of the loop the length check, the choice of the oldest entry and its
removal. Contents of modules are left out. Of `access_counter` only the order of the numbers
drawn is kept (`older`), so threads may compile without end in a finite state space.
`max_cached_modules` is a variable that keeps its initial value, so that one run covers several.

### CircuitBreaker and CircuitMachine

Times are "none", "recent" or "old" (longer ago than the duration in question), which is
all the code asks. `lock` is the mutex of `opened_at`, which `allow_request` keeps while
it writes the state and the counter; all other accesses hold a lock for one step only.
`young` is a history variable: was the state set to `Open` less than `open_duration` ago?
`overlapped` is another: have two calls been in progress at the same time?
In `CircuitMachine` every change of state has a guard: it trips from Closed at the threshold or
from HalfOpen, tests recovery from Open after `open_duration`, closes from HalfOpen at the
threshold, and a reset closes it once. The refinement mapping is the identity on `state` and
`young`; `count` is the counter that the state uses (`MachineCount`), void while a thread is
about to clear it, and `resetting` is whether a `reset()` is in progress. Counts are bounded by
`MaxCount`. `total_rejected` is left out, as nothing reads it back.

### RaftElection

Requests and responses are sets that only grow, and a handler picks any element at any
time: messages are lost, delayed, reordered and repeated. A log is its last index and
term, as the code sends no entries to other nodes. `elected` is a history variable:
who led which term by whose votes of which members. It is also the source of heartbeats, since whoever has
led a term may still send, or have in flight, a heartbeat of it. The initial state is
the one after each node was told of all the others. `Candidates` and `Reconfigured` bound
which nodes time out and which members which node adds and removes. A refusal of the request's
own term is not recorded, because `handle_vote_response` ignores it whenever it arrives.

### Orchestrator

`lockT` and `lockI` are the write locks of `tenants` and `items`; a call that holds one and
needs the other waits. `submit` is `SubmitQueue` (everything under the first lock) and
`SubmitInsert`; `schedule` reads `total_running` (`ScheduleLoad`), takes both locks, credits
deficits (`ScheduleCredit`) and hands out slots tenant by tenant (`SchedulePick`,
`ScheduleTake`); `complete` takes items first (`CompleteLock`), then tenants
(`CompleteRetain`). Deficits are fractions in the code and multiples of `1/Scale` here.
`Headroom` keeps the width of `usize`: `max_concurrent - active.len()` wraps.
Queueing time, payloads and log lines are Queueing time, payloads and log lines are left out. The runner completes a ticket that
`schedule` returned, once: this is a contract of the callers, which `complete()` does not enforce
(section 3 says what a second call does).

### ChannelHub and FifoWithLoss

Every `DashMap` access of the hub is a step: length check, lookup, insertion and, in
`get_or_create`, the second lookup, whose `expect` can panic. `handle[t]` is the clone a
thread holds. Channel operations are one step each, as they hold the channel's lock. Messages are
numbers in the order in which they were accepted; sizes, contents and byte counters are left
out. The refinement mapping takes a queue to the set of its messages and the history
variables `lastIn` and `lastOut` to the newest message accepted and delivered.
Channels may have any capacity, zero included. `behind` is history: a `receive` that found
expired messages only has removed them and left `queue_depth` as it was.

### TenantPool

`usage[0]` is `global_usage`, `usage[s]` the counters of the s-th `TenantState`; a lease keeps
the number of the counters it was made on, as the code keeps their `Arc`. `Checks`,
`Reservations` and `Releases` list the atomic accesses in program order; `Check`, `Reserve`
and `Release` perform one. `Held` is the `DashMap` reference that `acquire` keeps, which shuts
out writers of the entry. Counters that nothing compares are left out. Sums of memory are
natural numbers: the code adds in `u64`, and usage and request together are taken to stay below
2^64 bytes.

### KvReplication

`rep[n]` holds one register, set and counter of node n, and as history the updates it has seen.
`net` is a set of states from which a node may merge any at any time. A clock without an
entry for a node is a clock with entry zero, as `get` has it. `Set` reads any wall-clock time;
`skewed` remembers whether a write was stamped before what it replaced.

## 3. Runs

One passing run per component and question. Safety and liveness share an instance: the
invariants are proved for every instance where section 4 says so, and TLC is there
to find out early, to check liveness, and to show that the mutants are caught.

| Run | Shows | Instance |
|---|---|---|
| `sandbox` | guests that overlap never share a meter; the kept instance is of the current meter; no limiter counts more than its quota although check and count are apart; hooks, log and counter agree; `run()` returns and streaming runs are concluded | 3 executions, 2 resets, a clock step, quota and burst 2 |
| `server` | permits are conserved over every error and every client that goes away; what clients can reach is on the dashboard; one guest per sandbox; every request is answered although handlers keep shard guards over an await and writers block their worker behind them | 4 requests of any kind, 2 workers, 2 sandboxes in one shard |
| `epoch` | no timeout is reported before the whole epochs of its limit at the ticker's rate, but for one tick and the ticks overdue at the start; limited guests are interrupted if a worker is free again and again, unless the ticker was shut down | 2 callers that can occupy both of 2 workers, limit 7, interval 3, tick 2 |
| `cache` | entries above the capacity never outnumber the threads that are evicting; `compile` returns unless others insert for ever | 2 threads that compile without end, 3 modules, capacities 0 and 1 |
| `circuit` | a threshold reached is acted upon however calls and resets overlap; the breaker implements the three-state machine until two calls overlap; it tests recovery in the end unless a failure overtakes a reset | 2 threads, thresholds 2, resets at any time |
| `raft` | one vote per node and term; one leader per term among those with a quorum of all nodes | 3 nodes, 2 candidates, terms up to 2, logs up to 1, one node that loses and regains sight of the others |
| `orchestrator` | a ticket is in the queue, among the active or done, as its status says, and counted as running exactly then; the global limit is exceeded by a bounded amount; every call returns unless two calls hold one lock each | 2 tenants, a submitter, a scheduler, a runner, global limit 1, tenant limits 1 and 2, 3 tickets |
| `channels` | statistics add up under overflow, expiry and clear, and as far as they do for capacity 0; the hub exceeds `max_channels` by less than the number of threads; channels implement `FifoWithLoss` | 2 threads, 2 names, limit 1, 2 channels of capacity 0 or 2, 3 messages |
| `pool` | counters settle on the leases that exist; overcommitment is bounded by the threads between check and reservation | 2 threads, 1 tenant registered up to twice, 3 acquisitions of size 1 or 2 |
| `replication` | set, counter, clock and (without skew) register are functions of the updates seen, so replicas that have seen the same agree | 2 nodes, 2 elements, 3 updates, 2 clock readings, 2 states in transit |

Two runs end in a violation, of promises that `PROJECT.json` quotes under its findings.
`sandbox_terminate`: "This method currently does not return errors" (`core/sandbox.rs:1100`), but
a failed instantiation, a panicked guest and a dropped `run()` future leave `Running`, and
`terminate()` then refuses (`:1120`), for ever. `server_blocked`: five requests block both workers
on a shard whose guard belongs to a task that no worker is left to poll.

### Further disagreements, in the models but not among the runs

The models contain the behaviour; a property that states the promise is violated in a few steps.

* Deadlines are counted in units of 10 ms (`core/sandbox.rs:897`) while the ticker sleeps
  `epoch_tick_ms`, "Lower values give more precise timeouts" (`core/engine/wasm.rs:31`): every
  other setting scales all wall-time limits, and 0 makes the ticker panic. `NoEarlyTimeout`
  states what remains: the limit's whole epochs at the ticker's rate.
* `call()` executes its guest on the worker that polls it (`core/sandbox.rs:1070`), against
  ADR-0009:136; when guests occupy every worker the ticker is never polled and no limit is
  enforced. `TimeoutEnforced` has the premise that a worker is free again and again.
* The deadline of a guest without a limit (`core/engine/wasm.rs:799`) is in the past once the
  epoch is not 0, against the comment two lines above it; the guest is interrupted.
* `reset()` of a breaker clears `opened_at` after it has closed it
  (`core/ratelimit/circuit_breaker.rs:153`); failures that trip it in between leave it open for
  ever, against "automatic recovery" (`:4`). `Recovers` excludes exactly that.
* Calls of a breaker that overlap write states they have not read: a `record_success` that
  found HalfOpen writes Closed over an Open written since (`:98`), a step that "the standard
  three-state circuit breaker" (`:3`) does not have. This is why `ImplementsMachine` holds up to
  the first overlap; `CountsSettle` and `Recovers` say what holds beyond it.
* `run_streaming()` sets `Terminated` while its guest still runs (`core/sandbox.rs:1314`), which
  is documented as "Execution completed (or failed)" (`:56`).
* A streaming run is counted in a copy of the metrics (`core/sandbox.rs:1237`), so `terminate()`
  does not return the metrics "for the sandbox's lifetime" (`:1094`). This is why `RunsAccounted`
  compares the counter with the runs of `run()` alone.
* `run_batch()` does not ask the limiter (`core/sandbox.rs:1376`) and `reset()` replaces it
  (`:1349`): "Maximum sandbox executions per hour" (`core/ratelimit/quota.rs:11`) bounds one
  limiter, which is all that `QuotaKept` says.
* `run_batch()` sets no epoch deadline (`core/sandbox.rs:1406`): a wall-time limit does not end
  its guests. `RunReturns` is about `run()`.
* The creation permit is a local of `create_sandbox` (`service.rs:259`) and bounds creations in
  progress, not "concurrent sandboxes" (`:105`).
* `record_run` leaves the dashboard's state at Ready (`core/dashboard.rs:90`); a sandbox that was
  removed from the map while its registration was outstanding, or whose termination was refused,
  stays on the dashboard. `ReachableIsTracked` is about the other direction.
* With workers all busy, ticks that are made up for in a burst (`core/engine/wasm.rs:564`)
  interrupt a guest that has just started. `NoEarlyTimeout` allows for those, and for no others.
* After `shutdown_epoch_ticker` no execution starts the ticker again (`core/engine/wasm.rs:557`);
  `TimeoutEnforced` excludes that case.
* `quorum_size()` is computed from a node's own members, which change at one node at a time
  (`core/mesh/consensus.rs:145`); quorums of different sets need not meet, so two nodes can lead
  one term. `FullQuorumsAgree` says when they cannot.
* `step_down()` keeps `leader_id` (`core/mesh/consensus.rs:247`), so a node in a later term names
  the leader of an earlier one.
* `complete()` takes the locks of the orchestrator in the order opposite to `submit()` and
  `schedule()` (`core/orchestrator/scheduler.rs:506`): two calls can wait for each other for
  ever. `ReturnsUnlessCrossed` says that this is the only way not to return.
* "Maximum total concurrent sandboxes across all tenants" (`core/orchestrator/scheduler.rs:14`)
  is exceeded: the slack is computed once (`:407`), before the locks, and every tenant of a
  pass is given slots from it. `OvershootBounded` is the bound the code does keep.
* `max_concurrent - active.len()` (`:455`) wraps after `update_tenant` lowered the limit; with
  overflow checks it panics, without the tenant is unlimited for that pass.
* `complete()` called twice for a ticket decrements `total_running` twice (`:523`); the rate window
  of a tenant restarts only after a second without a submission (`:198`); `starvation_timeout`
  promotes nothing, it is logged; `TenantStatus::Disabled` and `TenantConfig::enabled` are
  never used.
* Two threads in `get_or_create` can be given different channels of one name, or a panic
  (`core/ipc/hub.rs:89`, `:110`); the hub's test has "Same channel (shared state)".
* A channel of capacity 0 that drops its oldest message holds one message and counts a drop for
  every message it accepts (`core/ipc/channel.rs:226`), against "Total messages dropped" (`:132`).
  "Current queue depth" (`:138`) keeps its old value when `receive` finds only expired messages
  (`:272`). `StatsAddUp` states both cases apart from the rest.
* A tenant's memory is compared without the request (`core/pool/quota.rs:160`), so one lease of
  any size is granted; two racing registrations leave a tenant with fresh counters while leases
  on the old ones are outstanding (`core/pool/tenant.rs:272`), and its limits start anew.
* Registers of two nodes with the same time and node id, or with skewed clocks, keep different
  values (`core/kv/replication.rs:118`): `LastWriterWins` has that premise. An `OrSet` that is cloned for another node keeps its node id,
  and with it its tags.
* Every handle returned to the checkout pool adds a permit although checkout forgot none
  (`core/snapshot/checkout_pool.rs:89`); not modelled yet.

### Why the bounds are enough

* Sandbox: the conflicts are between a guest and its sandbox's next life. Three
  executions with two resets hold a streaming guest of the first life, one of the second
  and a run of the third. Quota and burst of 2 are exhausted and refilled. That the
  invariants hold for all values is proved.
* Server: four requests are a creator, a run that holds the mutex, a get or list that keeps
  the shard's guard while it waits for that mutex, and a writer that blocks one worker behind the
  guard: the other worker has to free them all. A second writer blocks both workers, which is
  the five requests of `server_blocked`.
* EpochTicker: two callers can occupy both workers, so the ticker starves and bursts; a limit of
  7 is two whole intervals of 3 and a remainder; a tick of 2 differs from the interval.
  `MaxOwed` of 3 exceeds the deadline of 2, so that a burst can swallow a whole limit; beyond it
  ticks are not counted, which the proof shows to be immaterial.
* ModuleCache: two threads exceed a capacity of one together, pick the same victim, and find
  it gone, cleared, or inserted anew by the other thread; with capacity 0 no eviction suffices.
  That the bound holds for all threads and capacities is proved.
* CircuitBreaker: with threshold 2 counts pass the threshold, and `MaxCount` of 4 leaves
  room for late increments of each thread.
* RaftElection: two competing candidates, a voter that can side with either, and a second
  term in which votes of the first are stale; a node that counts itself as the whole cluster
  and later all three again. Heartbeats, step-downs and repeated candidacy
  all occur.

* Orchestrator: one thread of each kind makes every pair of calls overlap at every lock; the
  global limit of 1 with two tenants is where the slack is handed out twice, and limits of
  1 and 2 let `update_tenant` take a limit below what runs. The overshoot bound is reached.
* ChannelHub: a limit of 1 and two threads exceed it; two channels under two names allow a
  name to be removed and recreated under a live handle; three messages overflow a channel of
  capacity 2, in which order shows, and one of capacity 0.
* TenantPool: a tenant whose counters were replaced, a lease on the old and one on the new; sizes
  1 and 2 reach all limits, and both threads pass every check together.
* KvReplication: three updates are an addition, its removal and a concurrent addition, or
  three writes with a tie; two states in transit are an old one and a newer one. What holds for all
  nodes, elements and updates is proved.

Deadlock checking is off where the system may come to rest: bounds on executions or
requests are used up, (raft) nobody times out any more, or (orchestrator) two calls hold one
lock each.

### Fairness

* Sandbox, Server: the runtime polls a task that can proceed, and a guest with fuel or a
  deadline is interrupted. The latter is what `epoch` establishes while a worker is free. No fairness is assumed of callers, nor that a guest returns by itself.
* EpochTicker: time goes on and an expired deadline traps. The ticker's poll is strongly fair:
  tokio polls its ready tasks in turn, so the ticker gets its turn if a worker is free again and
  again. That one is, is the premise of `TimeoutEnforced` and not an assumption.
* ModuleCache, CircuitBreaker: a thread inside an operation is scheduled (weak fairness).
  `CompileReturns` has the premise that the other threads do not insert for ever: the loop
  evicts what they insert. `Recovers` has that of section 3.
  The breaker also assumes that requests keep coming (strong fairness of `AllowRead`):
  recovery is tested by a request, so none would happen without.
* Orchestrator: a thread inside a call takes its next step again and again possible (strong
  fairness per thread): `parking_lot` locks are eventually fair, so a waiting thread is not
  overtaken for ever.
* ChannelHub, TenantPool, KvReplication: no liveness is claimed; their operations have no loops
  that wait for others.
* RaftElection: no liveness is claimed. Election timeouts are fixed durations here, and two
  candidates may split the vote for ever.

## 4. Proofs

TLAPS checks every leaf. The theorems hold for all values of the constants that meet the
module's named assumptions (`ConstantsAssumption`, `EpochAssumption`, `CacheAssumption`,
`CircuitAssumption`, `RaftAssumption`, `ReplicationAssumption`, `HubAssumption`,
`ServerAssumption`, `PoolAssumption`, `OrchestratorAssumption`), which TLC evaluates in every
run. They are what the code's types say and little more: numbers are natural, limits, thresholds
and capacities may be zero, threads, modules, tenants and nodes are finite in number, there is at
least one worker, one thread in the hub and one tenant name, the interval is not 0, node ids can
be compared.

* **`SandboxProofs`**: `TypeCorrect`, `MetersNotShared`, `InstanceCurrent`,
  `QuotaNeverExceeded`, `AccountsAgree`. None of the invariants is inductive
  alone. `IndInv` adds: meter and limiter are replaced together and each handle has at most
  one active owner, none while the sandbox is Ready (`Ownership`); what the borrow awaits
  (`Borrow`); what kind of guest has which handles (`Kinded`); a concluded run is done
  (`Recorded`); and while an owner is still to be counted there is room for it in its
  limiter's quota (`QuotaRoom`). The last is why checking first and counting later is sound.
* **`ServerProofs`**: `PermitsAreConserved`, `ReachableAreTracked`, `OneGuestEver`,
  `GuestsAreExclusive`, for any number of requests, sandboxes and shards. Permits and creations
  under way are counted (`PermitsConserved` is inductive given the types). The others need what
  the handlers rely on without looking again: an id about to be inserted is known to its handler
  alone (`Fresh`), every other id a handler works on, and every id of the map, exists (`Known`),
  what `terminate_sandbox` has taken out does not come back (`Gone`), only a listing scans
  (`Listing`), and a sandbox that is Ready has had no guest (`GuestsFit`). `Locked` adds that
  whoever awaits a guest is the owner of the mutex, also after its client has gone.
* **`EngineProofs`**, the ticker: `NoTimeoutIsEarly`, for any callers, workers, limits, intervals
  and tick rates, with starved workers and bursts. The invariant `Tracks` relates four clocks:
  the epochs that a deadline has lost and the ticks owed, together, are at most the ticks owed
  at the guest's start, its age and one tick; the phase since the last tick came due makes this
  inductive. `DeadlineHasTicker` says that whoever set a
  deadline has asked for the ticker before.
  The cache: `CacheIsBounded`, by counting: an insertion adds one entry and one
  thread in the loop, a thread leaves the loop only when the length it reads is within the
  capacity or its own entry is the only one.
* **`ClusterProofs`**, the election: `VotesOnce`: a granted vote of the node's current term is its
  `voted_for`, and none is of a later term. `OneLeader`: what a leader counted are votes
  granted to it in its term and a quorum of the members it then had; two quorums of all nodes
  share a node, and that node voted once. Quorums of a smaller set of members are no substitute:
  votes of nodes outside it count as well.
  The breaker, for any threads, thresholds and resets: `CountsAlwaysSettle`, inductive given the
  types. `BreakerImplementsMachine`: every step up to the first overlap of two calls maps to a
  step or a stutter of `CircuitMachine`. The invariant is `~overlapped => SerialInv`: at most one
  call is in progress, and at each point of its code the state, the counters and `young` are what
  the code has read.
  The replicas: `SetsConverge`, `CountersConverge`, `ClocksAreCausal`,
  `LastWriteIsKept`, `ReplicasAreTyped`, for any nodes, elements and numbers of updates. What a
  state means is a function of its history (`SetMeans`, `CounterMeans`, `ClockMeans`), and the
  invariant `Means` states this of every replica and of every state in transit, together with two
  facts that make merging sound: a node knows more of its own updates and tags than any other
  state does (`Authority`), so that a new number is new everywhere; and two states never
  hold different updates under one number (`Agree`). Merging is then a union of histories. For the
  register `Latest` adds that what it holds is one of the writes seen and older than none.
* **`ChannelHubProofs`**: `ChannelsAreFifo`, the refinement: the numbers in a queue increase and
  none is above the newest message accepted (`Increasing`), so that to drop the first messages of
  a queue is to give up everything up to some number; a send is then an `Accept`, a receive a
  `Deliver` or a `GiveUp`, and everything else a stutter. `StatsAlwaysAddUp` follows from the same
  invariant (`Good`), for capacity 0 too. `HubStaysBounded`: the property counts the threads
  between the check and the insertion with the names, without which it would not be inductive.
* **`TenantPoolProofs`**: `UsageDoesSettle`, `OvercommitIsBounded`, for any number of threads,
  tenants and quotas. Between two counters of an `acquire` or a drop neither holds by itself:
  `Account` says that each counter is what the leases weigh and what the threads half-way have
  added already or have still to subtract; `Room` says that a counter and the requests of the
  threads that have passed the comparison and not added yet stay within the limit and one
  request per other thread, which is the reason why racing acquires overshoot by no more. Both
  need `Working` (what a thread adds or takes back is what it compared, or its lease) and
  `Distinct` (a lease has one owner, and its id is used once).
* **`OrchestratorProofs`**: `TicketsAreAccounted` and `OvershootIsBounded`, for any number of
  submitters, schedulers, runners, tenants and tickets, any limits, priorities and width of
  `usize`. The accounts do not hold while a `submit` has queued its ticket and not inserted the
  item, nor while a pass has a ticket in hand, so `TicketInv` says where each thread is and which
  locks that means (`Locks`), what a pass holds (`Passing`, `Runs`), that a ticket which is queued
  and not yet an item belongs to the one thread that is inserting it (`Queues`), that none is
  queued twice (`Once`), and that the active tickets are those that run (`Actives`, `Counted`).
  `Runs` also is why `complete` cannot decrement `total_running` below zero.
  The overshoot is a fact about sums: between passes the deficits of all tenants together are at
  most a fraction of a slot per tenant (`Owed <= Rest`), and within a pass what was handed out,
  what is in hand and what is still owed stay within the slots computed at the start and that rest
  (`Credits`): the tenants' shares of the slots, rounded down each, do not exceed the
  slots. `Global` carries the number of running tickets along from the load of
  `total_running`, which with one scheduler only completions can change.
* **`FiniteSums`**: a sum over a finite set is the cardinality of a set of units, of which each
  element has as many as its weight. The theorems about cardinalities of unions, differences and products then
  say how a sum changes when one weight changes, when an element joins or leaves, and how
  sums of rounded quotients are bounded (`WeightAdd`, `WeightRemove`, `OneMoves`, `WeightPlus`, `Shares`).
* Type correctness is proved for all models: `Sandbox`, `Server`, `TenantPool`, `Orchestrator`,
  `EpochTicker` (any tick rate and number of workers), `ModuleCache`, `CircuitBreaker` (any number
  of threads), `RaftElection`, `KvReplication` and `ChannelHub`.

The side conditions are needed: overlapping calls of the breaker, split quorums and skewed clocks
of section 3 are counterexamples without them, and a second
scheduler that reads the same `total_running` is one for `OvershootBounded`. That no tenant was
ever suspended is what the proof of the latter uses, since a suspended tenant keeps its credits
while the others gather theirs; whether some larger instance exceeds the bound with it is open.

Every invariant and action property that a passing run checks is also proved. Model-checked only:
the liveness properties `RunReturns`, `StreamsConclude`, `RequestsAnswered`, `TimeoutEnforced`,
`CompileReturns`, `Recovers` and `ReturnsUnlessCrossed` (fairness and `ENABLED` are outside the
prover's reach), and the two violations.

## 5. Properties by hazard

`PROJECT.json` lists the hazards at their lines with the properties that cover them. Those of
components not modelled yet name the planned module.

## 6. Plan

In this order; each with its runs, mutants and, where given, a theorem.

1. `CheckoutPool` and `CowStore` (`core/snapshot/`): permits against slots; reference counts
   against snapshots that hold a page, with removal and insertion racing.
2. `RateLimiter` and `ResourceMeter`: several threads on one limiter or meter; bucket, quota,
   bandwidth, I/O limits, fuel limits adjusted while guests run.
3. `orchestrator/admission.rs` in front of `Orchestrator`; the quota hierarchy of `pool/hierarchy.rs`.
4. The RPC breaker (`core/rpc.rs`) as a second implementation of `CircuitMachine`; `WarmPool`
   with its background task.
5. Mesh membership and failover; `advance_commit` and `entries_to_apply`; work stealing.
6. Workflow levels (`execution_order`) as a pure algorithm against a reference definition; hot
   reload and its rollback.
7. A composition of `Sandbox` and `EpochTicker` that replaces the fairness of
   `GuestInterrupted` by the ticker's behaviour.
