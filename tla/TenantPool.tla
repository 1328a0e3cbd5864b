----------------------------- MODULE TenantPool -----------------------------
(***************************************************************************)
(* The multi-tenant resource pool of isolate-core/src/pool/{tenant,quota}.rs,*)
(* called by threads.  Every counter is an atomic of its own: acquire reads   *)
(* them one by one, compares, and adds to them one by one; dropping a lease   *)
(* subtracts one by one.  A tenant's counters live as long as its leases,     *)
(* also after the tenant was removed or registered anew.                      *)
(***************************************************************************)
EXTENDS Integers, Sequences, FiniteSets, FiniteSetsExt

CONSTANTS
  Thread,         \* callers
  Tenant,         \* tenant ids
  Sizes,          \* the values of memory_bytes
  MaxMemory,      \* max_memory of every quota
  Quotas,         \* the values of max_sandboxes; 0 also stands for a disabled tenant
  MaxRate,        \* max_rps and max_sandboxes_per_minute of every quota
  MaxTotalMemory, \* max_total_memory
  MaxTotal,       \* max_total_sandboxes
  MaxTenants,     \* max_tenants
  AllowUnknown,   \* allow_unknown_tenants
  MaxStates,      \* bound on the TenantStates created
  MaxAcquires,    \* bound on the calls of acquire
  None            \* no tenant

ASSUME PoolAssumption ==
  /\ IsFiniteSet(Thread) /\ Thread # {} /\ IsFiniteSet(Tenant) /\ None \notin Tenant
  /\ IsFiniteSet(Sizes) /\ Sizes # {} /\ Sizes \subseteq Nat
  /\ IsFiniteSet(Quotas) /\ Quotas # {} /\ Quotas \subseteq Nat
  /\ {MaxMemory, MaxRate, MaxTotalMemory, MaxTotal, MaxTenants, MaxStates,
      MaxAcquires} \subseteq Nat
  /\ AllowUnknown \in BOOLEAN

VARIABLES
  tenants,   \* tenants: the counters (by number) and max_sandboxes of each tenant
  usage,     \* AtomicResourceUsage of every TenantState; usage[0] is global_usage
  created,   \* number of TenantStates created
  pc,        \* pc[t]: the next step of thread t
  job,       \* job[t]: the arguments of its call, the counters it refers to and
             \* the position in the sequence of their accesses
  leases,    \* the leases that exist; id tells them apart
  acquires   \* number of calls of acquire

vars == << tenants, usage, created, pc, job, leases, acquires >>

NoUsage == [memory |-> 0, active |-> 0, rps |-> 0, minute |-> 0]
NoJob == [tenant |-> None, bytes |-> 0, state |-> 0, id |-> 0, at |-> 1]

Init ==
  /\ tenants = << >> /\ created = 0
  /\ usage = [s \in 0 .. MaxStates |-> NoUsage]
  /\ pc = [t \in Thread |-> "idle"]
  /\ job = [t \in Thread |-> NoJob]
  /\ leases = {} /\ acquires = 0

Goto(t, label, new) == pc' = [pc EXCEPT ![t] = label] /\ job' = [job EXCEPT ![t] = new]
Return(t) == Goto(t, "idle", NoJob)

\* The order in which acquire compares and adds to the counters of the tenant and
\* of the pool, and in which a lease that is dropped subtracts from them.
Own(counter) == [of |-> "tenant", counter |-> counter]
Total(counter) == [of |-> "pool", counter |-> counter]
Checks == << Own("memory"), Own("active"), Own("rps"), Own("minute"),
             Total("memory"), Total("active") >>
Reservations == << Own("memory"), Own("active"), Own("minute"), Own("rps"),
                   Total("memory"), Total("active") >>
\* Mutant: the memory of the pool is never given back.
ReleasesWithoutMemory == << Own("memory"), Own("active"), Total("active") >>
Releases == << Own("memory"), Own("active"), Total("memory"), Total("active") >>

\* acquire holds its reference into the map, which keeps the writers of that
\* entry out.
Held(n) == \E t \in Thread : pc[t] \in {"check", "reserve"} /\ job[t].tenant = n

-----------------------------------------------------------------------------
(* The tenants *)

\* register_tenant, also called by acquire, compares the number of tenants, ...
RegisterTenant(t, n) ==
  /\ pc[t] = "idle"
  /\ Goto(t, "len", [NoJob EXCEPT !.tenant = n])
  /\ UNCHANGED << tenants, usage, created, leases, acquires >>

RegisterLen(t) ==
  /\ pc[t] = "len"
  /\ IF Cardinality(DOMAIN tenants) < MaxTenants THEN Goto(t, "contains", job[t])
     ELSE Return(t)
  /\ UNCHANGED << tenants, usage, created, leases, acquires >>

\* ... looks the name up ...
RegisterContains(t) ==
  /\ pc[t] = "contains"
  /\ IF job[t].tenant \notin DOMAIN tenants THEN Goto(t, "insert", job[t]) ELSE Return(t)
  /\ UNCHANGED << tenants, usage, created, leases, acquires >>

\* ... and then inserts new counters, also when another thread has registered
\* the name since.  acquire goes on with the tenant it registered.
RegisterInsert(t) ==
  /\ pc[t] = "insert" /\ created < MaxStates
  /\ ~Held(job[t].tenant)
  /\ created' = created + 1
  /\ \E q \in Quotas :
       tenants' = [n \in DOMAIN tenants \union {job[t].tenant} |->
         IF n = job[t].tenant THEN [state |-> created + 1, max |-> q] ELSE tenants[n]]
  /\ IF job[t].id = 0 THEN Return(t) ELSE Goto(t, "get", job[t])
  /\ UNCHANGED << usage, leases, acquires >>

UpdateQuota(n) ==
  /\ n \in DOMAIN tenants /\ ~Held(n)
  /\ \E q \in Quotas : tenants' = [tenants EXCEPT ![n].max = q]
  /\ UNCHANGED << usage, created, pc, job, leases, acquires >>

\* Leases are not looked at.
RemoveTenant(n) ==
  /\ n \in DOMAIN tenants /\ ~Held(n)
  /\ tenants' = [m \in DOMAIN tenants \ {n} |-> tenants[m]]
  /\ UNCHANGED << usage, created, pc, job, leases, acquires >>

\* reset_rps_counters and reset_minute_counters, one tenant after the other.
Reset(n, counter) ==
  /\ n \in DOMAIN tenants
  /\ usage' = [usage EXCEPT ![tenants[n].state][counter] = 0]
  /\ UNCHANGED << tenants, created, pc, job, leases, acquires >>

-----------------------------------------------------------------------------
(* acquire *)

Acquire(t, n) ==
  \E bytes \in Sizes :
    LET call == [NoJob EXCEPT !.tenant = n, !.bytes = bytes, !.id = acquires + 1]
    IN  /\ pc[t] = "idle" /\ acquires < MaxAcquires
        /\ acquires' = acquires + 1
        /\ \/ /\ n \in DOMAIN tenants
              /\ Goto(t, "check", [call EXCEPT !.state = tenants[n].state])
           \/ n \notin DOMAIN tenants /\ AllowUnknown /\ Goto(t, "len", call)
        /\ UNCHANGED << tenants, usage, created, leases >>

\* The unwrap() panics when the tenant has been removed since it was registered.
GetRegistered(t) ==
  /\ pc[t] = "get"
  /\ LET n == job[t].tenant
     IN  IF n \in DOMAIN tenants
         THEN Goto(t, "check", [job[t] EXCEPT !.state = tenants[n].state])
         ELSE Goto(t, "panicked", NoJob)
  /\ UNCHANGED << tenants, usage, created, leases, acquires >>

\* Mutant: a tenant at its limit passes.
PassesAtLimit(t, c) ==
  LET own == usage[job[t].state]
      total == usage[0]
  IN  CASE c = Own("memory")   -> own.memory <= MaxMemory
        [] c = Own("active")   -> own.active <= tenants[job[t].tenant].max
        [] c = Total("memory") -> total.memory + job[t].bytes <= MaxTotalMemory
        [] c = Total("active") -> total.active < MaxTotal
        [] OTHER               -> TRUE

\* Does the counter let the request pass?  The tenant's own memory is compared
\* before the request is added, the pool's after.
Passes(t, c) ==
  LET own == usage[job[t].state]
      total == usage[0]
  IN  CASE c = Own("memory")   -> own.memory <= MaxMemory
        [] c = Own("active")   -> own.active < tenants[job[t].tenant].max
        [] c = Own("rps")      -> own.rps < MaxRate
        [] c = Own("minute")   -> own.minute < MaxRate
        [] c = Total("memory") -> total.memory + job[t].bytes <= MaxTotalMemory
        [] c = Total("active") -> total.active < MaxTotal

\* exceeds_quota and the limits of the pool, one load after the other.
Check(t) ==
  LET j == job[t]
  IN  /\ pc[t] = "check"
      /\ IF ~Passes(t, Checks[j.at]) THEN Return(t)
         ELSE IF j.at = Len(Checks) THEN Goto(t, "reserve", [j EXCEPT !.at = 1])
         ELSE Goto(t, "check", [j EXCEPT !.at = @ + 1])
      /\ UNCHANGED << tenants, usage, created, leases, acquires >>

\* fetch_add or fetch_sub on counter c: bytes of memory, or one of anything else.
Amount(t, c) == IF c.counter = "memory" THEN job[t].bytes ELSE 1
Bump(t, c, delta) ==
  usage' = [usage EXCEPT ![IF c.of = "pool" THEN 0 ELSE job[t].state][c.counter] = @ + delta]

\* The reservations, one after the other, and then the lease.
Reserve(t) ==
  LET j == job[t]
      c == Reservations[j.at]
  IN  /\ pc[t] = "reserve"
      /\ Bump(t, c, Amount(t, c))
      /\ IF j.at < Len(Reservations)
         THEN Goto(t, "reserve", [j EXCEPT !.at = @ + 1]) /\ UNCHANGED leases
         ELSE /\ leases' = leases \union {[id |-> j.id, state |-> j.state, bytes |-> j.bytes]}
              /\ Return(t)
      /\ UNCHANGED << tenants, created, acquires >>

\* Mutant: what is given back goes to the tenant's counters of today.
DropByName(t, l) ==
  /\ pc[t] = "idle" /\ DOMAIN tenants # {}
  /\ leases' = leases \ {l}
  /\ \E n \in DOMAIN tenants :
       Goto(t, "release", [NoJob EXCEPT !.id = l.id, !.bytes = l.bytes,
                                        !.state = tenants[n].state])
  /\ UNCHANGED << tenants, usage, created, acquires >>

\* A lease goes out of scope.
Drop(t, l) ==
  /\ pc[t] = "idle"
  /\ leases' = leases \ {l}
  /\ Goto(t, "release", [NoJob EXCEPT !.id = l.id, !.state = l.state, !.bytes = l.bytes])
  /\ UNCHANGED << tenants, usage, created, acquires >>

Release(t) ==
  LET j == job[t]
      c == Releases[j.at]
  IN  /\ pc[t] = "release"
      /\ Bump(t, c, -Amount(t, c))
      /\ IF j.at < Len(Releases) THEN Goto(t, "release", [j EXCEPT !.at = @ + 1])
         ELSE Return(t)
      /\ UNCHANGED << tenants, created, leases, acquires >>

-----------------------------------------------------------------------------
Step(t) == \/ \E n \in Tenant : RegisterTenant(t, n) \/ Acquire(t, n)
           \/ RegisterLen(t) \/ RegisterContains(t) \/ RegisterInsert(t)
           \/ GetRegistered(t)
           \/ Check(t) \/ Reserve(t) \/ Release(t)
           \/ \E l \in leases : Drop(t, l)

Next == \/ \E t \in Thread : Step(t)
        \/ \E n \in Tenant : \/ UpdateQuota(n) \/ RemoveTenant(n)
                             \/ Reset(n, "rps") \/ Reset(n, "minute")

Spec == Init /\ [][Next]_vars

-----------------------------------------------------------------------------
PCs == {"idle", "len", "contains", "insert", "get", "check", "reserve",
        "release", "panicked"}

\* The counters are unsigned: none is ever taken below zero.
TypeOK ==
  /\ DOMAIN tenants \subseteq Tenant
  /\ \A n \in DOMAIN tenants : tenants[n] \in [state : 1 .. created, max : Quotas]
  /\ usage \in [0 .. MaxStates -> [DOMAIN NoUsage -> Nat]]
  /\ created \in 0 .. MaxStates /\ acquires \in 0 .. MaxAcquires
  /\ pc \in [Thread -> PCs]
  /\ job \in [Thread -> [tenant : Tenant \union {None}, bytes : Sizes \union {0},
                         state : 0 .. MaxStates, id : 0 .. MaxAcquires, at : 1 .. 6]]
  /\ leases \subseteq [id : 1 .. MaxAcquires, state : 1 .. MaxStates, bytes : Sizes]

-----------------------------------------------------------------------------
(* Properties *)

LeasesOf(s) == IF s = 0 THEN leases ELSE {l \in leases : l.state = s}

\* The bytes of a set of leases, one by one.
BytesOf(L) == UNION {{l} \X (1 .. l.bytes) : l \in L}

\* Whenever no acquire and no drop is between two of its counters, every
\* TenantState and the pool count exactly the leases that exist, whatever was
\* removed, registered anew or refused half-way since: nothing leaks and nothing
\* is released twice or to the wrong tenant.
UsageSettles ==
  (\A t \in Thread : pc[t] \notin {"reserve", "release"}) =>
    \A s \in 0 .. MaxStates :
      /\ usage[s].active = Cardinality(LeasesOf(s))
      /\ usage[s].memory = Cardinality(BytesOf(LeasesOf(s)))

\* The limits are compared before the counters are raised, so threads that
\* compare together exceed them: by less than one request per thread, and a
\* tenant's memory, which is compared without the request, by one per thread.
OvercommitBounded ==
  LET others == Cardinality(Thread) - 1
  IN  /\ usage[0].active <= MaxTotal + others
      /\ usage[0].memory <= MaxTotalMemory + others * Max(Sizes)
      /\ \A s \in 1 .. MaxStates :
           /\ usage[s].active <= Max(Quotas) + others
           /\ usage[s].memory <= MaxMemory + (others + 1) * Max(Sizes)
=============================================================================
