-------------------------- MODULE TenantPoolProofs --------------------------
(***************************************************************************)
(* For any number of threads, tenants, sizes and limits: the counters of a  *)
(* tenant and of the pool are the leases that exist plus the acquires and    *)
(* drops that are half-way, so they settle and never go below zero, and they *)
(* exceed a limit by less than one request per thread.                       *)
(***************************************************************************)
EXTENDS TenantPool, FiniteSums

-----------------------------------------------------------------------------
(* The inductive invariant *)

Counters == {"memory", "active", "rps", "minute"}
Limited == {"memory", "active"}
Lease == [id : 1 .. MaxAcquires, state : 1 .. MaxStates, bytes : Sizes]
Call == [tenant : Tenant \union {None}, bytes : Sizes \union {0},
         state : 0 .. MaxStates, id : 0 .. MaxAcquires, at : 1 .. 6]
Acquiring == {"len", "contains", "insert", "get", "check", "reserve"}

\* The types, with the counters that are subtracted from left to Account.
Typed ==
  /\ DOMAIN tenants \subseteq Tenant
  /\ \A n \in DOMAIN tenants : tenants[n] \in [state : 1 .. created, max : Quotas]
  /\ usage \in [0 .. MaxStates -> [Counters -> Int]]
  /\ \A s \in 0 .. MaxStates : usage[s]["rps"] >= 0 /\ usage[s]["minute"] >= 0
  /\ created \in 0 .. MaxStates /\ acquires \in 0 .. MaxAcquires
  /\ pc \in [Thread -> PCs]
  /\ job \in [Thread -> Call]
  /\ leases \subseteq Lease /\ IsFiniteSet(leases)

\* What a thread that compares, adds or subtracts works on.
Works(t) ==
  /\ pc[t] \in {"check", "reserve", "release"} =>
       job[t].state \in 1 .. MaxStates /\ job[t].bytes \in Sizes
  /\ pc[t] \in {"check", "reserve"} => job[t].tenant \in DOMAIN tenants
  /\ pc[t] \in {"len", "contains", "insert", "get"} =>
       job[t].tenant \in Tenant /\ job[t].at = 1 /\ (job[t].id # 0 => job[t].bytes \in Sizes)
  /\ pc[t] \in {"get", "check", "reserve"} => job[t].id # 0
  /\ pc[t] = "release" => job[t].at <= 4
Working == \A t \in Thread : Works(t)

\* A lease that is about to be made is not one that exists.
Distinct ==
  /\ \A t \in Thread : job[t].id <= acquires
  /\ \A t, u \in Thread : pc[t] \in Acquiring /\ pc[u] \in Acquiring /\ t # u /\ job[t].id # 0
                            => job[t].id # job[u].id
  /\ \A l \in leases : l.id <= acquires
  /\ \A l \in leases, t \in Thread : pc[t] \in Acquiring => l.id # job[t].id

\* The position at which acquire compares counter k of s, the one at which it
\* adds to it and the one at which a drop subtracts from it.
CheckAt(s, k) == IF s = 0 THEN IF k = "memory" THEN 5 ELSE 6 ELSE IF k = "memory" THEN 1 ELSE 2
ReserveAt(s, k) == CheckAt(s, k)
ReleaseAt(s, k) == IF s = 0 THEN IF k = "memory" THEN 3 ELSE 4 ELSE IF k = "memory" THEN 1 ELSE 2

\* Does the call of thread t count in s, does it count now without its lease, and
\* has it passed the comparison without having added yet?
Concerns(t, s) == s = 0 \/ job[t].state = s
Counts(t, s, k) ==
  /\ Concerns(t, s)
  /\ \/ pc[t] = "reserve" /\ ReserveAt(s, k) < job[t].at
     \/ pc[t] = "release" /\ job[t].at <= ReleaseAt(s, k)
Passed(t, s, k) ==
  /\ Concerns(t, s)
  /\ \/ pc[t] = "check" /\ CheckAt(s, k) < job[t].at
     \/ pc[t] = "reserve" /\ job[t].at <= ReserveAt(s, k)
Counting(s, k) == {t \in Thread : Counts(t, s, k)}
Passing(s, k) == {t \in Thread : Passed(t, s, k)}

\* What a lease and a call weigh in counter k.
LeaseCost(k) == [l \in Lease |-> IF k = "memory" THEN l.bytes ELSE 1]
CostOf(calls, k) == [t \in Thread |-> IF k = "memory" THEN calls[t].bytes ELSE 1]
Cost(k) == CostOf(job, k)
MaxCost(k) == IF k = "memory" THEN Max(Sizes) ELSE 1

\* A counter is the leases plus the calls that are half-way.
Account ==
  \A s \in 0 .. MaxStates, k \in Limited :
    usage[s][k] = Weight(LeasesOf(s), LeaseCost(k)) + Weight(Counting(s, k), Cost(k))

\* A counter and what may be added to it without another comparison.
Limit(s, k) ==
  IF s = 0 THEN IF k = "memory" THEN MaxTotalMemory ELSE MaxTotal
  ELSE IF k = "memory" THEN MaxMemory + Max(Sizes) ELSE Max(Quotas)
Room ==
  \A s \in 0 .. MaxStates, k \in Limited :
    usage[s][k] + Weight(Passing(s, k), Cost(k))
      <= Limit(s, k) + (Cardinality(Thread) - 1) * MaxCost(k)

PoolInv == Typed /\ Working /\ Distinct /\ Account /\ Room

-----------------------------------------------------------------------------
(* Calls and counters *)

LEMMA Bounds ==
  /\ Max(Sizes) \in Nat /\ \A b \in Sizes : b \in 0 .. Max(Sizes)
  /\ Max(Quotas) \in Nat /\ \A q \in Quotas : q \in Nat /\ q <= Max(Quotas)
  /\ Cardinality(Thread) \in Nat /\ Cardinality(Thread) >= 1
  /\ MaxMemory \in Nat /\ MaxTotalMemory \in Nat /\ MaxTotal \in Nat
  /\ MaxStates \in Nat /\ MaxAcquires \in Nat
<1>1. /\ Max(Sizes) \in Sizes /\ \A b \in Sizes : b <= Max(Sizes)
      /\ Max(Quotas) \in Quotas /\ \A q \in Quotas : q <= Max(Quotas)
  BY PoolAssumption, MaxExists
<1>2. Cardinality(Thread) \in Nat /\ Cardinality(Thread) # 0
  BY PoolAssumption, FS_CardinalityType, FS_EmptySet
<1>3. Sizes \subseteq Nat /\ Quotas \subseteq Nat
  BY PoolAssumption
<1>4. /\ MaxMemory \in Nat /\ MaxTotalMemory \in Nat /\ MaxTotal \in Nat
      /\ MaxStates \in Nat /\ MaxAcquires \in Nat
  BY PoolAssumption
<1>5. \A m, b \in Nat : b <= m => b \in 0 .. m
  OBVIOUS
<1>6. Cardinality(Thread) >= 1
  BY <1>2
<1>7. /\ Max(Sizes) \in Nat /\ Max(Quotas) \in Nat
      /\ \A b \in Sizes : b \in Nat
      /\ \A q \in Quotas : q \in Nat
  BY <1>1, <1>3
<1> QED
  BY <1>1, <1>2, <1>4, <1>5, <1>6, <1>7, Zenon

\* The calls that the actions make, one field after the other.
Fields(n, b, s, i, a) == [tenant |-> n, bytes |-> b, state |-> s, id |-> i, at |-> a]

LEMMA CallsAre ==
  ASSUME NEW n, NEW b, NEW i
  PROVE  /\ NoJob = Fields(None, 0, 0, 0, 1)
         /\ [NoJob EXCEPT !.tenant = n] = Fields(n, 0, 0, 0, 1)
         /\ [NoJob EXCEPT !.tenant = n, !.bytes = b, !.id = i] = Fields(n, b, 0, i, 1)
<1>1. NoJob = Fields(None, 0, 0, 0, 1)
  BY DEF NoJob, Fields
<1>2. [NoJob EXCEPT !.tenant = n] = Fields(n, 0, 0, 0, 1)
  BY <1>1 DEF Fields
<1>3. [NoJob EXCEPT !.tenant = n, !.bytes = b, !.id = i] = Fields(n, b, 0, i, 1)
  <2>1. [NoJob EXCEPT !.tenant = n, !.bytes = b, !.id = i] =
          [[[NoJob EXCEPT !.tenant = n] EXCEPT !.bytes = b] EXCEPT !.id = i]
    OBVIOUS
  <2>2. [Fields(n, 0, 0, 0, 1) EXCEPT !.bytes = b] = Fields(n, b, 0, 0, 1)
    BY DEF Fields
  <2>3. [Fields(n, b, 0, 0, 1) EXCEPT !.id = i] = Fields(n, b, 0, i, 1)
    BY DEF Fields
  <2> QED
    BY <1>2, <2>1, <2>2, <2>3
<1> QED
  BY <1>1, <1>2, <1>3, Zenon

LEMMA DropIs ==
  ASSUME NEW b, NEW i, NEW s
  PROVE  [NoJob EXCEPT !.id = i, !.state = s, !.bytes = b] = Fields(None, b, s, i, 1)
<1>1. NoJob = Fields(None, 0, 0, 0, 1)
  BY CallsAre
<1>2. [NoJob EXCEPT !.id = i, !.state = s, !.bytes = b] =
        [[[NoJob EXCEPT !.id = i] EXCEPT !.state = s] EXCEPT !.bytes = b]
  OBVIOUS
<1>3. [NoJob EXCEPT !.id = i] = Fields(None, 0, 0, i, 1)
  BY <1>1 DEF Fields
<1>4. [Fields(None, 0, 0, i, 1) EXCEPT !.state = s] = Fields(None, 0, s, i, 1)
  BY DEF Fields
<1>5. [Fields(None, 0, s, i, 1) EXCEPT !.bytes = b] = Fields(None, b, s, i, 1)
  BY DEF Fields
<1> QED
  BY <1>2, <1>3, <1>4, <1>5

LEMMA CallsMove ==
  ASSUME NEW j \in Call, NEW s, NEW a
  PROVE  /\ [j EXCEPT !.state = s] = Fields(j.tenant, j.bytes, s, j.id, j.at)
         /\ [j EXCEPT !.at = a] = Fields(j.tenant, j.bytes, j.state, j.id, a)
<1>1. j = Fields(j.tenant, j.bytes, j.state, j.id, j.at)
  BY DEF Call, Fields
<1>2. PICK n, b, z, i, p : j = Fields(n, b, z, i, p)
  BY <1>1
<1>3. j.tenant = n /\ j.bytes = b /\ j.state = z /\ j.id = i /\ j.at = p
  BY <1>2 DEF Fields
<1>4. [j EXCEPT !.state = s] = Fields(n, b, s, i, p)
  BY <1>2 DEF Fields
<1>5. [j EXCEPT !.at = a] = Fields(n, b, z, i, a)
  BY <1>2 DEF Fields
<1> QED
  BY <1>3, <1>4, <1>5

\* Where a counter is in the sequences.
LEMMA Positions ==
  /\ Len(Checks) = 6 /\ Len(Reservations) = 6 /\ Len(Releases) = 4
  /\ \A p \in 1 .. 6 : /\ Reservations[p].counter \in Counters
                       /\ \A s \in 0 .. MaxStates, k \in Limited :
                            p = ReserveAt(s, k) <=>
                              Reservations[p].counter = k /\ (Reservations[p].of = "pool" <=> s = 0)
  /\ \A p \in 1 .. 4 : /\ Releases[p].counter \in Limited
                       /\ \A s \in 0 .. MaxStates, k \in Limited :
                            p = ReleaseAt(s, k) <=>
                              Releases[p].counter = k /\ (Releases[p].of = "pool" <=> s = 0)
<1> USE DEF Own, Total, CheckAt, ReserveAt, ReleaseAt, Counters, Limited
<1>1. Len(Checks) = 6 /\ Len(Reservations) = 6 /\ Len(Releases) = 4
  BY DEF Checks, Reservations, Releases
<1>2. ASSUME NEW p \in 1 .. 6 
      PROVE  /\ Reservations[p].counter \in Counters
             /\ \A s \in 0 .. MaxStates, k \in Limited :
                  p = ReserveAt(s, k) <=>
                    Reservations[p].counter = k /\ (Reservations[p].of = "pool" <=> s = 0)
  <2>1. p = 1 \/ p = 2 \/ p = 3 \/ p = 4 \/ p = 5 \/ p = 6
    OBVIOUS
  <2> QED
    BY <2>1 DEF Reservations
<1>3. ASSUME NEW p \in 1 .. 4
      PROVE  /\ Releases[p].counter \in Limited
             /\ \A s \in 0 .. MaxStates, k \in Limited :
                  p = ReleaseAt(s, k) <=>
                    Releases[p].counter = k /\ (Releases[p].of = "pool" <=> s = 0)
  <2>1. p = 1 \/ p = 2 \/ p = 3 \/ p = 4
    OBVIOUS
  <2> QED
    BY <2>1 DEF Releases
<1> QED
  BY <1>1, <1>2, <1>3

\* One counter changes.
LEMMA Bumps ==
  ASSUME Typed, NEW t \in Thread, job[t].state \in 1 .. MaxStates,
         NEW c, c.counter \in Counters, NEW delta \in Int, Bump(t, c, delta)
  PROVE  /\ usage' \in [0 .. MaxStates -> [Counters -> Int]]
         /\ \A s \in 0 .. MaxStates, k \in Counters :
              usage'[s][k] =
                IF k = c.counter /\ (c.of = "pool" <=> s = 0) /\ Concerns(t, s)
                THEN usage[s][k] + delta ELSE usage[s][k]
<1> DEFINE z == IF c.of = "pool" THEN 0 ELSE job[t].state
           kk == c.counter
<1>1. z \in 0 .. MaxStates /\ kk \in Counters
  BY Bounds
<1>2. usage' = [usage EXCEPT ![z][kk] = @ + delta]
  BY DEF Bump
<1>3. usage \in [0 .. MaxStates -> [Counters -> Int]]
  BY DEF Typed
<1>4. \A s \in 0 .. MaxStates : s = z <=> (c.of = "pool" <=> s = 0) /\ Concerns(t, s)
  BY Bounds DEF Concerns
<1> HIDE DEF z, kk
<1>5. usage' \in [0 .. MaxStates -> [Counters -> Int]]
  BY <1>1, <1>2, <1>3
<1>6. \A s \in 0 .. MaxStates, k \in Counters :
        usage'[s][k] = IF s = z /\ k = kk THEN usage[s][k] + delta ELSE usage[s][k]
  BY <1>1, <1>2, <1>3
<1> QED
  BY <1>4, <1>5, <1>6 DEF kk

-----------------------------------------------------------------------------
(* Types, and what a thread works on *)

LEMMA FieldsAre ==
  ASSUME NEW n, NEW b, NEW s, NEW i, NEW a
  PROVE  /\ Fields(n, b, s, i, a).tenant = n /\ Fields(n, b, s, i, a).bytes = b
         /\ Fields(n, b, s, i, a).state = s /\ Fields(n, b, s, i, a).id = i
         /\ Fields(n, b, s, i, a).at = a
         /\ (/\ n \in Tenant \union {None} /\ b \in Sizes \union {0}
             /\ s \in 0 .. MaxStates /\ i \in 0 .. MaxAcquires /\ a \in 1 .. 6)
              => Fields(n, b, s, i, a) \in Call
BY DEF Fields, Call

LEMMA NoCall ==
  NoJob \in Call
<1>1. 0 \in 0 .. MaxStates /\ 0 \in 0 .. MaxAcquires
  BY Bounds
<1> QED
  BY <1>1 DEF NoJob, Call

\* A thread goes to its next step.
LEMMA Goes ==
  ASSUME Typed, NEW t \in Thread, NEW label \in PCs, NEW new \in Call, Goto(t, label, new)
  PROVE  /\ pc' \in [Thread -> PCs] /\ job' \in [Thread -> Call]
         /\ pc'[t] = label /\ job'[t] = new
         /\ \A u \in Thread : u # t => pc'[u] = pc[u] /\ job'[u] = job[u]
BY DEF Goto, Typed

LEMMA Returns ==
  ASSUME Typed, NEW t \in Thread, Return(t)
  PROVE  /\ pc' \in [Thread -> PCs] /\ job' \in [Thread -> Call]
         /\ pc'[t] = "idle" /\ job'[t] = NoJob
         /\ \A u \in Thread : u # t => pc'[u] = pc[u] /\ job'[u] = job[u]
<1>1. NoJob \in Call
  BY NoCall
<1>2. "idle" \in PCs /\ Goto(t, "idle", NoJob)
  BY DEF PCs, Return
<1> QED
  BY <1>1, <1>2, Goes

\* What the step of thread t does to the calls: label and new are where it goes.
Moves(t, label, new) ==
  /\ pc' \in [Thread -> PCs] /\ job' \in [Thread -> Call]
  /\ pc'[t] = label /\ job'[t] = new
  /\ \A u \in Thread : u # t => pc'[u] = pc[u] /\ job'[u] = job[u]

LEMMA RegisterMoves ==
  ASSUME Typed, Working, NEW t \in Thread
  PROVE  /\ \A n \in Tenant : RegisterTenant(t, n) => Moves(t, "len", Fields(n, 0, 0, 0, 1))
         /\ RegisterLen(t) => Moves(t, "idle", NoJob) \/ Moves(t, "contains", job[t])
         /\ RegisterContains(t) => Moves(t, "idle", NoJob) \/ Moves(t, "insert", job[t])
         /\ RegisterInsert(t) => \/ Moves(t, "idle", NoJob)
                                 \/ job[t].id # 0 /\ Moves(t, "get", job[t])
<1>1. {"len", "contains", "insert", "get", "idle"} \subseteq PCs
  BY DEF PCs
<1>2. job[t] \in Call
  BY DEF Typed
<1>3. ASSUME NEW label \in PCs, NEW new \in Call PROVE Goto(t, label, new) => Moves(t, label, new)
  BY Goes DEF Moves
<1>4. Return(t) => Moves(t, "idle", NoJob)
  BY Returns DEF Moves
<1> USE <1>1, <1>2, <1>3, <1>4
<1>5. ASSUME NEW n \in Tenant, RegisterTenant(t, n)
      PROVE  Moves(t, "len", Fields(n, 0, 0, 0, 1))
  <2>1. Fields(n, 0, 0, 0, 1) \in Call
    BY FieldsAre, Bounds
  <2>2. [NoJob EXCEPT !.tenant = n] = Fields(n, 0, 0, 0, 1)
    BY CallsAre
  <2> QED
    BY <1>5, <2>1, <2>2 DEF RegisterTenant
<1>6. RegisterLen(t) => Moves(t, "idle", NoJob) \/ Moves(t, "contains", job[t])
  BY DEF RegisterLen
<1>7. RegisterContains(t) => Moves(t, "idle", NoJob) \/ Moves(t, "insert", job[t])
  BY DEF RegisterContains
<1>8. RegisterInsert(t) => \/ Moves(t, "idle", NoJob)
                           \/ job[t].id # 0 /\ Moves(t, "get", job[t])
  BY DEF RegisterInsert
<1> QED
  BY <1>5, <1>6, <1>7, <1>8

LEMMA AcquireMoves ==
  ASSUME Typed, Working, NEW t \in Thread
  PROVE  /\ \A n \in Tenant : Acquire(t, n) =>
              \E b \in Sizes :
                \/ Moves(t, "len", Fields(n, b, 0, acquires + 1, 1))
                \/ /\ n \in DOMAIN tenants
                   /\ Moves(t, "check", Fields(n, b, tenants[n].state, acquires + 1, 1))
         /\ GetRegistered(t) =>
              \/ Moves(t, "panicked", NoJob)
              \/ /\ job[t].tenant \in DOMAIN tenants
                 /\ Moves(t, "check", Fields(job[t].tenant, job[t].bytes,
                                             tenants[job[t].tenant].state, job[t].id, job[t].at))
<1>1. {"len", "check", "panicked"} \subseteq PCs
  BY DEF PCs
<1>4. ASSUME NEW label \in PCs, NEW new \in Call PROVE Goto(t, label, new) => Moves(t, label, new)
  BY Goes DEF Moves
<1>5. \A m \in DOMAIN tenants : tenants[m].state \in 0 .. MaxStates
  BY Bounds DEF Typed
<1>6. ASSUME NEW n \in Tenant, Acquire(t, n)
      PROVE  \E b \in Sizes :
              \/ Moves(t, "len", Fields(n, b, 0, acquires + 1, 1))
              \/ /\ n \in DOMAIN tenants
                 /\ Moves(t, "check", Fields(n, b, tenants[n].state, acquires + 1, 1))
  <2>1. PICK b \in Sizes :
          LET call == [NoJob EXCEPT !.tenant = n, !.bytes = b, !.id = acquires + 1]
          IN  /\ acquires < MaxAcquires
              /\ \/ /\ n \in DOMAIN tenants
                    /\ Goto(t, "check", [call EXCEPT !.state = tenants[n].state])
                 \/ Goto(t, "len", call)
    BY <1>6 DEF Acquire
  <2> DEFINE new == Fields(n, b, 0, acquires + 1, 1)
  <2>2. [NoJob EXCEPT !.tenant = n, !.bytes = b, !.id = acquires + 1] = new
    BY CallsAre
  <2>3. acquires + 1 \in 0 .. MaxAcquires
    BY <2>1, Bounds DEF Typed
  <2>4. new \in Call
    BY <2>3, FieldsAre, Bounds
  <2>5. \A s : [new EXCEPT !.state = s] = Fields(n, b, s, acquires + 1, 1)
    BY DEF Fields
  <2>6. \A s \in 0 .. MaxStates : Fields(n, b, s, acquires + 1, 1) \in Call
    BY <2>3, FieldsAre, Bounds
  <2> HIDE DEF new
  <2>7. \/ n \in DOMAIN tenants /\ Goto(t, "check", [new EXCEPT !.state = tenants[n].state])
        \/ Goto(t, "len", new)
    BY <2>1, <2>2
  <2>8. \/ n \in DOMAIN tenants /\ Goto(t, "check", Fields(n, b, tenants[n].state, acquires + 1, 1))
        \/ Goto(t, "len", new)
    BY <2>5, <2>7
  <2> QED
    BY <1>1, <1>4, <1>5, <2>4, <2>6, <2>8 DEF new
<1>7. ASSUME GetRegistered(t)
      PROVE  \/ Moves(t, "panicked", NoJob)
             \/ /\ job[t].tenant \in DOMAIN tenants
                /\ Moves(t, "check", Fields(job[t].tenant, job[t].bytes,
                                            tenants[job[t].tenant].state, job[t].id, job[t].at))
  <2> DEFINE j == job[t]
             z == tenants[job[t].tenant].state
  <2>1. \/ j.tenant \in DOMAIN tenants /\ Goto(t, "check", [j EXCEPT !.state = z])
        \/ Goto(t, "panicked", NoJob)
    BY <1>7 DEF GetRegistered
  <2>2. NoJob \in Call /\ j \in Call
    BY NoCall DEF Typed
  <2>3. [j EXCEPT !.state = z] = Fields(j.tenant, j.bytes, z, j.id, j.at)
    BY <2>2, CallsMove
  <2>4. j.tenant \in DOMAIN tenants => Fields(j.tenant, j.bytes, z, j.id, j.at) \in Call
    BY <1>5, <2>2, FieldsAre DEF Call
  <2> HIDE DEF j, z
  <2>5. \/ Moves(t, "panicked", NoJob)
        \/ j.tenant \in DOMAIN tenants /\ Moves(t, "check", Fields(j.tenant, j.bytes, z, j.id, j.at))
    BY <1>1, <1>4, <2>1, <2>2, <2>3, <2>4
  <2> QED
    BY <2>5 DEF j, z
<1> QED
  BY <1>6, <1>7

LEMMA WorkMoves ==
  ASSUME Typed, Working, NEW t \in Thread
  PROVE  /\ Check(t) =>
              \/ Moves(t, "idle", NoJob)
              \/ /\ Passes(t, Checks[job[t].at])
                 /\ \/ /\ job[t].at = 6
                       /\ Moves(t, "reserve", Fields(job[t].tenant, job[t].bytes,
                                                     job[t].state, job[t].id, 1))
                    \/ /\ job[t].at < 6
                       /\ Moves(t, "check", Fields(job[t].tenant, job[t].bytes,
                                                   job[t].state, job[t].id, job[t].at + 1))
         /\ Reserve(t) =>
              \/ /\ job[t].at = 6 /\ Moves(t, "idle", NoJob)
                 /\ leases' = leases \union {[id |-> job[t].id, state |-> job[t].state,
                                              bytes |-> job[t].bytes]}
              \/ /\ job[t].at < 6 /\ leases' = leases
                 /\ Moves(t, "reserve", Fields(job[t].tenant, job[t].bytes,
                                               job[t].state, job[t].id, job[t].at + 1))
         /\ Release(t) =>
              \/ job[t].at = 4 /\ Moves(t, "idle", NoJob)
              \/ /\ job[t].at < 4
                 /\ Moves(t, "release", Fields(job[t].tenant, job[t].bytes,
                                               job[t].state, job[t].id, job[t].at + 1))
         /\ \A l \in leases :
              Drop(t, l) => Moves(t, "release", Fields(None, l.bytes, l.state, l.id, 1))
<1>1. {"check", "reserve", "release"} \subseteq PCs
  BY DEF PCs
<1>2. ASSUME NEW label \in PCs, NEW new \in Call PROVE Goto(t, label, new) => Moves(t, label, new)
  BY Goes DEF Moves
<1>3. Return(t) => Moves(t, "idle", NoJob)
  BY Returns DEF Moves
<1> DEFINE j == job[t]
           p == job[t].at
           To(a) == Fields(j.tenant, j.bytes, j.state, j.id, a)
<1>4. j \in Call /\ p = j.at /\ p \in 1 .. 6
  BY DEF Typed, Call
<1>5. \A a : [j EXCEPT !.at = a] = To(a)
  BY <1>4, CallsMove
<1>6. \A a \in 1 .. 6 : To(a) \in Call
  BY <1>4, FieldsAre DEF Call
<1>7. p < 6 => p + 1 \in 1 .. 6
  BY <1>4
<1>8. Check(t) => \/ Return(t)
                  \/ Passes(t, Checks[p]) /\ \/ p = 6 /\ Goto(t, "reserve", To(1))
                                             \/ p < 6 /\ Goto(t, "check", To(p + 1))
  <2> HIDE DEF To
  <2> QED
    BY <1>4, <1>5, Positions DEF Check
<1>9. Reserve(t) => \/ p = 6 /\ Return(t) /\ leases' = leases \union
                         {[id |-> j.id, state |-> j.state, bytes |-> j.bytes]}
                    \/ p < 6 /\ Goto(t, "reserve", To(p + 1)) /\ leases' = leases
  <2> HIDE DEF To
  <2> QED
    BY <1>4, <1>5, Positions DEF Reserve
<1>10. Release(t) => \/ p = 4 /\ Return(t)
                     \/ p < 4 /\ Goto(t, "release", To(p + 1))
  <2>1. pc[t] = "release" => p <= 4
    BY DEF Working, Works
  <2> HIDE DEF To
  <2> QED
    BY <1>4, <1>5, <2>1, Positions DEF Release
<1>11. ASSUME NEW l \in leases, Drop(t, l)
       PROVE  Moves(t, "release", Fields(None, l.bytes, l.state, l.id, 1))
  <2>1. l \in Lease
    BY DEF Typed
  <2>2. Fields(None, l.bytes, l.state, l.id, 1) \in Call
    BY <2>1, FieldsAre, Bounds DEF Lease
  <2>3. Goto(t, "release", [NoJob EXCEPT !.id = l.id, !.state = l.state, !.bytes = l.bytes])
    BY <1>11 DEF Drop
  <2>4. Goto(t, "release", Fields(None, l.bytes, l.state, l.id, 1))
    <3>1. [NoJob EXCEPT !.id = l.id, !.state = l.state, !.bytes = l.bytes] =
            Fields(None, l.bytes, l.state, l.id, 1)
      BY DropIs
    <3> QED
      BY <2>3, <3>1
  <2> QED
    BY <1>1, <1>2, <2>2, <2>4
<1> HIDE DEF j, p, To
<1>12. Check(t) => \/ Moves(t, "idle", NoJob)
                   \/ Passes(t, Checks[p]) /\ \/ p = 6 /\ Moves(t, "reserve", To(1))
                                              \/ p < 6 /\ Moves(t, "check", To(p + 1))
  BY <1>1, <1>2, <1>3, <1>4, <1>6, <1>7, <1>8
<1>13. Reserve(t) => \/ p = 6 /\ Moves(t, "idle", NoJob) /\ leases' = leases \union
                          {[id |-> j.id, state |-> j.state, bytes |-> j.bytes]}
                     \/ p < 6 /\ Moves(t, "reserve", To(p + 1)) /\ leases' = leases
  BY <1>1, <1>2, <1>3, <1>4, <1>6, <1>7, <1>9
<1>14. Release(t) => \/ p = 4 /\ Moves(t, "idle", NoJob)
                     \/ p < 4 /\ Moves(t, "release", To(p + 1))
  BY <1>1, <1>2, <1>3, <1>4, <1>6, <1>7, <1>10
<1> QED
  BY <1>11, <1>12, <1>13, <1>14 DEF j, p, To

\* Resets concern the other two counters only.
LEMMA Resets ==
  ASSUME Typed, NEW n \in DOMAIN tenants, NEW k \in {"rps", "minute"}, Reset(n, k)
  PROVE  /\ usage' \in [0 .. MaxStates -> [Counters -> Int]]
         /\ \A s \in 0 .. MaxStates : /\ usage'[s]["rps"] >= 0 /\ usage'[s]["minute"] >= 0
                                      /\ \A h \in Limited : usage'[s][h] = usage[s][h]
<1> DEFINE z == tenants[n].state
<1>1. z \in 0 .. MaxStates
  BY Bounds DEF Typed
<1>2. usage' = [usage EXCEPT ![z][k] = 0]
  BY DEF Reset
<1> HIDE DEF z
<1>3. \A s \in 0 .. MaxStates, h \in Counters :
        usage'[s][h] = IF s = z /\ h = k THEN 0 ELSE usage[s][h]
  BY <1>1, <1>2 DEF Typed, Counters
<1>4. usage' \in [0 .. MaxStates -> [Counters -> Int]]
  BY <1>1, <1>2 DEF Typed, Counters
<1> QED
  BY <1>3, <1>4 DEF Typed, Counters, Limited

\* Only the two counters that a lease holds are ever lowered.
LEMMA UsageTyped ==
  ASSUME Typed, Working, NEW t \in Thread, Reserve(t) \/ Release(t)
  PROVE  /\ usage' \in [0 .. MaxStates -> [Counters -> Int]]
         /\ \A s \in 0 .. MaxStates : usage'[s]["rps"] >= 0 /\ usage'[s]["minute"] >= 0
<1> DEFINE b == job[t].bytes
<1>1. job[t].state \in 1 .. MaxStates /\ b \in Nat /\ job[t].at \in 1 .. 6
  BY Bounds DEF Working, Works, Reserve, Release, Typed, Call
<1> HIDE DEF b
<1>2. \A c : Amount(t, c) \in Nat
  BY <1>1 DEF Amount, b
<1>3. "rps" \in Counters /\ "minute" \in Counters /\ "rps" \notin Limited /\ "minute" \notin Limited
      /\ Limited \subseteq Counters
  BY DEF Counters, Limited
<1>4. CASE Reserve(t)
  <2> DEFINE c == Reservations[job[t].at]
  <2>1. c.counter \in Counters /\ Amount(t, c) \in Int /\ Amount(t, c) >= 0
    BY <1>1, <1>2, Positions
  <2>2. Bump(t, c, Amount(t, c))
    BY <1>4 DEF Reserve
  <2> HIDE DEF c
  <2>3. /\ usage' \in [0 .. MaxStates -> [Counters -> Int]]
        /\ \A s \in 0 .. MaxStates, k \in Counters :
             usage'[s][k] = usage[s][k] + Amount(t, c) \/ usage'[s][k] = usage[s][k]
    BY <1>1, <2>1, <2>2, Bumps
  <2>4. \A x, d \in Int : x >= 0 /\ d >= 0 => x + d >= 0
    OBVIOUS
  <2>5. ASSUME NEW s \in 0 .. MaxStates, NEW k \in {"rps", "minute"}
        PROVE  usage'[s][k] >= 0
    <3> DEFINE x == usage[s][k]
               d == Amount(t, c)
    <3>1. x \in Int /\ x >= 0 /\ k \in Counters
      BY <1>3 DEF Typed
    <3> HIDE DEF x, d
    <3>2. usage'[s][k] = x + d \/ usage'[s][k] = x
      BY <2>3, <3>1 DEF x, d
    <3>3. d \in Int /\ d >= 0
      BY <2>1 DEF d
    <3> QED
      BY <2>4, <3>1, <3>2, <3>3
  <2> QED
    BY <2>3, <2>5
<1>5. CASE Release(t)
  <2> DEFINE c == Releases[job[t].at]
  <2>1. c.counter \in Limited /\ -Amount(t, c) \in Int
    BY <1>1, <1>2, <1>5, Positions DEF Working, Works, Release
  <2>2. Bump(t, c, -Amount(t, c))
    BY <1>5 DEF Release
  <2> HIDE DEF c
  <2>3. /\ usage' \in [0 .. MaxStates -> [Counters -> Int]]
        /\ \A s \in 0 .. MaxStates, k \in Counters :
             k # c.counter => usage'[s][k] = usage[s][k]
    BY <1>1, <1>3, <2>1, <2>2, Bumps
  <2> QED
    BY <1>3, <2>1, <2>3 DEF Typed
<1> QED
  BY <1>4, <1>5

LEMMA TypedStep ==
  ASSUME Typed, Working, [Next]_vars
  PROVE  Typed'
<1> USE DEF Typed
<1>1. ASSUME NEW t \in Thread, NEW n \in Tenant, RegisterTenant(t, n) PROVE Typed'
  BY <1>1, RegisterMoves DEF RegisterTenant, Moves
<1>2. ASSUME NEW t \in Thread, RegisterLen(t) \/ RegisterContains(t) PROVE Typed'
  BY <1>2, RegisterMoves DEF RegisterLen, RegisterContains, Moves
<1>3. ASSUME NEW t \in Thread, RegisterInsert(t) PROVE Typed'
  <2> DEFINE n == job[t].tenant
  <2>1. n \in Tenant /\ pc[t] = "insert"
    BY <1>3 DEF Working, Works, RegisterInsert
  <2>2. created \in Nat /\ created' = created + 1 /\ created' \in 0 .. MaxStates
    BY <1>3, Bounds DEF RegisterInsert
  <2>3. /\ DOMAIN tenants' \subseteq Tenant
        /\ \A m \in DOMAIN tenants' : tenants'[m] \in [state : 1 .. created', max : Quotas]
    <3>1. PICK q \in Quotas : tenants' = [m \in DOMAIN tenants \union {n} |->
                                IF m = n THEN [state |-> created + 1, max |-> q] ELSE tenants[m]]
      BY <1>3 DEF RegisterInsert
    <3> HIDE DEF n
    <3>2. DOMAIN tenants' \subseteq Tenant
      BY <2>1, <3>1
    <3>3. \A m \in DOMAIN tenants : tenants[m] \in [state : 1 .. created', max : Quotas]
      BY <2>2
    <3>4. [state |-> created + 1, max |-> q] \in [state : 1 .. created', max : Quotas]
      BY <2>2
    <3> QED
      BY <3>1, <3>2, <3>3, <3>4
  <2>4. /\ pc' \in [Thread -> PCs] /\ job' \in [Thread -> Call]
        /\ UNCHANGED << usage, leases, acquires >>
    BY <1>3, RegisterMoves DEF RegisterInsert, Moves
  <2> QED
    BY <2>2, <2>3, <2>4
<1>4. ASSUME NEW t \in Thread, NEW n \in Tenant, Acquire(t, n) PROVE Typed'
  <2>1. acquires' \in 0 .. MaxAcquires /\ UNCHANGED << tenants, usage, created, leases >>
    BY <1>4, Bounds DEF Acquire
  <2>2. pc' \in [Thread -> PCs] /\ job' \in [Thread -> Call]
    BY <1>4, AcquireMoves DEF Moves
  <2> QED
    BY <2>1, <2>2
<1>5. ASSUME NEW t \in Thread, GetRegistered(t) PROVE Typed'
  BY <1>5, AcquireMoves DEF GetRegistered, Moves
<1>6. ASSUME NEW t \in Thread, Check(t) PROVE Typed'
  <2>1. UNCHANGED << tenants, usage, created, leases, acquires >>
    BY <1>6 DEF Check
  <2>2. pc' \in [Thread -> PCs] /\ job' \in [Thread -> Call]
    BY <1>6, WorkMoves DEF Moves
  <2> QED
    BY <2>1, <2>2
<1>7. ASSUME NEW t \in Thread, Reserve(t) PROVE Typed'
  <2>1. UNCHANGED << tenants, created, acquires >>
    BY <1>7 DEF Reserve
  <2>2. pc' \in [Thread -> PCs] /\ job' \in [Thread -> Call]
    BY <1>7, WorkMoves DEF Moves
  <2>3. leases' \subseteq Lease /\ IsFiniteSet(leases')
    <3> DEFINE l == [id |-> job[t].id, state |-> job[t].state, bytes |-> job[t].bytes]
    <3>1. l \in Lease
      <4>1. job[t].id \in 1 .. MaxAcquires /\ job[t].state \in 1 .. MaxStates /\ job[t].bytes \in Sizes
        BY <1>7, Bounds DEF Working, Works, Reserve, Call
      <4> QED
        BY <4>1 DEF Lease
    <3>2. leases' = leases \union {l} \/ leases' = leases
      BY <1>7, WorkMoves
    <3> HIDE DEF l
    <3>3. leases \subseteq Lease /\ IsFiniteSet(leases)
      BY Zenon
    <3>4. IsFiniteSet(leases \union {l})
      BY <3>3, FS_AddElement, Zenon
    <3>5. leases \union {l} \subseteq Lease
      BY <3>1, <3>3, Zenon
    <3> QED
      BY <3>2, <3>3, <3>4, <3>5, Zenon
  <2> QED
    BY <1>7, <2>1, <2>2, <2>3, UsageTyped
<1>8. ASSUME NEW t \in Thread, Release(t) PROVE Typed'
  <2>1. UNCHANGED << tenants, created, leases, acquires >>
    BY <1>8 DEF Release
  <2>2. pc' \in [Thread -> PCs] /\ job' \in [Thread -> Call]
    BY <1>8, WorkMoves DEF Moves
  <2> QED
    BY <1>8, <2>1, <2>2, UsageTyped
<1>9. ASSUME NEW t \in Thread, NEW l \in leases, Drop(t, l) PROVE Typed'
  <2>1. UNCHANGED << tenants, usage, created, acquires >> /\ leases' = leases \ {l}
    BY <1>9 DEF Drop
  <2>2. pc' \in [Thread -> PCs] /\ job' \in [Thread -> Call]
    BY <1>9, WorkMoves DEF Moves
  <2>3. IsFiniteSet(leases')
    BY <2>1, FS_RemoveElement
  <2> QED
    BY <2>1, <2>2, <2>3
<1>10. ASSUME NEW n \in Tenant, UpdateQuota(n) \/ RemoveTenant(n) PROVE Typed'
  <2>1. UNCHANGED << usage, created, pc, job, leases, acquires >>
    BY <1>10 DEF UpdateQuota, RemoveTenant
  <2>2. /\ DOMAIN tenants' \subseteq Tenant
        /\ \A m \in DOMAIN tenants' : tenants'[m] \in [state : 1 .. created, max : Quotas]
    <3>1. CASE UpdateQuota(n)
      <4>1. PICK q \in Quotas : tenants' = [tenants EXCEPT ![n].max = q]
        BY <3>1 DEF UpdateQuota
      <4> QED
        BY <3>1, <4>1 DEF UpdateQuota
    <3>2. CASE RemoveTenant(n)
      BY <3>2 DEF RemoveTenant
    <3> QED
      BY <1>10, <3>1, <3>2
  <2> QED
    BY <2>1, <2>2
<1>11. ASSUME NEW n \in Tenant, NEW k \in {"rps", "minute"}, Reset(n, k) PROVE Typed'
  BY <1>11, Resets DEF Reset
<1>12. CASE UNCHANGED vars
  BY <1>12 DEF vars
<1> QED
  BY <1>1, <1>2, <1>3, <1>4, <1>5, <1>6, <1>7, <1>8, <1>9, <1>10, <1>11, <1>12 DEF Next, Step

\* The others are not disturbed while no tenant is removed.
LEMMA OthersWork ==
  ASSUME Working, NEW t \in Thread, NEW label, NEW new, Moves(t, label, new),
         DOMAIN tenants \subseteq DOMAIN tenants', Works(t)'
  PROVE  Working'
<1>1. \A u \in Thread : u # t => Works(u)'
  BY DEF Working, Works, Moves
<1> QED
  BY <1>1 DEF Working

LEMMA WorkingStep ==
  ASSUME Typed, Working, Distinct, [Next]_vars
  PROVE  Working'
<1>0. /\ \A t \in Thread : \A label : Moves(t, label, NoJob) /\ label \in {"idle", "panicked"} => Works(t)'
      /\ \A t \in Thread : \A label, n, b, z, i, a :
           Moves(t, label, Fields(n, b, z, i, a)) =>
             pc'[t] = label /\ job'[t].tenant = n /\ job'[t].bytes = b /\ job'[t].state = z
             /\ job'[t].id = i /\ job'[t].at = a
  <2>1. \A t \in Thread : \A label : Moves(t, label, NoJob) /\ label \in {"idle", "panicked"} => Works(t)'
    BY DEF Moves, Works
  <2>2. \A t \in Thread : \A label, n, b, z, i, a :
           Moves(t, label, Fields(n, b, z, i, a)) =>
             pc'[t] = label /\ job'[t].tenant = n /\ job'[t].bytes = b /\ job'[t].state = z
             /\ job'[t].id = i /\ job'[t].at = a
    BY FieldsAre DEF Moves
  <2> QED
    BY <2>1, <2>2
<1>1. ASSUME NEW t \in Thread, NEW n \in Tenant, RegisterTenant(t, n) PROVE Working'
  <2>1. Moves(t, "len", Fields(n, 0, 0, 0, 1)) /\ tenants' = tenants
    BY <1>1, RegisterMoves DEF RegisterTenant
  <2>2. Works(t)'
    BY <1>0, <2>1 DEF Works
  <2> QED
    BY <2>1, <2>2, OthersWork
<1>2. ASSUME NEW t \in Thread, RegisterLen(t) \/ RegisterContains(t) PROVE Working'
  <2>1. PICK label \in {"idle", "contains", "insert"} :
          tenants' = tenants /\ \/ label = "idle" /\ Moves(t, label, NoJob)
                                \/ label # "idle" /\ Moves(t, label, job[t])
    BY <1>2, RegisterMoves DEF RegisterLen, RegisterContains
  <2>2. Works(t)'
    <3>1. CASE Moves(t, "idle", NoJob)
      BY <1>0, <3>1
    <3>2. CASE label # "idle" /\ Moves(t, label, job[t])
      BY <1>2, <2>1, <3>2 DEF Works, Working, Moves, RegisterLen, RegisterContains
    <3> QED
      BY <2>1, <3>1, <3>2
  <2> QED
    BY <2>1, <2>2, OthersWork
<1>3. ASSUME NEW t \in Thread, RegisterInsert(t) PROVE Working'
  <2>1. DOMAIN tenants \subseteq DOMAIN tenants'
    BY <1>3 DEF RegisterInsert
  <2>2. \/ Moves(t, "idle", NoJob)
        \/ job[t].id # 0 /\ Moves(t, "get", job[t])
    BY <1>3, RegisterMoves
  <2>3. CASE Moves(t, "idle", NoJob)
    BY <1>0, <2>1, <2>3, OthersWork
  <2>4. CASE job[t].id # 0 /\ Moves(t, "get", job[t])
    <3>1. Works(t)'
      BY <1>3, <2>4 DEF RegisterInsert, Works, Working, Moves
    <3> QED
      BY <2>1, <2>4, <3>1, OthersWork
  <2> QED
    BY <2>2, <2>3, <2>4
<1>4. ASSUME NEW t \in Thread, NEW n \in Tenant, Acquire(t, n) PROVE Working'
  <2>1. tenants' = tenants
    BY <1>4 DEF Acquire
  <2>2. PICK b \in Sizes :
          \/ Moves(t, "len", Fields(n, b, 0, acquires + 1, 1))
          \/ /\ n \in DOMAIN tenants
             /\ Moves(t, "check", Fields(n, b, tenants[n].state, acquires + 1, 1))
    BY <1>4, AcquireMoves
  <2>3. CASE Moves(t, "len", Fields(n, b, 0, acquires + 1, 1))
    <3>1. Works(t)'
      BY <1>0, <2>3 DEF Works
    <3> QED
      BY <2>1, <2>3, <3>1, OthersWork
  <2>4. CASE /\ n \in DOMAIN tenants
             /\ Moves(t, "check", Fields(n, b, tenants[n].state, acquires + 1, 1))
    <3>1. Works(t)'
      <4>1. tenants[n].state \in 1 .. MaxStates
        BY <2>4, Bounds DEF Typed
      <4>2. acquires + 1 # 0
        BY Bounds DEF Typed
      <4> QED
        BY <1>0, <2>1, <2>4, <4>1, <4>2 DEF Works
    <3> QED
      BY <2>1, <2>4, <3>1, OthersWork
  <2> QED
    BY <2>2, <2>3, <2>4
<1>5. ASSUME NEW t \in Thread, GetRegistered(t) PROVE Working'
  <2> DEFINE j == job[t]
             z == tenants[j.tenant].state
  <2>1. tenants' = tenants /\ pc[t] = "get"
    BY <1>5 DEF GetRegistered
  <2>2. \/ Moves(t, "panicked", NoJob)
        \/ j.tenant \in DOMAIN tenants /\ Moves(t, "check", Fields(j.tenant, j.bytes, z, j.id, j.at))
    BY <1>5, AcquireMoves
  <2>3. CASE Moves(t, "panicked", NoJob)
    BY <1>0, <2>1, <2>3, OthersWork
  <2>4. CASE j.tenant \in DOMAIN tenants /\ Moves(t, "check", Fields(j.tenant, j.bytes, z, j.id, j.at))
    <3>1. z \in 1 .. MaxStates
      BY <2>4, Bounds DEF Typed
    <3>2. j.id # 0 /\ j.bytes \in Sizes
      BY <2>1 DEF Working, Works
    <3>3. Works(t)'
      <4> HIDE DEF j, z
      <4> QED
        BY <1>0, <2>1, <2>4, <3>1, <3>2 DEF Works
    <3> QED
      BY <2>1, <2>4, <3>3, OthersWork
  <2> QED
    BY <2>2, <2>3, <2>4
<1>6. ASSUME NEW t \in Thread, Check(t) \/ Reserve(t) \/ Release(t) PROVE Working'
  <2> DEFINE j == job[t]
             To(a) == Fields(j.tenant, j.bytes, j.state, j.id, a)
  <2>1. tenants' = tenants
    BY <1>6 DEF Check, Reserve, Release
  <2>2. \/ Moves(t, "idle", NoJob)
        \/ pc[t] = "check" /\ (Moves(t, "reserve", To(1)) \/ Moves(t, "check", To(j.at + 1)))
        \/ pc[t] = "reserve" /\ Moves(t, "reserve", To(j.at + 1))
        \/ pc[t] = "release" /\ j.at < 4 /\ Moves(t, "release", To(j.at + 1))
    <3>1. CASE Check(t)
      BY <3>1, WorkMoves DEF Check
    <3>2. CASE Reserve(t)
      BY <3>2, WorkMoves DEF Reserve
    <3>3. CASE Release(t)
      BY <3>3, WorkMoves DEF Release
    <3> QED
      BY <1>6, <3>1, <3>2, <3>3
  <2>3. CASE Moves(t, "idle", NoJob)
    BY <1>0, <2>1, <2>3, OthersWork
  <2>4. ASSUME NEW a, NEW label \in {"check", "reserve", "release"}, Moves(t, label, To(a)),
               \/ pc[t] = "check" /\ label # "release"
               \/ pc[t] = "reserve" /\ label = "reserve"
               \/ pc[t] = "release" /\ label = "release" /\ a <= 4
        PROVE  Working'
    <3>1. /\ pc'[t] = label /\ job'[t].tenant = j.tenant /\ job'[t].bytes = j.bytes
          /\ job'[t].state = j.state /\ job'[t].id = j.id /\ job'[t].at = a
      BY <1>0, <2>4
    <3>2. Works(t)'
      BY <2>1, <2>4, <3>1 DEF Works, Working
    <3> QED
      BY <2>1, <2>4, <3>2, OthersWork
  <2>5. j.at \in Nat
    <3>1. j \in Call
      BY DEF Typed
    <3>2. \A i \in 1 .. 6 : i \in Nat
      OBVIOUS
    <3> QED
      BY <3>1, <3>2 DEF Call
  <2> HIDE DEF j, To
  <2>6. j.at < 4 => j.at + 1 <= 4
    BY <2>5
  <2> QED
    BY <2>2, <2>3, <2>4, <2>6
<1>7. ASSUME NEW t \in Thread, NEW l \in leases, Drop(t, l) PROVE Working'
  <2>1. tenants' = tenants /\ Moves(t, "release", Fields(None, l.bytes, l.state, l.id, 1))
    BY <1>7, WorkMoves DEF Drop
  <2>2. l.state \in 1 .. MaxStates /\ l.bytes \in Sizes
    BY DEF Typed, Lease
  <2>3. Works(t)'
    BY <1>0, <2>1, <2>2 DEF Works
  <2> QED
    BY <2>1, <2>3, OthersWork
<1>8. ASSUME NEW n \in Tenant, UpdateQuota(n) PROVE Working'
  BY <1>8 DEF UpdateQuota, Working, Works
<1>9. ASSUME NEW n \in Tenant, RemoveTenant(n) PROVE Working'
  BY <1>9 DEF RemoveTenant, Working, Works, Held
<1>10. ASSUME NEW n \in Tenant, NEW k, Reset(n, k) PROVE Working'
  BY <1>10 DEF Reset, Working, Works
<1>11. CASE UNCHANGED vars
  BY <1>11 DEF vars, Working, Works
<1> QED
  BY <1>1, <1>2, <1>3, <1>4, <1>5, <1>6, <1>7, <1>8, <1>9, <1>10, <1>11 DEF Next, Step

-----------------------------------------------------------------------------
(* Ids *)

\* A thread goes on, or returns, with the id it has, while no lease appears.
LEMMA KeepsId ==
  ASSUME Typed, Distinct, NEW t \in Thread, NEW label, NEW new, Moves(t, label, new),
         leases' \subseteq leases, acquires' = acquires,
         \/ label \notin Acquiring /\ new.id <= acquires
         \/ pc[t] \in Acquiring /\ new.id = job[t].id
         \/ new.id = 0
  PROVE  Distinct'
<1>1. /\ \A u \in Thread : job'[u].id <= acquires
      /\ \A l \in leases' : l.id <= acquires
  <2>1. acquires \in Nat /\ 0 <= acquires
    BY Bounds DEF Typed
  <2> QED
    BY <2>1 DEF Distinct, Moves
<1>2. ASSUME NEW u \in Thread, NEW v \in Thread, pc'[u] \in Acquiring, pc'[v] \in Acquiring,
             u # v, job'[u].id # 0
      PROVE  job'[u].id # job'[v].id
  BY <1>2 DEF Distinct, Moves
<1>3. ASSUME NEW l \in leases', NEW u \in Thread, pc'[u] \in Acquiring
      PROVE  l.id # job'[u].id
  <2>1. l \in leases /\ l.id \in 1 .. MaxAcquires
    BY DEF Typed, Lease
  <2>2. l.id # 0
    BY <2>1
  <2> QED
    BY <1>3, <2>1, <2>2 DEF Distinct, Moves
<1> QED
  BY <1>1, <1>2, <1>3 DEF Distinct

LEMMA DistinctStep ==
  ASSUME Typed, Working, Distinct, [Next]_vars
  PROVE  Distinct'
<1>0. acquires \in Nat /\ NoJob.id = 0
  BY Bounds DEF Typed, NoJob
<1>1. ASSUME NEW t \in Thread, NEW n \in Tenant, RegisterTenant(t, n) PROVE Distinct'
  <2>1. /\ Moves(t, "len", Fields(n, 0, 0, 0, 1)) /\ leases' \subseteq leases
        /\ acquires' = acquires
    BY <1>1, RegisterMoves DEF RegisterTenant
  <2>2. Fields(n, 0, 0, 0, 1).id = 0
    BY FieldsAre
  <2> QED
    BY <2>1, <2>2, KeepsId
<1>2. ASSUME NEW t \in Thread, RegisterLen(t) \/ RegisterContains(t) \/ RegisterInsert(t)
      PROVE  Distinct'
  <2>1. /\ leases' \subseteq leases /\ acquires' = acquires /\ pc[t] \in Acquiring
        /\ \E label : Moves(t, label, NoJob) \/ Moves(t, label, job[t])
    BY <1>2, RegisterMoves DEF RegisterLen, RegisterContains, RegisterInsert, Acquiring
  <2> QED
    BY <1>0, <2>1, KeepsId
<1>3. ASSUME NEW t \in Thread, NEW n \in Tenant, Acquire(t, n) PROVE Distinct'
  <2>1. leases' = leases /\ acquires' = acquires + 1 /\ pc[t] = "idle"
    BY <1>3 DEF Acquire
  <2>2. job'[t].id = acquires + 1
    <3>1. \E label, b, s : Moves(t, label, Fields(n, b, s, acquires + 1, 1))
      BY <1>3, AcquireMoves
    <3> QED
      BY <3>1, FieldsAre DEF Moves
  <2>3. \A u \in Thread : u # t => pc'[u] = pc[u] /\ job'[u] = job[u]
    BY <1>3, AcquireMoves DEF Moves
  <2>4. /\ \A u \in Thread : job[u].id \in Nat /\ job[u].id <= acquires
        /\ \A l \in leases : l.id \in Nat /\ l.id <= acquires
    <3>1. \A u \in Thread : job[u] \in Call /\ job[u].id \in 0 .. MaxAcquires
      BY DEF Typed, Call
    <3>2. \A l \in leases : l.id \in 1 .. MaxAcquires
      BY DEF Typed, Lease
    <3> QED
      BY <3>1, <3>2, Bounds DEF Distinct
  <2>5. \A i \in Nat : i <= acquires => i <= acquires + 1 /\ i # acquires + 1
    BY <1>0
  <2>6. /\ \A u \in Thread : job'[u].id <= acquires + 1
        /\ \A u \in Thread : u # t => job'[u].id # acquires + 1
        /\ \A l \in leases : l.id <= acquires + 1 /\ l.id # acquires + 1
    BY <1>0, <2>2, <2>3, <2>4, <2>5
  <2>7. acquires + 1 # 0
    BY <1>0
  <2>8. ASSUME NEW u \in Thread, NEW v \in Thread, pc'[u] \in Acquiring, pc'[v] \in Acquiring,
               u # v, job'[u].id # 0
        PROVE  job'[u].id # job'[v].id
    BY <2>2, <2>3, <2>6, <2>8 DEF Distinct
  <2>9. ASSUME NEW l \in leases, NEW u \in Thread, pc'[u] \in Acquiring
        PROVE  l.id # job'[u].id
    BY <2>2, <2>3, <2>6, <2>9 DEF Distinct
  <2> QED
    BY <2>1, <2>6, <2>8, <2>9 DEF Distinct
<1>4. ASSUME NEW t \in Thread, GetRegistered(t) PROVE Distinct'
  <2>1. leases' \subseteq leases /\ acquires' = acquires /\ pc[t] \in Acquiring
    BY <1>4 DEF GetRegistered, Acquiring
  <2>2. \/ Moves(t, "panicked", NoJob)
        \/ \E b, s, n, a : Moves(t, "check", Fields(n, b, s, job[t].id, a))
    BY <1>4, AcquireMoves
  <2> QED
    BY <1>0, <2>1, <2>2, KeepsId, FieldsAre
<1>5. ASSUME NEW t \in Thread, Check(t) \/ Release(t) PROVE Distinct'
  <2>1. leases' \subseteq leases /\ acquires' = acquires
    BY <1>5 DEF Check, Release
  <2>2. \/ Moves(t, "idle", NoJob)
        \/ \E b, s, n, a, label :
             /\ Moves(t, label, Fields(n, b, s, job[t].id, a))
             /\ pc[t] \in Acquiring \/ label \notin Acquiring
    <3>1. CASE Check(t)
      BY <3>1, WorkMoves DEF Check, Acquiring
    <3>2. CASE Release(t)
      BY <3>2, WorkMoves DEF Release, Acquiring
    <3> QED
      BY <1>5, <3>1, <3>2
  <2>3. job[t].id <= acquires
    BY DEF Distinct
  <2> QED
    BY <1>0, <2>1, <2>2, <2>3, KeepsId, FieldsAre
<1>6. ASSUME NEW t \in Thread, Reserve(t) PROVE Distinct'
  <2>1. acquires' = acquires /\ pc[t] \in Acquiring /\ job[t].id # 0
    BY <1>6 DEF Reserve, Acquiring, Working, Works
  <2> DEFINE l == [id |-> job[t].id, state |-> job[t].state, bytes |-> job[t].bytes]
  <2>2. \/ leases' = leases \union {l} /\ Moves(t, "idle", NoJob)
        \/ leases' = leases /\ \E b, s, n, a : Moves(t, "reserve", Fields(n, b, s, job[t].id, a))
    BY <1>6, WorkMoves
  <2>3. l.id = job[t].id
    OBVIOUS
  <2> HIDE DEF l
  <2>4. CASE leases' = leases \union {l} /\ Moves(t, "idle", NoJob)
    <3>1. /\ pc'[t] \notin Acquiring /\ job'[t].id = 0
          /\ \A u \in Thread : u # t => pc'[u] = pc[u] /\ job'[u] = job[u]
      BY <1>0, <2>4 DEF Moves, Acquiring
    <3>2. \A u \in Thread : u # t /\ pc[u] \in Acquiring => l.id # job[u].id
      BY <2>1, <2>3 DEF Distinct
    <3>3. 0 <= acquires
      BY <1>0
    <3>4. \A u \in Thread : job'[u].id <= acquires
      BY <3>1, <3>3 DEF Distinct
    <3>5. \A u, v \in Thread : pc'[u] \in Acquiring /\ pc'[v] \in Acquiring /\ u # v
                                 /\ job'[u].id # 0 => job'[u].id # job'[v].id
      BY <3>1 DEF Distinct
    <3>6. \A m \in leases' : m.id <= acquires
      BY <2>3, <2>4 DEF Distinct
    <3>7. \A m \in leases', u \in Thread : pc'[u] \in Acquiring => m.id # job'[u].id
      BY <2>4, <3>1, <3>2 DEF Distinct
    <3> QED
      BY <2>1, <3>4, <3>5, <3>6, <3>7 DEF Distinct
  <2>5. CASE leases' = leases /\ \E b, s, n, a : Moves(t, "reserve", Fields(n, b, s, job[t].id, a))
    BY <2>1, <2>5, KeepsId, FieldsAre
  <2> QED
    BY <2>2, <2>4, <2>5
<1>7. ASSUME NEW t \in Thread, NEW l \in leases, Drop(t, l) PROVE Distinct'
  <2>1. /\ leases' \subseteq leases /\ acquires' = acquires
        /\ Moves(t, "release", Fields(None, l.bytes, l.state, l.id, 1))
    BY <1>7, WorkMoves DEF Drop
  <2>2. "release" \notin Acquiring /\ l.id <= acquires
    BY DEF Acquiring, Distinct
  <2>3. Fields(None, l.bytes, l.state, l.id, 1).id = l.id
    BY FieldsAre
  <2> QED
    BY <2>1, <2>2, <2>3, KeepsId
<1>8. ASSUME NEW n \in Tenant, NEW k, UpdateQuota(n) \/ RemoveTenant(n) \/ Reset(n, k)
      PROVE  Distinct'
  BY <1>8 DEF UpdateQuota, RemoveTenant, Reset, Distinct
<1>9. CASE UNCHANGED vars
  BY <1>9 DEF vars, Distinct
<1> QED
  BY <1>1, <1>2, <1>3, <1>4, <1>5, <1>6, <1>7, <1>8, <1>9 DEF Next, Step

-----------------------------------------------------------------------------
(* The account *)

LEMMA CostsWeigh ==
  ASSUME NEW calls \in [Thread -> Call], NEW T \in SUBSET Thread, NEW k \in Limited
  PROVE  /\ Weighable(T, CostOf(calls, k), MaxCost(k))
         /\ \A t \in Thread : /\ CostOf(calls, k)[t] = IF k = "memory" THEN calls[t].bytes ELSE 1
                              /\ CostOf(calls, k)[t] \in 0 .. MaxCost(k)
         /\ MaxCost(k) \in Nat
<1>1. IsFiniteSet(T)
  BY PoolAssumption, FS_Subset
<1>2. MaxCost(k) \in Nat
  BY Bounds DEF MaxCost
<1>3. ASSUME NEW t \in Thread
      PROVE  /\ CostOf(calls, k)[t] = IF k = "memory" THEN calls[t].bytes ELSE 1
             /\ CostOf(calls, k)[t] \in 0 .. MaxCost(k)
  <2>1. CostOf(calls, k)[t] = IF k = "memory" THEN calls[t].bytes ELSE 1
    BY DEF CostOf
  <2>2. calls[t].bytes \in Sizes \union {0}
    BY DEF Call
  <2>3. calls[t].bytes \in 0 .. Max(Sizes)
    BY <2>2, Bounds
  <2> QED
    BY <2>1, <2>3 DEF MaxCost
<1> QED
  BY <1>1, <1>2, <1>3 DEF Weighable

LEMMA LeasesWeigh ==
  ASSUME NEW L, L \subseteq Lease, IsFiniteSet(L), NEW k \in Limited
  PROVE  Weighable(L, LeaseCost(k), MaxCost(k))
<1>1. MaxCost(k) \in Nat
  BY Bounds DEF MaxCost
<1>2. ASSUME NEW l \in Lease PROVE LeaseCost(k)[l] \in 0 .. MaxCost(k)
  <2>1. l.bytes \in 0 .. Max(Sizes)
    BY Bounds DEF Lease
  <2> QED
    BY <2>1 DEF LeaseCost, MaxCost
<1> QED
  BY <1>1, <1>2 DEF Weighable

\* What the step of one thread does to the two sums over threads.
LEMMA SumsMove ==
  ASSUME Typed, NEW t \in Thread, NEW label, NEW new, Moves(t, label, new),
         NEW s \in 0 .. MaxStates, NEW k \in Limited
  PROVE  /\ Weight(Counting(s, k)', Cost(k)') + (IF Counts(t, s, k) THEN Cost(k)[t] ELSE 0) =
              Weight(Counting(s, k), Cost(k)) + (IF Counts(t, s, k)' THEN Cost(k)'[t] ELSE 0)
         /\ Weight(Passing(s, k)', Cost(k)') + (IF Passed(t, s, k) THEN Cost(k)[t] ELSE 0) =
              Weight(Passing(s, k), Cost(k)) + (IF Passed(t, s, k)' THEN Cost(k)'[t] ELSE 0)
         /\ Weight(Counting(s, k), Cost(k)) \in Nat /\ Weight(Counting(s, k)', Cost(k)') \in Nat
         /\ Weight(Passing(s, k), Cost(k)) \in Nat /\ Weight(Passing(s, k)', Cost(k)') \in Nat
<1> DEFINE v == Cost(k)
           w == Cost(k)'
           m == MaxCost(k)
<1>1. ASSUME NEW T \in SUBSET Thread PROVE Weighable(T, v, m) /\ Weighable(T, w, m)
  BY CostsWeigh DEF Typed, Moves, Cost
<1>2. \A x \in Thread : x # t => v[x] = w[x]
  BY DEF Moves, Cost, CostOf
<1>3. ASSUME NEW x \in Thread, x # t
      PROVE  (Counts(x, s, k) <=> Counts(x, s, k)') /\ (Passed(x, s, k) <=> Passed(x, s, k)')
  BY <1>3 DEF Moves, Counts, Passed, Concerns
<1> HIDE DEF v, w, m
<1>4. ASSUME NEW T \in SUBSET Thread, NEW U \in SUBSET Thread,
             \A x \in Thread : x # t => (x \in T <=> x \in U)
      PROVE  /\ Weight(U, w) + Part(t, T, v) = Weight(T, v) + Part(t, U, w)
             /\ Weight(U, w) \in Nat /\ Weight(T, v) \in Nat
  <2>1. Weighable(T, v, m) /\ Weighable(U, w, m)
    BY <1>1
  <2>2. /\ \A x : x # t => (x \in T <=> x \in U)
        /\ \A x \in T : x # t => v[x] = w[x]
    BY <1>2, <1>4
  <2> QED
    BY <2>1, <2>2, OneMoves
<1>5. /\ Counting(s, k) \in SUBSET Thread /\ Counting(s, k)' \in SUBSET Thread
      /\ Passing(s, k) \in SUBSET Thread /\ Passing(s, k)' \in SUBSET Thread
  BY DEF Counting, Passing
<1>6. /\ \A x \in Thread : x # t => (x \in Counting(s, k) <=> x \in Counting(s, k)')
      /\ \A x \in Thread : x # t => (x \in Passing(s, k) <=> x \in Passing(s, k)')
  BY <1>3 DEF Counting, Passing
<1>7. /\ t \in Counting(s, k) <=> Counts(t, s, k)
      /\ t \in Counting(s, k)' <=> Counts(t, s, k)'
      /\ t \in Passing(s, k) <=> Passed(t, s, k)
      /\ t \in Passing(s, k)' <=> Passed(t, s, k)'
  BY DEF Counting, Passing
<1>8. /\ Weight(Counting(s, k)', w) + Part(t, Counting(s, k), v) =
           Weight(Counting(s, k), v) + Part(t, Counting(s, k)', w)
      /\ Weight(Counting(s, k)', w) \in Nat /\ Weight(Counting(s, k), v) \in Nat
  BY <1>4, <1>5, <1>6
<1>9. /\ Weight(Passing(s, k)', w) + Part(t, Passing(s, k), v) =
           Weight(Passing(s, k), v) + Part(t, Passing(s, k)', w)
      /\ Weight(Passing(s, k)', w) \in Nat /\ Weight(Passing(s, k), v) \in Nat
  BY <1>4, <1>5, <1>6
<1> QED
  BY <1>7, <1>8, <1>9 DEF Part, v, w

\* What the leases of s weigh when one is added or given up.
LEMMA LeaseSums ==
  ASSUME Typed, NEW s \in 0 .. MaxStates, NEW k \in Limited, NEW l \in Lease
  PROVE  /\ Weight(LeasesOf(s), LeaseCost(k)) \in Nat
         /\ l \notin leases /\ leases' = leases \union {l} =>
              Weight(LeasesOf(s)', LeaseCost(k)) =
                Weight(LeasesOf(s), LeaseCost(k))
                  + (IF s = 0 \/ l.state = s THEN LeaseCost(k)[l] ELSE 0)
         /\ l \in leases /\ leases' = leases \ {l} =>
              Weight(LeasesOf(s)', LeaseCost(k)) =
                Weight(LeasesOf(s), LeaseCost(k))
                  - (IF s = 0 \/ l.state = s THEN LeaseCost(k)[l] ELSE 0)
<1> DEFINE L == LeasesOf(s)
           f == LeaseCost(k)
           m == MaxCost(k)
<1>1. L \subseteq leases /\ L \subseteq Lease /\ IsFiniteSet(L)
  <2>1. L \in SUBSET leases
    BY DEF LeasesOf
  <2> QED
    BY <2>1, FS_Subset DEF Typed
<1>2. Weighable(L, f, m) /\ f[l] \in 0 .. m
  <2>1. Weighable(L, f, m)
    BY <1>1, LeasesWeigh
  <2>2. Weighable({l}, f, m)
    BY FS_Singleton, LeasesWeigh
  <2> QED
    BY <2>1, <2>2 DEF Weighable
<1>3. Weight(L, f) \in Nat /\ f[l] \in Nat
  BY <1>2, WeightBound
<1>4. ASSUME l \notin leases, leases' = leases \union {l}
      PROVE  LeasesOf(s)' = IF s = 0 \/ l.state = s THEN L \union {l} ELSE L
  BY <1>4 DEF LeasesOf
<1>5. ASSUME l \in leases, leases' = leases \ {l}
      PROVE  LeasesOf(s)' = IF s = 0 \/ l.state = s THEN L \ {l} ELSE L
  <2>1. \A x : x \in LeasesOf(s)' <=> x \in leases /\ x # l /\ (s = 0 \/ x.state = s)
    BY <1>5 DEF LeasesOf
  <2>2. \A x : x \in L <=> x \in leases /\ (s = 0 \/ x.state = s)
    BY DEF LeasesOf
  <2> HIDE DEF L
  <2>3. CASE s = 0 \/ l.state = s
    <3>1. \A x : x \in LeasesOf(s)' <=> x \in L \ {l}
      BY <2>1, <2>2
    <3>2. LeasesOf(s)' = L \ {l}
      BY <3>1, Zenon
    <3> QED
      BY <2>3, <3>2
  <2>4. CASE ~(s = 0 \/ l.state = s)
    <3>1. \A x : x \in LeasesOf(s)' <=> x \in L
      BY <2>1, <2>2, <2>4
    <3>2. LeasesOf(s)' = L
      BY <3>1, Zenon
    <3> QED
      BY <2>4, <3>2
  <2> QED
    BY <2>3, <2>4
<1>6. l \notin leases => l \notin L
  BY <1>1
<1>7. l \in leases /\ (s = 0 \/ l.state = s) => l \in L
  BY DEF LeasesOf
<1> HIDE DEF L, f, m
<1>8. l \notin L => Weight(L \union {l}, f) = Weight(L, f) + f[l]
  BY <1>2, WeightAdd
<1>9. l \in L => Weight(L \ {l}, f) = Weight(L, f) - f[l]
  <2>1. l \in L => Weighable(L \ {l}, f, m) /\ Weight(L, f) = Weight(L \ {l}, f) + f[l]
    BY <1>2, WeightRemove
  <2>2. l \in L => Weight(L \ {l}, f) \in Nat
    BY <2>1, WeightBound
  <2>3. \A x, y, z \in Nat : x = y + z => y = x - z
    OBVIOUS
  <2> QED
    BY <1>3, <2>1, <2>2, <2>3
<1>10. Weight(L, f) + 0 = Weight(L, f) /\ Weight(L, f) - 0 = Weight(L, f)
  BY <1>3
<1>11. ASSUME l \notin leases, leases' = leases \union {l}
       PROVE  Weight(LeasesOf(s)', f) =
                Weight(L, f) + (IF s = 0 \/ l.state = s THEN f[l] ELSE 0)
  <2>1. CASE s = 0 \/ l.state = s
    BY <1>4, <1>6, <1>8, <1>11, <2>1
  <2>2. CASE ~(s = 0 \/ l.state = s)
    BY <1>4, <1>10, <1>11, <2>2
  <2> QED
    BY <2>1, <2>2
<1>12. ASSUME l \in leases, leases' = leases \ {l}
       PROVE  Weight(LeasesOf(s)', f) =
                Weight(L, f) - (IF s = 0 \/ l.state = s THEN f[l] ELSE 0)
  <2>1. CASE s = 0 \/ l.state = s
    BY <1>5, <1>7, <1>9, <1>12, <2>1
  <2>2. CASE ~(s = 0 \/ l.state = s)
    BY <1>5, <1>10, <1>12, <2>2
  <2> QED
    BY <2>1, <2>2
<1> QED
  BY <1>3, <1>11, <1>12 DEF L, f

\* A reservation raises, and a release lowers, the counter at whose position it is.
LEMMA CountersMove ==
  ASSUME Typed, Working, NEW t \in Thread, NEW s \in 0 .. MaxStates, NEW k \in Limited
  PROVE  /\ Reserve(t) =>
              usage'[s][k] = IF Concerns(t, s) /\ job[t].at = ReserveAt(s, k)
                             THEN usage[s][k] + Cost(k)[t] ELSE usage[s][k]
         /\ Release(t) =>
              usage'[s][k] = IF Concerns(t, s) /\ job[t].at = ReleaseAt(s, k)
                             THEN usage[s][k] - Cost(k)[t] ELSE usage[s][k]
<1>1. k \in Counters /\ job[t].at \in 1 .. 6 /\ Limited \subseteq Counters
  BY DEF Limited, Counters, Typed, Call
<1>2. \A c : Amount(t, c) \in Nat /\ (c.counter = k => Amount(t, c) = Cost(k)[t])
  <2>1. job[t].bytes \in Nat
    BY Bounds DEF Typed, Call
  <2> QED
    BY <2>1 DEF Amount, Cost, CostOf, Limited
<1>3. ASSUME Reserve(t)
      PROVE  usage'[s][k] = IF Concerns(t, s) /\ job[t].at = ReserveAt(s, k)
                            THEN usage[s][k] + Cost(k)[t] ELSE usage[s][k]
  <2> DEFINE c == Reservations[job[t].at]
  <2>1. c.counter \in Counters /\ Amount(t, c) \in Int
    BY <1>1, <1>2, Positions
  <2>2. job[t].at = ReserveAt(s, k) <=> c.counter = k /\ (c.of = "pool" <=> s = 0)
    BY <1>1, Positions
  <2>3. Bump(t, c, Amount(t, c)) /\ job[t].state \in 1 .. MaxStates
    BY <1>3 DEF Reserve, Working, Works
  <2> HIDE DEF c
  <2>4. usage'[s][k] = IF k = c.counter /\ (c.of = "pool" <=> s = 0) /\ Concerns(t, s)
                       THEN usage[s][k] + Amount(t, c) ELSE usage[s][k]
    BY <1>1, <2>1, <2>3, Bumps
  <2>5. CASE Concerns(t, s) /\ job[t].at = ReserveAt(s, k)
    BY <1>2, <2>2, <2>4, <2>5
  <2>6. CASE ~(Concerns(t, s) /\ job[t].at = ReserveAt(s, k))
    BY <2>2, <2>4, <2>6
  <2> QED
    BY <2>5, <2>6
<1>4. ASSUME Release(t)
      PROVE  usage'[s][k] = IF Concerns(t, s) /\ job[t].at = ReleaseAt(s, k)
                            THEN usage[s][k] - Cost(k)[t] ELSE usage[s][k]
  <2> DEFINE c == Releases[job[t].at]
  <2>0. job[t].at \in 1 .. 4 /\ job[t].state \in 1 .. MaxStates
    BY <1>1, <1>4 DEF Release, Working, Works
  <2>1. c.counter \in Counters /\ -Amount(t, c) \in Int
    BY <1>1, <1>2, <2>0, Positions
  <2>2. job[t].at = ReleaseAt(s, k) <=> c.counter = k /\ (c.of = "pool" <=> s = 0)
    BY <2>0, Positions
  <2>3. Bump(t, c, -Amount(t, c))
    BY <1>4 DEF Release
  <2> HIDE DEF c
  <2>4. usage'[s][k] = IF k = c.counter /\ (c.of = "pool" <=> s = 0) /\ Concerns(t, s)
                       THEN usage[s][k] + (-Amount(t, c)) ELSE usage[s][k]
    BY <1>1, <2>0, <2>1, <2>3, Bumps
  <2>5. CASE Concerns(t, s) /\ job[t].at = ReleaseAt(s, k)
    <3>1. usage'[s][k] = usage[s][k] + (-Amount(t, c)) /\ Amount(t, c) = Cost(k)[t]
      BY <1>2, <2>2, <2>4, <2>5
    <3>2. usage[s][k] \in Int /\ Amount(t, c) \in Nat
      BY <1>1, <1>2 DEF Typed
    <3>3. \A x \in Int, y \in Nat : x + (-y) = x - y
      OBVIOUS
    <3>4. usage'[s][k] = usage[s][k] - Cost(k)[t]
      BY <3>1, <3>2, <3>3
    <3> QED
      BY <2>5, <3>4
  <2>6. CASE ~(Concerns(t, s) /\ job[t].at = ReleaseAt(s, k))
    BY <2>2, <2>4, <2>6
  <2> QED
    BY <2>5, <2>6
<1> QED
  BY <1>3, <1>4

\* The account of one counter holds after a step of one thread if the counter
\* changes by what the thread and the leases do.
LEMMA AccountMoves ==
  ASSUME Typed, Account, NEW t \in Thread, NEW label, NEW new, Moves(t, label, new),
         NEW s \in 0 .. MaxStates, NEW k \in Limited,
         Weight(LeasesOf(s)', LeaseCost(k)) \in Nat,
         usage'[s][k] + (IF Counts(t, s, k) THEN Cost(k)[t] ELSE 0)
             + Weight(LeasesOf(s), LeaseCost(k)) =
           usage[s][k] + (IF Counts(t, s, k)' THEN Cost(k)'[t] ELSE 0)
             + Weight(LeasesOf(s)', LeaseCost(k)),
         usage'[s][k] \in Int
  PROVE  usage'[s][k] = Weight(LeasesOf(s)', LeaseCost(k)) + Weight(Counting(s, k)', Cost(k)')
<1> DEFINE a == IF Counts(t, s, k) THEN Cost(k)[t] ELSE 0
           b == IF Counts(t, s, k)' THEN Cost(k)'[t] ELSE 0
           l0 == Weight(LeasesOf(s), LeaseCost(k))
           l1 == Weight(LeasesOf(s)', LeaseCost(k))
           c0 == Weight(Counting(s, k), Cost(k))
           c1 == Weight(Counting(s, k)', Cost(k)')
           u0 == usage[s][k]
           u1 == usage'[s][k]
<1>1. u0 = l0 + c0
  BY DEF Account
<1>2. c1 + a = c0 + b /\ c0 \in Nat /\ c1 \in Nat
  BY SumsMove
<1>3. l0 \in Nat
  <2>1. LeasesOf(s) \subseteq Lease /\ IsFiniteSet(LeasesOf(s))
    <3>1. LeasesOf(s) \in SUBSET leases
      BY DEF LeasesOf
    <3> QED
      BY <3>1, FS_Subset DEF Typed
  <2> QED
    BY <2>1, LeasesWeigh, WeightBound
<1>4. Cost(k)[t] \in Nat /\ Cost(k)'[t] \in Nat
  <2>1. /\ MaxCost(k) \in Nat
        /\ CostOf(job, k)[t] \in 0 .. MaxCost(k) /\ CostOf(job', k)[t] \in 0 .. MaxCost(k)
    BY CostsWeigh DEF Typed, Moves
  <2> QED
    BY <2>1 DEF Cost
<1>5. a \in Nat /\ b \in Nat /\ l1 \in Nat /\ u1 \in Int
  BY <1>4
<1>6. u1 + a + l0 = u0 + b + l1
  OBVIOUS
<1> HIDE DEF a, b, l0, l1, c0, c1, u0, u1
<1>7. u1 = l1 + c1
  BY <1>1, <1>2, <1>3, <1>5, <1>6
<1> QED
  BY <1>7 DEF u1, l1, c1

LEMMA LeasesNat ==
  ASSUME Typed, NEW s \in 0 .. MaxStates, NEW k \in Limited
  PROVE  Weight(LeasesOf(s), LeaseCost(k)) \in Nat
<1>1. LeasesOf(s) \subseteq Lease /\ IsFiniteSet(LeasesOf(s))
  <2>1. LeasesOf(s) \in SUBSET leases
    BY DEF LeasesOf
  <2> QED
    BY <2>1, FS_Subset DEF Typed
<1> QED
  BY <1>1, LeasesWeigh, WeightBound

\* A thread that holds nothing and adds nothing.
LEMMA QuietAccount ==
  ASSUME Typed, Account, NEW t \in Thread, NEW label, NEW new, Moves(t, label, new),
         UNCHANGED << usage, leases >>, pc[t] \notin {"reserve", "release"},
         label # "release", label = "reserve" => new.at = 1
  PROVE  Account'
<1> SUFFICES ASSUME NEW s \in 0 .. MaxStates, NEW k \in Limited
             PROVE  usage'[s][k] = Weight(LeasesOf(s)', LeaseCost(k))
                                     + Weight(Counting(s, k)', Cost(k)')
  BY DEF Account, LeaseCost
<1>1. LeasesOf(s)' = LeasesOf(s) /\ usage'[s][k] = usage[s][k]
  BY DEF LeasesOf
<1>2. ~Counts(t, s, k) /\ ~Counts(t, s, k)'
  BY DEF Counts, Moves, ReserveAt, CheckAt
<1>3. usage[s][k] \in Int /\ Weight(LeasesOf(s), LeaseCost(k)) \in Nat
  BY LeasesNat DEF Typed, Limited, Counters
<1>4. usage'[s][k] + 0 + Weight(LeasesOf(s), LeaseCost(k)) =
        usage[s][k] + 0 + Weight(LeasesOf(s)', LeaseCost(k))
  BY <1>1
<1>5. usage'[s][k] + (IF Counts(t, s, k) THEN Cost(k)[t] ELSE 0)
          + Weight(LeasesOf(s), LeaseCost(k)) =
        usage[s][k] + (IF Counts(t, s, k)' THEN Cost(k)'[t] ELSE 0)
          + Weight(LeasesOf(s)', LeaseCost(k))
  BY <1>2, <1>4
<1> QED
  BY <1>1, <1>3, <1>5, AccountMoves

\* Nobody moves.
LEMMA SameSums ==
  ASSUME NEW s, NEW k, UNCHANGED << pc, job, leases >>
  PROVE  /\ Weight(LeasesOf(s)', LeaseCost(k)) = Weight(LeasesOf(s), LeaseCost(k))
         /\ Weight(Counting(s, k)', Cost(k)') = Weight(Counting(s, k), Cost(k))
         /\ Weight(Passing(s, k)', Cost(k)') = Weight(Passing(s, k), Cost(k))
<1>1. LeasesOf(s)' = LeasesOf(s) /\ Cost(k)' = Cost(k)
  BY DEF LeasesOf, Cost, CostOf
<1>2. Counting(s, k)' = Counting(s, k) /\ Passing(s, k)' = Passing(s, k)
  BY DEF Counting, Passing, Counts, Passed, Concerns
<1> QED
  BY <1>1, <1>2

\* What the working thread t weighs before and after it moves on.
LEMMA CostStays ==
  ASSUME Typed, NEW t \in Thread, NEW label, NEW new, Moves(t, label, new),
         new.bytes = job[t].bytes, NEW k \in Limited
  PROVE  /\ Cost(k)'[t] = Cost(k)[t] /\ Cost(k)[t] \in Nat
         /\ pc'[t] = label /\ job'[t] = new
<1>1. job'[t].bytes = job[t].bytes /\ pc'[t] = label /\ job'[t] = new
  BY DEF Moves
<1>2. /\ MaxCost(k) \in Nat
      /\ CostOf(job, k)[t] \in 0 .. MaxCost(k)
      /\ CostOf(job, k)[t] = IF k = "memory" THEN job[t].bytes ELSE 1
      /\ CostOf(job', k)[t] = IF k = "memory" THEN job'[t].bytes ELSE 1
  BY CostsWeigh DEF Typed, Moves
<1>3. Cost(k)[t] = CostOf(job, k)[t] /\ Cost(k)'[t] = CostOf(job', k)[t]
  BY DEF Cost
<1> HIDE DEF Cost
<1> QED
  BY <1>1, <1>2, <1>3

LEMMA ReserveAccount ==
  ASSUME Typed, Typed', Working, Distinct, Account, NEW t \in Thread, Reserve(t)
  PROVE  Account'
<1> SUFFICES ASSUME NEW s \in 0 .. MaxStates, NEW k \in Limited
             PROVE  usage'[s][k] = Weight(LeasesOf(s)', LeaseCost(k))
                                     + Weight(Counting(s, k)', Cost(k)')
  BY DEF Account, LeaseCost
<1> DEFINE p == job[t].at
           r == ReserveAt(s, k)
           w == Cost(k)[t]
           l == [id |-> job[t].id, state |-> job[t].state, bytes |-> job[t].bytes]
           near == Concerns(t, s)
<1>1. p \in 1 .. 6 /\ r \in 1 .. 6 /\ pc[t] = "reserve"
  BY DEF Typed, Call, ReserveAt, CheckAt, Reserve
<1>2. usage'[s][k] = IF near /\ p = r THEN usage[s][k] + w ELSE usage[s][k]
  BY CountersMove
<1>3. usage[s][k] \in Int /\ usage'[s][k] \in Int
  <2>1. k \in Counters
    BY DEF Limited, Counters
  <2>2. /\ usage \in [0 .. MaxStates -> [Counters -> Int]]
        /\ usage' \in [0 .. MaxStates -> [Counters -> Int]]
    BY DEF Typed
  <2> QED
    BY <2>1, <2>2
<1>4. Weight(LeasesOf(s), LeaseCost(k)) \in Nat
  BY LeasesNat
<1>5. Counts(t, s, k) <=> near /\ r < p
  BY <1>1 DEF Counts
<1>6. w \in Nat /\ w = IF k = "memory" THEN job[t].bytes ELSE 1
  <2>1. /\ MaxCost(k) \in Nat
        /\ CostOf(job, k)[t] \in 0 .. MaxCost(k)
        /\ CostOf(job, k)[t] = IF k = "memory" THEN job[t].bytes ELSE 1
    BY CostsWeigh DEF Typed
  <2> QED
    BY <2>1 DEF Cost
<1>7. CASE p < 6 /\ leases' = leases
           /\ Moves(t, "reserve", Fields(job[t].tenant, job[t].bytes, job[t].state, job[t].id, p + 1))
  <2>1. Cost(k)'[t] = w /\ job'[t].state = job[t].state /\ job'[t].at = p + 1 /\ pc'[t] = "reserve"
    <3> DEFINE new == Fields(job[t].tenant, job[t].bytes, job[t].state, job[t].id, p + 1)
    <3>1. Moves(t, "reserve", new)
      BY <1>7
    <3>2. new.bytes = job[t].bytes /\ new.state = job[t].state /\ new.at = p + 1
      BY FieldsAre
    <3> HIDE DEF p, new
    <3> QED
      BY <3>1, <3>2, CostStays
  <2>2. Counts(t, s, k)' <=> near /\ r < p + 1
    BY <2>1 DEF Counts, Concerns
  <2>3. LeasesOf(s)' = LeasesOf(s)
    BY <1>7 DEF LeasesOf
  <2>4. usage'[s][k] + (IF Counts(t, s, k) THEN w ELSE 0) + Weight(LeasesOf(s), LeaseCost(k)) =
          usage[s][k] + (IF Counts(t, s, k)' THEN Cost(k)'[t] ELSE 0)
            + Weight(LeasesOf(s)', LeaseCost(k))
    <3> DEFINE u0 == usage[s][k]
               u1 == usage'[s][k]
               x == Weight(LeasesOf(s), LeaseCost(k))
               before == Counts(t, s, k)
               after == Counts(t, s, k)'
    <3> HIDE DEF u0, u1, x, before, after, near, p, r, w
    <3>1. u1 = IF near /\ p = r THEN u0 + w ELSE u0
      BY <1>2 DEF u0, u1
    <3>2. (before <=> near /\ r < p) /\ (after <=> near /\ r < p + 1)
      BY <1>5, <2>2 DEF before, after
    <3>3. u0 \in Int /\ u1 \in Int /\ x \in Nat /\ w \in Nat /\ p \in Nat /\ r \in Nat
      BY <1>1, <1>3, <1>4, <1>6 DEF u0, u1, x
    <3>4. u1 + (IF before THEN w ELSE 0) + x = u0 + (IF after THEN w ELSE 0) + x
      BY <3>1, <3>2, <3>3
    <3> QED
      BY <2>1, <2>3, <3>4 DEF u0, u1, x, before, after
  <2>5. Weight(LeasesOf(s)', LeaseCost(k)) \in Nat
    BY <1>4, <2>3
  <2> HIDE DEF p
  <2> QED
    BY <1>3, <1>7, <2>4, <2>5, AccountMoves DEF w
<1>8. CASE p = 6 /\ Moves(t, "idle", NoJob) /\ leases' = leases \union {l}
  <2>1. ~Counts(t, s, k)'
    BY <1>8 DEF Counts, Moves
  <2>2. l \in Lease /\ l \notin leases /\ (l.state = s <=> job[t].state = s)
    <3>1. l \in Lease
      BY <1>8 DEF Typed
    <3>2. l.id = job[t].id /\ pc[t] \in Acquiring
      BY <1>1 DEF Acquiring
    <3> QED
      BY <3>1, <3>2 DEF Distinct
  <2>3. LeaseCost(k)[l] = w
    <3>1. LeaseCost(k)[l] = IF k = "memory" THEN l.bytes ELSE 1
      BY <2>2 DEF LeaseCost
    <3>2. l.bytes = job[t].bytes
      OBVIOUS
    <3> QED
      BY <1>6, <3>1, <3>2
  <2>4. Weight(LeasesOf(s)', LeaseCost(k)) =
          Weight(LeasesOf(s), LeaseCost(k)) + (IF near THEN w ELSE 0)
    <3>1. near <=> s = 0 \/ l.state = s
      BY DEF Concerns
    <3> HIDE DEF l, near, w
    <3>2. Weight(LeasesOf(s)', LeaseCost(k)) =
            Weight(LeasesOf(s), LeaseCost(k))
              + (IF s = 0 \/ l.state = s THEN LeaseCost(k)[l] ELSE 0)
      BY <1>8, <2>2, LeaseSums
    <3> QED
      BY <2>3, <3>1, <3>2
  <2>5. /\ usage'[s][k] + (IF Counts(t, s, k) THEN w ELSE 0) + Weight(LeasesOf(s), LeaseCost(k)) =
             usage[s][k] + (IF Counts(t, s, k)' THEN Cost(k)'[t] ELSE 0)
               + Weight(LeasesOf(s)', LeaseCost(k))
        /\ Weight(LeasesOf(s)', LeaseCost(k)) \in Nat
    <3> DEFINE u0 == usage[s][k]
               u1 == usage'[s][k]
               x == Weight(LeasesOf(s), LeaseCost(k))
               y == Weight(LeasesOf(s)', LeaseCost(k))
               before == Counts(t, s, k)
    <3> HIDE DEF u0, u1, x, y, before, near, p, r, w
    <3>1. u1 = IF near /\ p = r THEN u0 + w ELSE u0
      BY <1>2 DEF u0, u1
    <3>2. (before <=> near /\ r < p) /\ p = 6 /\ r <= 6
      BY <1>1, <1>5, <1>8 DEF before
    <3>3. u0 \in Int /\ u1 \in Int /\ x \in Nat /\ w \in Nat /\ p \in Nat /\ r \in Nat
      BY <1>1, <1>3, <1>4, <1>6 DEF u0, u1, x
    <3>4. y = x + (IF near THEN w ELSE 0)
      BY <2>4 DEF x, y
    <3>5. u1 + (IF before THEN w ELSE 0) + x = u0 + 0 + y /\ y \in Nat
      BY <3>1, <3>2, <3>3, <3>4
    <3> QED
      BY <2>1, <3>5 DEF u0, u1, x, y, before
  <2> QED
    BY <1>3, <1>8, <2>5, AccountMoves DEF w
<1> QED
  BY <1>7, <1>8, WorkMoves

LEMMA ReleaseAccount ==
  ASSUME Typed, Typed', Working, Account, NEW t \in Thread, Release(t)
  PROVE  Account'
<1> SUFFICES ASSUME NEW s \in 0 .. MaxStates, NEW k \in Limited
             PROVE  usage'[s][k] = Weight(LeasesOf(s)', LeaseCost(k))
                                     + Weight(Counting(s, k)', Cost(k)')
  BY DEF Account, LeaseCost
<1> DEFINE p == job[t].at
           r == ReleaseAt(s, k)
           w == Cost(k)[t]
           near == Concerns(t, s)
           u0 == usage[s][k]
           u1 == usage'[s][k]
           x == Weight(LeasesOf(s), LeaseCost(k))
           before == Counts(t, s, k)
           after == Counts(t, s, k)'
<1>1. p \in 1 .. 4 /\ r \in 1 .. 4 /\ pc[t] = "release"
  <2>1. p \in 1 .. 6
    BY DEF Typed, Call
  <2>2. p <= 4 /\ pc[t] = "release"
    BY DEF Release, Working, Works
  <2>3. r \in 1 .. 4
    BY DEF ReleaseAt
  <2> QED
    BY <2>1, <2>2, <2>3
<1>2. u1 = IF near /\ p = r THEN u0 - w ELSE u0
  BY CountersMove
<1>3. u0 \in Int /\ u1 \in Int
  <2>1. k \in Counters
    BY DEF Limited, Counters
  <2>2. /\ usage \in [0 .. MaxStates -> [Counters -> Int]]
        /\ usage' \in [0 .. MaxStates -> [Counters -> Int]]
    BY DEF Typed
  <2> QED
    BY <2>1, <2>2
<1>4. x \in Nat /\ LeasesOf(s)' = LeasesOf(s)
  BY LeasesNat DEF LeasesOf, Release
<1>5. before <=> near /\ p <= r
  BY <1>1 DEF Counts
<1>6. w \in Nat
  <2>1. MaxCost(k) \in Nat /\ CostOf(job, k)[t] \in 0 .. MaxCost(k)
    BY CostsWeigh DEF Typed
  <2> QED
    BY <2>1 DEF Cost
<1>7. CASE p < 4 /\ Moves(t, "release",
                      Fields(job[t].tenant, job[t].bytes, job[t].state, job[t].id, p + 1))
  <2>1. Cost(k)'[t] = w /\ job'[t].state = job[t].state /\ job'[t].at = p + 1 /\ pc'[t] = "release"
    <3> DEFINE new == Fields(job[t].tenant, job[t].bytes, job[t].state, job[t].id, p + 1)
    <3>1. Moves(t, "release", new)
      BY <1>7
    <3>2. new.bytes = job[t].bytes /\ new.state = job[t].state /\ new.at = p + 1
      BY FieldsAre
    <3> HIDE DEF p, new
    <3> QED
      BY <3>1, <3>2, CostStays
  <2>2. after <=> near /\ p + 1 <= r
    BY <2>1 DEF Counts, Concerns
  <2> HIDE DEF u0, u1, x, before, after, near, p, r, w
  <2>3. u1 + (IF before THEN w ELSE 0) + x = u0 + (IF after THEN w ELSE 0) + x
    <3>1. p \in Nat /\ r \in Nat
      BY <1>1
    <3> QED
      BY <1>2, <1>3, <1>4, <1>5, <1>6, <2>2, <3>1
  <2>4. usage'[s][k] + (IF Counts(t, s, k) THEN Cost(k)[t] ELSE 0)
            + Weight(LeasesOf(s), LeaseCost(k)) =
          usage[s][k] + (IF Counts(t, s, k)' THEN Cost(k)'[t] ELSE 0)
            + Weight(LeasesOf(s)', LeaseCost(k))
    BY <1>4, <2>1, <2>3 DEF u0, u1, x, before, after, w
  <2>5. usage'[s][k] \in Int /\ Weight(LeasesOf(s)', LeaseCost(k)) \in Nat
    BY <1>3, <1>4 DEF u1, x
  <2> QED
    BY <1>7, <2>4, <2>5, AccountMoves
<1>8. CASE p = 4 /\ Moves(t, "idle", NoJob)
  <2>1. ~after
    BY <1>8 DEF Counts, Moves
  <2> HIDE DEF u0, u1, x, before, after, near, p, r, w
  <2>3. u1 + (IF before THEN w ELSE 0) + x = u0 + 0 + x
    <3>1. r \in Nat /\ r <= 4 /\ p = 4
      BY <1>1, <1>8
    <3> QED
      BY <1>2, <1>3, <1>4, <1>5, <1>6, <3>1
  <2>4. usage'[s][k] + (IF Counts(t, s, k) THEN Cost(k)[t] ELSE 0)
            + Weight(LeasesOf(s), LeaseCost(k)) =
          usage[s][k] + (IF Counts(t, s, k)' THEN Cost(k)'[t] ELSE 0)
            + Weight(LeasesOf(s)', LeaseCost(k))
    BY <1>4, <2>1, <2>3 DEF u0, u1, x, before, after, w
  <2>5. usage'[s][k] \in Int /\ Weight(LeasesOf(s)', LeaseCost(k)) \in Nat
    BY <1>3, <1>4 DEF u1, x
  <2> QED
    BY <1>8, <2>4, <2>5, AccountMoves
<1> QED
  BY <1>7, <1>8, WorkMoves

LEMMA DropAccount ==
  ASSUME Typed, Typed', Account, Working, NEW t \in Thread, NEW l \in leases, Drop(t, l)
  PROVE  Account'
<1> SUFFICES ASSUME NEW s \in 0 .. MaxStates, NEW k \in Limited
             PROVE  usage'[s][k] = Weight(LeasesOf(s)', LeaseCost(k))
                                     + Weight(Counting(s, k)', Cost(k)')
  BY DEF Account, LeaseCost
<1> DEFINE new == Fields(None, l.bytes, l.state, l.id, 1)
           u0 == usage[s][k]
           x == Weight(LeasesOf(s), LeaseCost(k))
           y == Weight(LeasesOf(s)', LeaseCost(k))
           w == LeaseCost(k)[l]
           near == s = 0 \/ l.state = s
           after == Counts(t, s, k)'
<1>1. /\ pc[t] = "idle" /\ leases' = leases \ {l} /\ usage' = usage
      /\ Moves(t, "release", new) /\ l \in Lease
  BY WorkMoves DEF Drop, Typed
<1>2. new.bytes = l.bytes /\ new.state = l.state /\ new.at = 1
  BY FieldsAre
<1>3. pc'[t] = "release" /\ job'[t] = new /\ job' \in [Thread -> Call]
  BY <1>1 DEF Moves
<1>4. Cost(k)'[t] = w
  <2>1. CostOf(job', k)[t] = IF k = "memory" THEN job'[t].bytes ELSE 1
    BY <1>3, CostsWeigh
  <2>2. Cost(k)'[t] = CostOf(job', k)[t]
    BY DEF Cost
  <2>3. w = IF k = "memory" THEN l.bytes ELSE 1
    BY <1>1 DEF LeaseCost
  <2> HIDE DEF w, new
  <2> QED
    BY <1>2, <1>3, <2>1, <2>2, <2>3
<1>5. ~Counts(t, s, k) /\ (after <=> near)
  <2>1. job'[t].state = l.state /\ job'[t].at = 1
    BY <1>2, <1>3
  <2>2. 1 <= ReleaseAt(s, k)
    BY DEF ReleaseAt
  <2> QED
    BY <1>1, <1>3, <2>1, <2>2 DEF Counts, Concerns
<1>6. y = x - (IF near THEN w ELSE 0) /\ x \in Nat
  BY <1>1, LeaseSums
<1>7. y \in Nat /\ w \in Nat
  <2>1. y \in Nat
    <3>1. LeasesOf(s)' \subseteq Lease /\ IsFiniteSet(LeasesOf(s)')
      <4>1. LeasesOf(s)' \in SUBSET leases'
        BY DEF LeasesOf
      <4>2. IsFiniteSet(leases') /\ leases' \subseteq Lease
        BY DEF Typed
      <4> QED
        BY <4>1, <4>2, FS_Subset
    <3> QED
      BY <3>1, LeasesWeigh, WeightBound
  <2>2. w \in Nat
    <3>1. w = IF k = "memory" THEN l.bytes ELSE 1
      BY <1>1 DEF LeaseCost
    <3>2. l.bytes \in Nat
      BY <1>1, Bounds DEF Lease
    <3> QED
      BY <3>1, <3>2
  <2> QED
    BY <2>1, <2>2
<1>8. u0 \in Int /\ usage'[s][k] = u0
  BY <1>1 DEF Typed, Limited, Counters
<1> HIDE DEF u0, x, y, w, near, after, new
<1>9. u0 + 0 + x = u0 + (IF after THEN w ELSE 0) + y
  BY <1>5, <1>6, <1>7, <1>8
<1>10. usage'[s][k] + (IF Counts(t, s, k) THEN Cost(k)[t] ELSE 0)
           + Weight(LeasesOf(s), LeaseCost(k)) =
         usage[s][k] + (IF Counts(t, s, k)' THEN Cost(k)'[t] ELSE 0)
           + Weight(LeasesOf(s)', LeaseCost(k))
  BY <1>4, <1>5, <1>8, <1>9 DEF u0, x, y, after
<1>11. usage'[s][k] \in Int /\ Weight(LeasesOf(s)', LeaseCost(k)) \in Nat
  BY <1>7, <1>8 DEF y
<1> QED
  BY <1>1, <1>10, <1>11, AccountMoves

LEMMA AccountStep ==
  ASSUME Typed, Typed', Working, Distinct, Account, [Next]_vars
  PROVE  Account'
<1>1. ASSUME NEW t \in Thread, NEW n \in Tenant, RegisterTenant(t, n) PROVE Account'
  <2>1. /\ Moves(t, "len", Fields(n, 0, 0, 0, 1)) /\ UNCHANGED << usage, leases >>
        /\ pc[t] \notin {"reserve", "release"}
    BY <1>1, RegisterMoves DEF RegisterTenant
  <2> QED
    BY <2>1, QuietAccount
<1>2. ASSUME NEW t \in Thread, RegisterLen(t) \/ RegisterContains(t) \/ RegisterInsert(t)
      PROVE  Account'
  <2>1. /\ UNCHANGED << usage, leases >> /\ pc[t] \notin {"reserve", "release"}
        /\ \E label \in {"idle", "contains", "insert", "get"} : \E new : Moves(t, label, new)
    BY <1>2, RegisterMoves DEF RegisterLen, RegisterContains, RegisterInsert
  <2> QED
    BY <2>1, QuietAccount
<1>3. ASSUME NEW t \in Thread, NEW n \in Tenant, Acquire(t, n) PROVE Account'
  <2>1. /\ UNCHANGED << usage, leases >> /\ pc[t] \notin {"reserve", "release"}
    BY <1>3 DEF Acquire
  <2>2. \E label \in {"len", "check"} : \E new : Moves(t, label, new)
    BY <1>3, AcquireMoves
  <2> QED
    BY <2>1, <2>2, QuietAccount
<1>4. ASSUME NEW t \in Thread, GetRegistered(t) PROVE Account'
  <2>1. /\ UNCHANGED << usage, leases >> /\ pc[t] \notin {"reserve", "release"}
    BY <1>4 DEF GetRegistered
  <2>2. \E label \in {"panicked", "check"} : \E new : Moves(t, label, new)
    BY <1>4, AcquireMoves
  <2> QED
    BY <2>1, <2>2, QuietAccount
<1>5. ASSUME NEW t \in Thread, Check(t) PROVE Account'
  <2>1. /\ UNCHANGED << usage, leases >> /\ pc[t] \notin {"reserve", "release"}
    BY <1>5 DEF Check
  <2>2. \E label \in {"idle", "check", "reserve"} : \E new :
          Moves(t, label, new) /\ (label = "reserve" => new.at = 1)
    BY <1>5, WorkMoves, FieldsAre
  <2> QED
    BY <2>1, <2>2, QuietAccount
<1>6. ASSUME NEW n \in Tenant, UpdateQuota(n) \/ RemoveTenant(n) PROVE Account'
  <2>1. UNCHANGED << pc, job, leases >> /\ usage' = usage
    BY <1>6 DEF UpdateQuota, RemoveTenant
  <2> QED
    BY <2>1, SameSums DEF Account, LeaseCost
<1>7. ASSUME NEW n \in Tenant, NEW k \in {"rps", "minute"}, Reset(n, k) PROVE Account'
  <2>1. UNCHANGED << pc, job, leases >>
    BY <1>7 DEF Reset
  <2>2. \A s \in 0 .. MaxStates, h \in Limited : usage'[s][h] = usage[s][h]
    BY <1>7, Resets DEF Reset
  <2> QED
    BY <2>1, <2>2, SameSums DEF Account, LeaseCost
<1>8. CASE UNCHANGED vars
  <2>1. UNCHANGED << pc, job, leases >> /\ usage' = usage
    BY <1>8 DEF vars
  <2> QED
    BY <2>1, SameSums DEF Account, LeaseCost
<1> QED
  BY <1>1, <1>2, <1>3, <1>4, <1>5, <1>6, <1>7, <1>8, ReserveAccount, ReleaseAccount, DropAccount
  DEF Next, Step

-----------------------------------------------------------------------------
(* The limits *)

\* What all threads but one can add without another comparison.
Slack(k) == (Cardinality(Thread) - 1) * MaxCost(k)

LEMMA SlackIs ==
  ASSUME NEW k \in Limited, NEW s \in 0 .. MaxStates
  PROVE  Slack(k) \in Nat /\ Limit(s, k) \in Nat
<1>1. MaxCost(k) \in Nat /\ Limit(s, k) \in Nat
  BY Bounds DEF MaxCost, Limit
<1>2. Cardinality(Thread) - 1 \in Nat
  BY Bounds
<1>3. \A a, b \in Nat : a * b \in Nat
  OBVIOUS
<1> QED
  BY <1>1, <1>2, <1>3 DEF Slack

\* Before its own comparison a thread is not among those that have passed it.
LEMMA OthersWeigh ==
  ASSUME Typed, NEW t \in Thread, NEW s \in 0 .. MaxStates, NEW k \in Limited,
         ~Passed(t, s, k)
  PROVE  Weight(Passing(s, k), Cost(k)) <= Slack(k)
<1> DEFINE T == Passing(s, k)
           n == Cardinality(Thread)
           c == Cardinality(T)
           m == MaxCost(k)
<1>1. T \in SUBSET (Thread \ {t}) /\ T \in SUBSET Thread
  BY DEF Passing
<1>2. /\ IsFiniteSet(Thread \ {t}) /\ Cardinality(Thread \ {t}) = n - 1
  BY PoolAssumption, FS_RemoveElement
<1>3. IsFiniteSet(T) /\ c <= n - 1 /\ c \in Nat
  BY <1>1, <1>2, FS_Subset, FS_CardinalityType
<1>4. Weighable(T, Cost(k), m) /\ m \in Nat
  BY <1>1, CostsWeigh DEF Typed, Cost
<1>5. Weight(T, Cost(k)) <= c * m /\ Weight(T, Cost(k)) \in Nat
  BY <1>4, WeightBound
<1>6. n \in Nat /\ n >= 1
  BY Bounds
<1>7. \A a, b, d \in Nat : a <= b => a * d <= b * d
  OBVIOUS
<1>8. \A a, b \in Nat : a * b \in Nat
  OBVIOUS
<1> HIDE DEF T, n, c, m
<1>9. n - 1 \in Nat
  BY <1>6
<1>10. c * m <= (n - 1) * m /\ c * m \in Nat /\ (n - 1) * m \in Nat
  BY <1>3, <1>4, <1>7, <1>8, <1>9
<1>11. \A a, b, d \in Nat : a <= b /\ b <= d => a <= d
  OBVIOUS
<1>12. Weight(T, Cost(k)) <= (n - 1) * m
  BY <1>5, <1>10, <1>11
<1> QED
  BY <1>12 DEF Slack, T, n, m

\* What each comparison says.
LEMMA PassesSays ==
  ASSUME NEW t \in Thread, NEW c, Passes(t, c)
  PROVE  /\ c = Own("memory") => usage[job[t].state].memory <= MaxMemory
         /\ c = Own("active") => usage[job[t].state].active < tenants[job[t].tenant].max
         /\ c = Total("memory") => usage[0].memory + job[t].bytes <= MaxTotalMemory
         /\ c = Total("active") => usage[0].active < MaxTotal
<1>1. /\ \A k, h : Own(k) # Total(h)
      /\ \A k, h : k # h => Own(k) # Own(h) /\ Total(k) # Total(h)
  <2>1. \A k, h : Own(k).of # Total(h).of
    BY DEF Own, Total
  <2>2. \A k : Own(k).counter = k /\ Total(k).counter = k
    BY DEF Own, Total
  <2> QED
    BY <2>1, <2>2
<1>2. /\ "memory" # "active" /\ "memory" # "rps" /\ "memory" # "minute"
      /\ "active" # "rps" /\ "active" # "minute"
  OBVIOUS
<1>3. ASSUME c = Own("memory") PROVE usage[job[t].state].memory <= MaxMemory
  <2>1. /\ c # Own("active") /\ c # Own("rps") /\ c # Own("minute")
        /\ c # Total("memory") /\ c # Total("active")
    BY <1>1, <1>2, <1>3
  <2> QED
    BY <1>3, <2>1 DEF Passes
<1>4. ASSUME c = Own("active") PROVE usage[job[t].state].active < tenants[job[t].tenant].max
  <2>1. /\ c # Own("memory") /\ c # Own("rps") /\ c # Own("minute")
        /\ c # Total("memory") /\ c # Total("active")
    BY <1>1, <1>2, <1>4
  <2> QED
    BY <1>4, <2>1 DEF Passes
<1>5. ASSUME c = Total("memory") PROVE usage[0].memory + job[t].bytes <= MaxTotalMemory
  <2>1. /\ c # Own("memory") /\ c # Own("active") /\ c # Own("rps") /\ c # Own("minute")
        /\ c # Total("active")
    BY <1>1, <1>2, <1>5
  <2> QED
    BY <1>5, <2>1 DEF Passes
<1>6. ASSUME c = Total("active") PROVE usage[0].active < MaxTotal
  <2>1. /\ c # Own("memory") /\ c # Own("active") /\ c # Own("rps") /\ c # Own("minute")
        /\ c # Total("memory")
    BY <1>1, <1>2, <1>6
  <2> QED
    BY <1>6, <2>1 DEF Passes
<1> QED
  BY <1>3, <1>4, <1>5, <1>6

\* A comparison that a request passes leaves room for it.
LEMMA PassesRoom ==
  ASSUME Typed, Working, NEW t \in Thread, pc[t] = "check",
         NEW s \in 0 .. MaxStates, NEW k \in Limited, Concerns(t, s),
         job[t].at = CheckAt(s, k), Passes(t, Checks[job[t].at])
  PROVE  usage[s][k] + Cost(k)[t] <= Limit(s, k)
<1> DEFINE u == usage[s][k]
           b == job[t].bytes
<1>1. u \in Int
  BY DEF Typed, Limited, Counters
<1>2. b \in Sizes /\ b \in Nat /\ b <= Max(Sizes) /\ job[t].state \in 1 .. MaxStates
  BY Bounds DEF Working, Works
<1>3. Cost(k)[t] = IF k = "memory" THEN b ELSE 1
  BY DEF Cost, CostOf
<1>4. CASE s = 0 /\ k = "memory"
  <2>1. Checks[job[t].at] = Total("memory")
    BY <1>4 DEF CheckAt, Checks
  <2>2. u + b <= MaxTotalMemory
    BY <1>4, <2>1, PassesSays
  <2> QED
    BY <1>3, <1>4, <2>2 DEF Limit
<1>5. CASE s = 0 /\ k = "active"
  <2>1. Checks[job[t].at] = Total("active")
    BY <1>5 DEF CheckAt, Checks
  <2>2. u < MaxTotal
    BY <1>5, <2>1, PassesSays
  <2>3. u + 1 <= MaxTotal
    BY <1>1, <2>2, Bounds
  <2> QED
    BY <1>3, <1>5, <2>3 DEF Limit
<1>6. CASE s # 0 /\ k = "memory"
  <2>1. Checks[job[t].at] = Own("memory") /\ s = job[t].state
    BY <1>6 DEF CheckAt, Checks, Concerns
  <2>2. u <= MaxMemory
    BY <1>6, <2>1, PassesSays
  <2>3. u + b <= MaxMemory + Max(Sizes)
    <3>1. MaxMemory \in Nat /\ Max(Sizes) \in Nat
      BY Bounds
    <3> HIDE DEF u, b
    <3> QED
      BY <1>1, <1>2, <2>2, <3>1
  <2> QED
    BY <1>3, <1>6, <2>3 DEF Limit
<1>7. CASE s # 0 /\ k = "active"
  <2> DEFINE q == tenants[job[t].tenant].max
  <2>1. Checks[job[t].at] = Own("active") /\ s = job[t].state
    BY <1>7 DEF CheckAt, Checks, Concerns
  <2>2. u < q
    BY <1>7, <2>1, PassesSays
  <2>3. q \in Quotas
    BY DEF Typed, Working, Works
  <2>4. u + 1 <= Max(Quotas)
    <3>1. q \in Nat /\ q <= Max(Quotas) /\ Max(Quotas) \in Nat
      BY <2>3, Bounds
    <3> HIDE DEF u, q
    <3> QED
      BY <1>1, <2>2, <3>1
  <2> QED
    BY <1>3, <1>7, <2>4 DEF Limit
<1> QED
  BY <1>4, <1>5, <1>6, <1>7 DEF Limited

\* A step of one thread keeps the room if what it adds to the counter it takes
\* from what it may add.
LEMMA RoomMoves ==
  ASSUME Typed, Room, NEW t \in Thread, NEW label, NEW new, Moves(t, label, new),
         NEW s \in 0 .. MaxStates, NEW k \in Limited, usage'[s][k] \in Int,
         usage'[s][k] + (IF Passed(t, s, k)' THEN Cost(k)'[t] ELSE 0)
           <= usage[s][k] + (IF Passed(t, s, k) THEN Cost(k)[t] ELSE 0)
  PROVE  usage'[s][k] + Weight(Passing(s, k)', Cost(k)') <= Limit(s, k) + Slack(k)
<1> DEFINE a == IF Passed(t, s, k) THEN Cost(k)[t] ELSE 0
           b == IF Passed(t, s, k)' THEN Cost(k)'[t] ELSE 0
           c0 == Weight(Passing(s, k), Cost(k))
           c1 == Weight(Passing(s, k)', Cost(k)')
           u0 == usage[s][k]
           u1 == usage'[s][k]
           r == Limit(s, k) + Slack(k)
<1>1. u0 + c0 <= r
  BY DEF Room, Slack
<1>3. c1 + a = c0 + b /\ c0 \in Nat /\ c1 \in Nat
  BY SumsMove
<1>4. Cost(k)[t] \in Nat /\ Cost(k)'[t] \in Nat
  <2>1. /\ MaxCost(k) \in Nat
        /\ CostOf(job, k)[t] \in 0 .. MaxCost(k) /\ CostOf(job', k)[t] \in 0 .. MaxCost(k)
    BY CostsWeigh DEF Typed, Moves
  <2> QED
    BY <2>1 DEF Cost
<1>5. a \in Nat /\ b \in Nat /\ u1 \in Int /\ u0 \in Int
  BY <1>4 DEF Typed, Limited, Counters
<1>6. u1 + b <= u0 + a
  OBVIOUS
<1>7. r \in Nat
  BY SlackIs
<1> HIDE DEF a, b, c0, c1, u0, u1, r
<1>8. u1 + c1 <= r
  BY <1>1, <1>3, <1>5, <1>6, <1>7
<1> QED
  BY <1>8 DEF u1, c1, r

LEMMA UsageInts ==
  ASSUME Typed, Typed', NEW s \in 0 .. MaxStates, NEW k \in Limited
  PROVE  usage[s][k] \in Int /\ usage'[s][k] \in Int
<1>1. k \in Counters
  BY DEF Limited, Counters
<1>2. /\ usage \in [0 .. MaxStates -> [Counters -> Int]]
      /\ usage' \in [0 .. MaxStates -> [Counters -> Int]]
  BY DEF Typed
<1> QED
  BY <1>1, <1>2

LEMMA CostNat ==
  ASSUME Typed, NEW t \in Thread, NEW k \in Limited
  PROVE  Cost(k)[t] \in Nat
<1>1. MaxCost(k) \in Nat /\ CostOf(job, k)[t] \in 0 .. MaxCost(k)
  BY CostsWeigh DEF Typed
<1> QED
  BY <1>1 DEF Cost

\* A thread that raises nothing and has not passed any comparison afterwards.
LEMMA QuietRoom ==
  ASSUME Typed, Typed', Room, NEW t \in Thread, NEW label, NEW new, Moves(t, label, new),
         label # "reserve", label = "check" => new.at = 1,
         \A s \in 0 .. MaxStates, k \in Limited : usage'[s][k] <= usage[s][k]
  PROVE  Room'
<1> SUFFICES ASSUME NEW s \in 0 .. MaxStates, NEW k \in Limited
             PROVE  usage'[s][k] + Weight(Passing(s, k)', Cost(k)') <= Limit(s, k) + Slack(k)
  BY DEF Room, Slack, Limit, MaxCost
<1>1. ~Passed(t, s, k)'
  BY DEF Passed, Moves, CheckAt
<1>2. usage'[s][k] + 0 <= usage[s][k] + (IF Passed(t, s, k) THEN Cost(k)[t] ELSE 0)
  <2> DEFINE u0 == usage[s][k]
             u1 == usage'[s][k]
             c == Cost(k)[t]
  <2>1. u0 \in Int /\ u1 \in Int /\ u1 <= u0
    BY UsageInts
  <2>2. c \in Nat
    BY CostNat
  <2> HIDE DEF u0, u1, c
  <2>3. u1 + 0 <= u0 + (IF Passed(t, s, k) THEN c ELSE 0)
    BY <2>1, <2>2
  <2> QED
    BY <2>3 DEF u0, u1, c
<1>3. usage'[s][k] + (IF Passed(t, s, k)' THEN Cost(k)'[t] ELSE 0)
        <= usage[s][k] + (IF Passed(t, s, k) THEN Cost(k)[t] ELSE 0)
  BY <1>1, <1>2
<1>4. usage'[s][k] \in Int
  BY UsageInts
<1> QED
  BY <1>3, <1>4, RoomMoves

\* exceeds_quota and the limits of the pool: a thread that passes finds room for
\* itself besides the others.
LEMMA CheckRoom ==
  ASSUME Typed, Typed', Working, Room, NEW t \in Thread, Check(t)
  PROVE  Room'
<1> SUFFICES ASSUME NEW s \in 0 .. MaxStates, NEW k \in Limited
             PROVE  usage'[s][k] + Weight(Passing(s, k)', Cost(k)') <= Limit(s, k) + Slack(k)
  BY DEF Room, Slack, Limit, MaxCost
<1> DEFINE p == job[t].at
           r == CheckAt(s, k)
           w == Cost(k)[t]
           near == Concerns(t, s)
           u == usage[s][k]
           before == Passed(t, s, k)
           after == Passed(t, s, k)'
<1>1. p \in 1 .. 6 /\ r \in 1 .. 6 /\ ReserveAt(s, k) = r /\ pc[t] = "check"
  BY DEF Typed, Call, CheckAt, ReserveAt, Check
<1>2. u \in Int /\ usage' = usage /\ usage'[s][k] = u
  BY UsageInts DEF Check
<1>3. before <=> near /\ r < p
  BY <1>1 DEF Passed
<1>4. w \in Nat
  BY CostNat
<1>5. CASE Moves(t, "idle", NoJob)
  <2>1. ~after
    BY <1>5 DEF Passed, Moves
  <2> HIDE DEF w, u, before, after
  <2>2. u + 0 <= u + (IF before THEN w ELSE 0)
    BY <1>2, <1>4
  <2>3. usage'[s][k] + (IF Passed(t, s, k)' THEN Cost(k)'[t] ELSE 0)
          <= usage[s][k] + (IF Passed(t, s, k) THEN Cost(k)[t] ELSE 0)
    BY <1>2, <2>1, <2>2 DEF u, before, after, w
  <2>4. usage'[s][k] \in Int
    BY <1>2
  <2> QED
    BY <1>5, <2>3, <2>4, RoomMoves
<1>6. ASSUME NEW label, NEW new, Moves(t, label, new), new.bytes = job[t].bytes,
             new.state = job[t].state, Passes(t, Checks[p]),
             \/ p = 6 /\ label = "reserve" /\ new.at = 1
             \/ p < 6 /\ label = "check" /\ new.at = p + 1
      PROVE  usage'[s][k] + Weight(Passing(s, k)', Cost(k)') <= Limit(s, k) + Slack(k)
  <2>1. Cost(k)'[t] = w /\ pc'[t] = label /\ job'[t] = new
    BY <1>6, CostStays
  <2>2. after <=> near /\ r < p + 1
    <3>1. Concerns(t, s)' <=> near
      BY <1>6, <2>1 DEF Concerns
    <3>2. CASE p = 6 /\ label = "reserve" /\ new.at = 1
      <4>1. after <=> near /\ 1 <= r
        BY <1>1, <2>1, <3>1, <3>2 DEF Passed
      <4>2. 1 <= r /\ r < p + 1
        BY <1>1, <3>2
      <4> QED
        BY <4>1, <4>2
    <3>3. CASE p < 6 /\ label = "check" /\ new.at = p + 1
      BY <1>1, <2>1, <3>1, <3>3 DEF Passed
    <3> QED
      BY <1>6, <3>2, <3>3
  <2>3. CASE near /\ p = r
    <3>1. ~before /\ after
      BY <1>1, <1>3, <2>2, <2>3
    <3>2. u + w <= Limit(s, k)
      BY <1>1, <1>6, <2>3, PassesRoom
    <3> DEFINE c0 == Weight(Passing(s, k), Cost(k))
               c1 == Weight(Passing(s, k)', Cost(k)')
    <3>3. c0 <= Slack(k)
      BY <3>1, OthersWeigh
    <3>4. c1 + (IF before THEN w ELSE 0) = c0 + (IF after THEN Cost(k)'[t] ELSE 0)
          /\ c0 \in Nat /\ c1 \in Nat
      BY <1>6, SumsMove
    <3>5. c1 + 0 = c0 + w
      BY <2>1, <3>1, <3>4
    <3>6. Slack(k) \in Nat /\ Limit(s, k) \in Nat
      BY SlackIs
    <3> HIDE DEF c0, c1, u, w
    <3>7. u + c1 <= Limit(s, k) + Slack(k)
      BY <1>2, <1>4, <3>2, <3>3, <3>4, <3>5, <3>6
    <3> QED
      BY <1>2, <3>7 DEF c1
  <2>4. CASE ~(near /\ p = r)
    <3>1. before <=> after
      BY <1>1, <1>3, <2>2, <2>4
    <3>2. usage'[s][k] + (IF Passed(t, s, k)' THEN Cost(k)'[t] ELSE 0)
            <= usage[s][k] + (IF Passed(t, s, k) THEN Cost(k)[t] ELSE 0)
      <4> HIDE DEF u, w, before, after
      <4>1. u + (IF after THEN w ELSE 0) <= u + (IF before THEN w ELSE 0)
        BY <1>2, <1>4, <3>1
      <4> QED
        BY <1>2, <2>1, <4>1 DEF u, w, before, after
    <3>3. usage'[s][k] \in Int
      BY <1>2
    <3> QED
      BY <1>6, <3>2, <3>3, RoomMoves
  <2> QED
    BY <2>3, <2>4
<1>7. \/ Moves(t, "idle", NoJob)
      \/ /\ Passes(t, Checks[p])
         /\ \/ /\ p = 6
               /\ Moves(t, "reserve", Fields(job[t].tenant, job[t].bytes, job[t].state, job[t].id, 1))
            \/ /\ p < 6
               /\ Moves(t, "check",
                        Fields(job[t].tenant, job[t].bytes, job[t].state, job[t].id, p + 1))
  BY WorkMoves
<1> HIDE DEF p
<1> QED
  BY <1>5, <1>6, <1>7, FieldsAre

\* A reservation takes what it adds from what may be added.
LEMMA ReserveRoom ==
  ASSUME Typed, Typed', Working, Room, NEW t \in Thread, Reserve(t)
  PROVE  Room'
<1> SUFFICES ASSUME NEW s \in 0 .. MaxStates, NEW k \in Limited
             PROVE  usage'[s][k] + Weight(Passing(s, k)', Cost(k)') <= Limit(s, k) + Slack(k)
  BY DEF Room, Slack, Limit, MaxCost
<1> DEFINE p == job[t].at
           r == ReserveAt(s, k)
           w == Cost(k)[t]
           near == Concerns(t, s)
           u0 == usage[s][k]
           u1 == usage'[s][k]
           before == Passed(t, s, k)
           after == Passed(t, s, k)'
<1>1. p \in 1 .. 6 /\ r \in 1 .. 6 /\ pc[t] = "reserve"
  BY DEF Typed, Call, CheckAt, ReserveAt, Reserve
<1>2. u0 \in Int /\ u1 \in Int
  BY UsageInts
<1>3. u1 = IF near /\ p = r THEN u0 + w ELSE u0
  BY CountersMove
<1>4. before <=> near /\ p <= r
  BY <1>1 DEF Passed
<1>5. w \in Nat
  BY CostNat
<1>6. CASE p = 6 /\ Moves(t, "idle", NoJob)
  <2>1. ~after
    BY <1>6 DEF Passed, Moves
  <2> HIDE DEF w, u0, u1, before, after, near, p, r
  <2>2. u1 + 0 <= u0 + (IF before THEN w ELSE 0)
    BY <1>1, <1>2, <1>3, <1>4, <1>5
  <2>3. usage'[s][k] + (IF Passed(t, s, k)' THEN Cost(k)'[t] ELSE 0)
          <= usage[s][k] + (IF Passed(t, s, k) THEN Cost(k)[t] ELSE 0)
    BY <2>1, <2>2 DEF u0, u1, before, after, w
  <2>4. usage'[s][k] \in Int
    BY <1>2 DEF u1
  <2> QED
    BY <1>6, <2>3, <2>4, RoomMoves
<1>7. ASSUME NEW new, Moves(t, "reserve", new), new.bytes = job[t].bytes,
             new.state = job[t].state, new.at = p + 1
      PROVE  usage'[s][k] + Weight(Passing(s, k)', Cost(k)') <= Limit(s, k) + Slack(k)
  <2>1. Cost(k)'[t] = w /\ pc'[t] = "reserve" /\ job'[t] = new
    BY <1>7, CostStays
  <2>2. after <=> near /\ p + 1 <= r
    BY <1>7, <2>1 DEF Passed, Concerns
  <2> HIDE DEF w, u0, u1, before, after, near, p, r
  <2>3. u1 + (IF after THEN w ELSE 0) <= u0 + (IF before THEN w ELSE 0)
    BY <1>1, <1>2, <1>3, <1>4, <1>5, <2>2
  <2>4. usage'[s][k] + (IF Passed(t, s, k)' THEN Cost(k)'[t] ELSE 0)
          <= usage[s][k] + (IF Passed(t, s, k) THEN Cost(k)[t] ELSE 0)
    BY <2>1, <2>3 DEF u0, u1, before, after, w
  <2>5. usage'[s][k] \in Int
    BY <1>2 DEF u1
  <2> QED
    BY <1>7, <2>4, <2>5, RoomMoves
<1>8. \/ p = 6 /\ Moves(t, "idle", NoJob)
      \/ Moves(t, "reserve", Fields(job[t].tenant, job[t].bytes, job[t].state, job[t].id, p + 1))
  BY WorkMoves
<1> HIDE DEF p
<1> QED
  BY <1>6, <1>7, <1>8, FieldsAre

LEMMA RoomStep ==
  ASSUME Typed, Typed', Working, Distinct, Account, Room, [Next]_vars
  PROVE  Room'
<1>0. usage' = usage => \A s \in 0 .. MaxStates, k \in Limited : usage'[s][k] <= usage[s][k]
  BY UsageInts
<1>1. ASSUME NEW t \in Thread, NEW n \in Tenant, RegisterTenant(t, n) PROVE Room'
  <2>1. Moves(t, "len", Fields(n, 0, 0, 0, 1)) /\ usage' = usage
    BY <1>1, RegisterMoves DEF RegisterTenant
  <2> QED
    BY <1>0, <2>1, QuietRoom
<1>2. ASSUME NEW t \in Thread, RegisterLen(t) \/ RegisterContains(t) \/ RegisterInsert(t)
      PROVE  Room'
  <2>1. /\ usage' = usage
        /\ \E label \in {"idle", "contains", "insert", "get"} : \E new : Moves(t, label, new)
    BY <1>2, RegisterMoves DEF RegisterLen, RegisterContains, RegisterInsert
  <2> QED
    BY <1>0, <2>1, QuietRoom
<1>3. ASSUME NEW t \in Thread, NEW n \in Tenant, Acquire(t, n) PROVE Room'
  <2>1. usage' = usage
    BY <1>3 DEF Acquire
  <2>2. \E label \in {"len", "check"} : \E new : Moves(t, label, new) /\ new.at = 1
    BY <1>3, AcquireMoves, FieldsAre
  <2> QED
    BY <1>0, <2>1, <2>2, QuietRoom
<1>4. ASSUME NEW t \in Thread, GetRegistered(t) PROVE Room'
  <2>1. usage' = usage /\ job[t].at = 1
    BY <1>4 DEF GetRegistered, Working, Works
  <2>2. \E label \in {"panicked", "check"} : \E new :
          Moves(t, label, new) /\ (label = "check" => new.at = 1)
    BY <1>4, <2>1, AcquireMoves, FieldsAre
  <2> QED
    BY <1>0, <2>1, <2>2, QuietRoom
<1>5. ASSUME NEW t \in Thread, Release(t) PROVE Room'
  <2>1. \E label \in {"idle", "release"} : \E new : Moves(t, label, new)
    BY <1>5, WorkMoves
  <2>2. ASSUME NEW s \in 0 .. MaxStates, NEW k \in Limited PROVE usage'[s][k] <= usage[s][k]
    <3> DEFINE u0 == usage[s][k]
               u1 == usage'[s][k]
               w == Cost(k)[t]
    <3>1. u0 \in Int /\ u1 \in Int /\ w \in Nat
      BY UsageInts, CostNat
    <3>2. u1 = u0 - w \/ u1 = u0
      BY <1>5, CountersMove
    <3> HIDE DEF u0, u1, w
    <3>3. u1 <= u0
      BY <3>1, <3>2
    <3> QED
      BY <3>3 DEF u0, u1
  <2> QED
    BY <2>1, <2>2, QuietRoom
<1>6. ASSUME NEW t \in Thread, NEW l \in leases, Drop(t, l) PROVE Room'
  <2>1. /\ Moves(t, "release", Fields(None, l.bytes, l.state, l.id, 1))
        /\ usage' = usage
    BY <1>6, WorkMoves DEF Drop
  <2> QED
    BY <1>0, <2>1, QuietRoom
<1>7. ASSUME UNCHANGED << pc, job, leases >>,
             \A s \in 0 .. MaxStates, k \in Limited : usage'[s][k] = usage[s][k]
      PROVE  Room'
  BY <1>7, SameSums DEF Room, Limit, MaxCost
<1>8. ASSUME NEW n \in Tenant, UpdateQuota(n) \/ RemoveTenant(n) PROVE Room'
  <2>1. UNCHANGED << pc, job, leases >> /\ usage' = usage
    BY <1>8 DEF UpdateQuota, RemoveTenant
  <2> QED
    BY <1>7, <2>1
<1>9. ASSUME NEW n \in Tenant, NEW k \in {"rps", "minute"}, Reset(n, k) PROVE Room'
  <2>1. UNCHANGED << pc, job, leases >>
    BY <1>9 DEF Reset
  <2>2. \A s \in 0 .. MaxStates, h \in Limited : usage'[s][h] = usage[s][h]
    BY <1>9, Resets DEF Reset
  <2> QED
    BY <1>7, <2>1, <2>2
<1>10. CASE UNCHANGED vars
  <2>1. UNCHANGED << pc, job, leases >> /\ usage' = usage
    BY <1>10 DEF vars
  <2> QED
    BY <1>7, <2>1
<1> QED
  BY <1>1, <1>2, <1>3, <1>4, <1>5, <1>6, <1>8, <1>9, <1>10, CheckRoom, ReserveRoom DEF Next, Step

-----------------------------------------------------------------------------
(* The theorems *)

LEMMA InitInv ==
  ASSUME Init
  PROVE  PoolInv
<1>1. Typed
  <2>1. NoUsage \in [Counters -> Int] /\ NoUsage["rps"] = 0 /\ NoUsage["minute"] = 0
    BY DEF NoUsage, Counters
  <2>2. DOMAIN tenants = {}
    BY DEF Init
  <2>3. NoJob \in Call /\ "idle" \in PCs /\ 0 \in 0 .. MaxStates /\ 0 \in 0 .. MaxAcquires
    BY NoCall, Bounds DEF PCs
  <2>4. IsFiniteSet({})
    BY FS_EmptySet
  <2> QED
    BY <2>1, <2>2, <2>3, <2>4 DEF Init, Typed
<1>2. Working
  BY DEF Init, Working, Works
<1>3. Distinct
  <2>1. NoJob.id = 0
    BY DEF NoJob
  <2> QED
    BY <2>1 DEF Init, Distinct, Acquiring
<1>4. ASSUME NEW s \in 0 .. MaxStates, NEW k \in Limited
      PROVE  /\ usage[s][k] = 0
             /\ Weight(LeasesOf(s), LeaseCost(k)) = 0
             /\ Weight(Counting(s, k), Cost(k)) = 0 /\ Weight(Passing(s, k), Cost(k)) = 0
  <2>1. usage[s][k] = 0
    BY DEF Init, NoUsage, Limited
  <2>2. LeasesOf(s) = {} /\ Counting(s, k) = {} /\ Passing(s, k) = {}
    BY DEF Init, LeasesOf, Counting, Passing, Counts, Passed
  <2> QED
    BY <2>1, <2>2, WeightEmpty
<1>5. Account
  BY <1>4 DEF Account
<1>6. Room
  <2>1. ASSUME NEW s \in 0 .. MaxStates, NEW k \in Limited
        PROVE  0 + 0 <= Limit(s, k) + Slack(k)
    BY SlackIs
  <2> QED
    BY <1>4, <2>1 DEF Room, Slack
<1> QED
  BY <1>1, <1>2, <1>3, <1>5, <1>6 DEF PoolInv

LEMMA PoolInvariant == Spec => []PoolInv
<1>1. Init => PoolInv
  BY InitInv
<1>2. ASSUME PoolInv, [Next]_vars PROVE PoolInv'
  <2>1. Typed /\ Working /\ Distinct /\ Account /\ Room
    BY <1>2 DEF PoolInv
  <2>2. Typed' /\ Working' /\ Distinct'
    BY <1>2, <2>1, TypedStep, WorkingStep, DistinctStep
  <2>3. Account' /\ Room'
    BY <1>2, <2>1, <2>2, AccountStep, RoomStep
  <2> QED
    BY <2>2, <2>3 DEF PoolInv
<1> QED
  BY <1>1, <1>2, PTL DEF Spec

\* The sums over threads are numbers, and there are none when nobody is half-way.
LEMMA SumsNat ==
  ASSUME Typed, NEW s \in 0 .. MaxStates, NEW k \in Limited
  PROVE  Weight(Counting(s, k), Cost(k)) \in Nat /\ Weight(Passing(s, k), Cost(k)) \in Nat
<1>1. Counting(s, k) \in SUBSET Thread /\ Passing(s, k) \in SUBSET Thread
  BY DEF Counting, Passing
<1>2. /\ Weighable(Counting(s, k), Cost(k), MaxCost(k))
      /\ Weighable(Passing(s, k), Cost(k), MaxCost(k))
  BY <1>1, CostsWeigh DEF Typed, Cost
<1> QED
  BY <1>2, WeightBound

\* Every counter of a tenant and of the pool stays a number from zero on, however
\* acquire, drop, registration, removal and the resets interleave: fetch_sub never
\* wraps.
THEOREM PoolIsTyped == Spec => []TypeOK
<1>1. ASSUME PoolInv PROVE TypeOK
  <2>1. Typed /\ Account
    BY <1>1 DEF PoolInv
  <2>2. ASSUME NEW s \in 0 .. MaxStates, NEW k \in Counters PROVE usage[s][k] \in Nat
    <3>1. CASE k \in Limited
      <4>1. usage[s][k] = Weight(LeasesOf(s), LeaseCost(k)) + Weight(Counting(s, k), Cost(k))
        BY <2>1, <3>1 DEF Account
      <4>2. /\ Weight(LeasesOf(s), LeaseCost(k)) \in Nat
            /\ Weight(Counting(s, k), Cost(k)) \in Nat
        BY <2>1, <3>1, LeasesNat, SumsNat
      <4> QED
        BY <4>1, <4>2
    <3>2. CASE k \in {"rps", "minute"}
      BY <2>1, <3>2 DEF Typed
    <3> QED
      BY <3>1, <3>2 DEF Counters, Limited
  <2>3. DOMAIN NoUsage = Counters
    BY DEF NoUsage, Counters
  <2>4. usage \in [0 .. MaxStates -> [Counters -> Nat]]
    <3>1. usage \in [0 .. MaxStates -> [Counters -> Int]]
      BY <2>1 DEF Typed
    <3>2. ASSUME NEW s \in 0 .. MaxStates PROVE usage[s] \in [Counters -> Nat]
      BY <2>2, <3>1
    <3> QED
      BY <3>1, <3>2
  <2>5. usage \in [0 .. MaxStates -> [DOMAIN NoUsage -> Nat]]
    BY <2>3, <2>4, Zenon
  <2> QED
    BY <2>1, <2>5 DEF Typed, TypeOK, Call, Lease
<1> QED
  BY <1>1, PoolInvariant, PTL

\* When no acquire and no drop is half-way, the counters of every TenantState and
\* of the pool are exactly the leases that exist, whatever was refused, removed or
\* registered anew since.
THEOREM UsageDoesSettle == Spec => []UsageSettles
<1>1. ASSUME PoolInv PROVE UsageSettles
  <2>0. Typed /\ Account
    BY <1>1 DEF PoolInv
  <2> SUFFICES ASSUME \A t \in Thread : pc[t] \notin {"reserve", "release"},
                      NEW s \in 0 .. MaxStates
               PROVE  /\ usage[s].active = Cardinality(LeasesOf(s))
                      /\ usage[s].memory = Cardinality(BytesOf(LeasesOf(s)))
    BY DEF UsageSettles
  <2>1. ASSUME NEW k \in Limited PROVE usage[s][k] = Weight(LeasesOf(s), LeaseCost(k))
    <3>1. Counting(s, k) = {}
      BY DEF Counting, Counts
    <3>2. Weight(Counting(s, k), Cost(k)) = 0
      BY <3>1, WeightEmpty
    <3>3. usage[s][k] = Weight(LeasesOf(s), LeaseCost(k)) + Weight(Counting(s, k), Cost(k))
      BY <2>0 DEF Account
    <3>4. Weight(LeasesOf(s), LeaseCost(k)) \in Nat
      BY <2>0, LeasesNat
    <3> QED
      BY <3>2, <3>3, <3>4
  <2>2. "memory" \in Limited /\ "active" \in Limited
    BY DEF Limited
  <2>3. LeasesOf(s) \subseteq Lease /\ IsFiniteSet(LeasesOf(s))
    <3>1. LeasesOf(s) \in SUBSET leases
      BY DEF LeasesOf
    <3> QED
      BY <2>0, <3>1, FS_Subset DEF Typed
  <2>4. Units(LeasesOf(s), LeaseCost("memory")) = BytesOf(LeasesOf(s))
    <3>1. \A l \in LeasesOf(s) : LeaseCost("memory")[l] = l.bytes
      BY <2>3 DEF LeaseCost
    <3> QED
      BY <3>1 DEF Units, BytesOf
  <2>5. Cardinality(Units(LeasesOf(s), LeaseCost("active"))) = Cardinality(LeasesOf(s))
    <3>1. \A l \in LeasesOf(s) : LeaseCost("active")[l] = 1
      BY <2>3 DEF LeaseCost
    <3>2. Units(LeasesOf(s), LeaseCost("active")) = LeasesOf(s) \X (1 .. 1)
      BY <3>1 DEF Units
    <3>3. IsFiniteSet(1 .. 1) /\ Cardinality(1 .. 1) = 1
      <4>1. ASSUME NEW n \in Nat PROVE IsFiniteSet(1 .. n) /\ Cardinality(1 .. n) = n
        BY FS_Interval
      <4>2. 1 \in Nat
        OBVIOUS
      <4> QED
        BY <4>1, <4>2, Zenon
    <3>4. Cardinality(LeasesOf(s) \X (1 .. 1)) = Cardinality(LeasesOf(s)) * 1
      BY <2>3, <3>3, FS_Product
    <3>5. Cardinality(LeasesOf(s)) \in Nat
      BY <2>3, FS_CardinalityType
    <3>6. \A c \in Nat : c * 1 = c
      OBVIOUS
    <3>7. Cardinality(LeasesOf(s)) * 1 = Cardinality(LeasesOf(s))
      BY <3>5, <3>6, Zenon
    <3> QED
      BY <3>2, <3>4, <3>7, Zenon
  <2> QED
    BY <2>1, <2>2, <2>4, <2>5 DEF Weight
<1> QED
  BY <1>1, PoolInvariant, PTL

\* Threads that compare together exceed a limit by less than one request per
\* thread; the memory of a tenant, which is compared without the request, by one
\* request per thread.
THEOREM OvercommitIsBounded == Spec => []OvercommitBounded
<1>1. ASSUME PoolInv PROVE OvercommitBounded
  <2>0. Typed /\ Room
    BY <1>1 DEF PoolInv
  <2> DEFINE others == Cardinality(Thread) - 1
             m == Max(Sizes)
  <2>1. others \in Nat /\ m \in Nat
    BY Bounds
  <2>2. ASSUME NEW s \in 0 .. MaxStates, NEW k \in Limited
        PROVE  usage[s][k] <= Limit(s, k) + others * MaxCost(k)
    <3> DEFINE u == usage[s][k]
               c == Weight(Passing(s, k), Cost(k))
               r == Limit(s, k) + others * MaxCost(k)
    <3>1. u + c <= r
      BY <2>0 DEF Room
    <3>2. u \in Int /\ c \in Nat
      BY <2>0, SumsNat DEF Typed, Limited, Counters
    <3>3. r \in Nat
      <4>1. Slack(k) \in Nat /\ Limit(s, k) \in Nat /\ r = Limit(s, k) + Slack(k)
        BY SlackIs DEF Slack
      <4> HIDE DEF r
      <4> QED
        BY <4>1
    <3> HIDE DEF u, c, r
    <3>4. u <= r
      BY <3>1, <3>2, <3>3
    <3> QED
      BY <3>4 DEF u, r
  <2>3. "memory" \in Limited /\ "active" \in Limited /\ 0 \in 0 .. MaxStates
    BY Bounds DEF Limited
  <2>4. others * 1 = others
    BY <2>1
  <2>5. usage[0]["active"] <= MaxTotal + others
    BY <2>2, <2>3, <2>4 DEF Limit, MaxCost
  <2>6. usage[0]["memory"] <= MaxTotalMemory + others * m
    BY <2>2, <2>3 DEF Limit, MaxCost
  <2>7. ASSUME NEW s \in 1 .. MaxStates
        PROVE  /\ usage[s]["active"] <= Max(Quotas) + others
               /\ usage[s]["memory"] <= MaxMemory + (others + 1) * m
    <3>1. s \in 0 .. MaxStates /\ s # 0
      BY Bounds
    <3>2. usage[s]["active"] <= Max(Quotas) + others
      BY <2>2, <2>3, <2>4, <3>1 DEF Limit, MaxCost
    <3>3. usage[s]["memory"] <= (MaxMemory + m) + others * m
      BY <2>2, <2>3, <3>1 DEF Limit, MaxCost
    <3>4. \A a, b, d \in Nat : (a + b) + d * b = a + (d + 1) * b
      OBVIOUS
    <3>5. (MaxMemory + m) + others * m = MaxMemory + (others + 1) * m
      BY <2>1, <3>4, Bounds
    <3> QED
      BY <3>2, <3>3, <3>5
  <2> QED
    BY <2>5, <2>6, <2>7 DEF OvercommitBounded
<1> QED
  BY <1>1, PoolInvariant, PTL
=============================================================================
