------------------------- MODULE OrchestratorProofs -------------------------
(***************************************************************************)
(* For any number of threads, tenants and tickets: no ticket of the          *)
(* orchestrator is lost, run twice or run for another tenant, total_running  *)
(* counts what runs, and one scheduler exceeds max_global_concurrent by less *)
(* than the number of tenants.                                               *)
(***************************************************************************)
EXTENDS Orchestrator, FiniteSums

-----------------------------------------------------------------------------
(* The inductive invariant *)

InPass == {"pick", "take"}
Scheduling == {"tenants", "items", "pick", "take"}
ItemState == [tenant : Tenant, state : {"Queued", "Running", "Done"}]
Pass == [todo : SUBSET Tenant, cur : Tenant \union {None}, slots : Nat, count : Nat,
         ready : SUBSET Tickets]

\* The types, with the sign of total_running left to Counted.
Typed ==
  /\ drr \in BOOLEAN /\ suspended \in BOOLEAN
  /\ DOMAIN tenants \subseteq Tenant
  /\ \A t \in DOMAIN tenants : tenants[t] \in TenantState
  /\ DOMAIN items \subseteq Tickets
  /\ \A k \in DOMAIN items : items[k] \in ItemState
  /\ lockT \in Thread \union {None} /\ lockI \in Thread \union {None}
  /\ pc \in [Thread -> PCs]
  /\ ticket \in [Submitter \union Runner -> 0 .. MaxTickets]
  /\ avail \in [Scheduler -> 0 .. MaxGlobal]
  /\ pass \in Pass
  /\ issued \in 0 .. MaxTickets /\ ready \in SUBSET Tickets

\* Who is where, and with which locks.
Locks ==
  \A t \in Thread :
    /\ pc[t] = "insert" => t \in Submitter
    /\ pc[t] \in Scheduling => t \in Scheduler
    /\ pc[t] = "retain" => t \in Runner
    /\ lockT = t <=> pc[t] \in {"insert", "items", "pick", "take"}
    /\ lockI = t <=> pc[t] \in {"pick", "take", "retain"}

\* What schedule() has in hand.
Passing ==
  /\ (\A t \in Thread : pc[t] \notin InPass) => pass = NoPass
  /\ \A t \in Thread :
       /\ pc[t] \in InPass => pass.todo \subseteq DOMAIN tenants
       /\ pc[t] = "pick" => pass.slots = 0
       /\ pc[t] = "take" => pass.cur \in DOMAIN tenants

\* Is ticket k in the queue of tenant t, and is it being submitted?
Queued(k, t) == \E i \in 1 .. Len(tenants[t].queue) : tenants[t].queue[i] = k
Arriving(k) == \E s \in Thread : pc[s] = "insert" /\ ticket[s] = k

\* No ticket is queued twice.
Once ==
  \A t, u \in DOMAIN tenants :
    \A i \in 1 .. Len(tenants[t].queue), j \in 1 .. Len(tenants[u].queue) :
      tenants[t].queue[i] = tenants[u].queue[j] => t = u /\ i = j

\* The queues, and the items: a ticket is in a queue before it is in items.
Queues ==
  /\ DOMAIN items \subseteq 1 .. issued
  /\ \A t \in DOMAIN tenants, k \in Tickets : Queued(k, t) =>
       /\ k <= issued
       /\ k \in DOMAIN items => items[k].state = "Queued" /\ items[k].tenant = t
       /\ k \notin DOMAIN items => Arriving(k)
  /\ \A k \in DOMAIN items : items[k].state = "Queued" =>
       items[k].tenant \in DOMAIN tenants /\ Queued(k, items[k].tenant)
  /\ \A s \in Thread : pc[s] = "insert" =>
       /\ ticket[s] \in (1 .. issued) \ DOMAIN items
       /\ \E t \in DOMAIN tenants : Queued(ticket[s], t)

\* What is active is what runs.
Actives ==
  /\ \A t \in DOMAIN tenants, k \in Tickets :
       k \in tenants[t].active <=>
         k \in DOMAIN items /\ items[k].state = "Running" /\ items[k].tenant = t
  /\ \A k \in DOMAIN items : items[k].state = "Running" => items[k].tenant \in DOMAIN tenants

\* A ticket that somebody is to complete runs, and only one is to complete it.
IsRunning(k) == k \in DOMAIN items /\ items[k].state = "Running"
Runs ==
  /\ \A k \in ready : IsRunning(k)
  /\ \A k \in pass.ready : IsRunning(k) /\ k \notin ready
  /\ \A r \in Thread : pc[r] = "retain" => IsRunning(ticket[r]) /\ ticket[r] \notin ready

Counted == running = Cardinality(Active)

\* All credits together, and what may be left of them after a cycle.
Deficits == [t \in DOMAIN tenants |-> tenants[t].deficit]
Owed == Weight(DOMAIN tenants, Deficits)
Rest == Cardinality(Tenant) * (Scale - 1)

\* A cycle is bounded by the slots it was given and by what is left of earlier ones.
Credits ==
  /\ ~suspended => \A t \in DOMAIN tenants : tenants[t].status = "Active"
  /\ drr /\ ~suspended =>
       /\ (\A t \in Thread : pc[t] \notin InPass) => Owed <= Rest
       /\ \A c \in Thread : pc[c] \in InPass =>
            /\ (pass.count + pass.slots) * Scale + Owed <= avail[c] * Scale + Rest
            /\ \A t \in DOMAIN tenants : t \in pass.todo \/ tenants[t].deficit < Scale
  /\ ~drr => \A c \in Thread : pc[c] \in InPass => pass.count + pass.slots <= avail[c]

\* What the slots were computed from is still true when they are used.
Global ==
  Cardinality(Scheduler) = 1 =>
    /\ \A c \in Thread : pc[c] \in Scheduling => running + avail[c] <= MaxGlobal + pass.count
    /\ (drr => ~suspended) =>
         running <= MaxGlobal + (IF drr THEN Cardinality(Tenant) - 1 ELSE 0)

TicketInv == Typed /\ Locks /\ Passing /\ Once /\ Queues /\ Actives /\ Runs /\ Counted
OrchestratorInv == TicketInv /\ Credits /\ Global

-----------------------------------------------------------------------------
(* Arithmetic *)

LEMMA MinOfTwo ==
  ASSUME NEW a \in Int, NEW b \in Int
  PROVE  Min({a, b}) \in {a, b} /\ Min({a, b}) <= a /\ Min({a, b}) <= b
<1>1. \E x \in {a, b} : \A y \in {a, b} : x <= y
  <2>1. CASE a <= b
    BY <2>1
  <2>2. CASE ~(a <= b)
    BY <2>2
  <2> QED
    BY <2>1, <2>2
<1>2. Min({a, b}) \in {a, b} /\ \A y \in {a, b} : Min({a, b}) <= y
  BY <1>1 DEF Min
<1> QED
  BY <1>2

LEMMA Remainders ==
  ASSUME NEW a \in Int, NEW b \in Nat \ {0}
  PROVE  a % b \in 0 .. (b - 1)
OBVIOUS

LEMMA Quotients ==
  ASSUME NEW a \in Nat, NEW b \in Nat \ {0}
  PROVE  a \div b \in Nat /\ a % b = a - b * (a \div b) /\ b * (a \div b) <= a
<1>1. a \div b \in Nat
  OBVIOUS
<1>2. a % b = a - b * (a \div b)
  OBVIOUS
<1>3. b * (a \div b) <= a
  OBVIOUS
<1> QED
  BY <1>1, <1>2, <1>3

LEMMA Constants ==
  /\ IsFiniteSet(Tenant) /\ IsFiniteSet(Thread) /\ IsFiniteSet(Scheduler)
  /\ MaxGlobal \in Nat /\ MaxQueue \in Nat /\ MaxTickets \in Nat
  /\ RateLimit \in Nat /\ Scale \in Nat /\ Scale >= 1 /\ UsizeValues \in Nat \ {0}
  /\ Limits \subseteq Nat /\ Priorities \subseteq Nat
  /\ Cardinality(Tenant) \in Nat /\ Cardinality(Tenant) >= 1 /\ Rest \in Nat
<1>1. Scheduler \in SUBSET Thread
  BY DEF Thread
<1>2. IsFiniteSet(Scheduler) /\ Cardinality(Tenant) \in Nat
  BY <1>1, OrchestratorAssumption, FS_Subset, FS_CardinalityType
<1>3. \A n, s \in Nat : s # 0 => n * (s - 1) \in Nat
  OBVIOUS
<1>4. Rest \in Nat
  BY <1>2, <1>3, OrchestratorAssumption DEF Rest
<1>5. Cardinality(Tenant) >= 1
  <2>1. Cardinality(Tenant) # 0
    BY OrchestratorAssumption, FS_EmptySet
  <2> QED
    BY <1>2, <2>1
<1> QED
  BY <1>2, <1>4, <1>5, OrchestratorAssumption

-----------------------------------------------------------------------------
(* The states of the tenants *)

Fields(s, m, p, q, a, d, r) ==
  [status |-> s, max |-> m, priority |-> p, queue |-> q, active |-> a, deficit |-> d, recent |-> r]

LEMMA TenantIs ==
  ASSUME NEW x \in TenantState
  PROVE  x = Fields(x.status, x.max, x.priority, x.queue, x.active, x.deficit, x.recent)
BY DEF TenantState, Fields

LEMMA FieldsAre ==
  ASSUME NEW s, NEW m, NEW p, NEW q, NEW a, NEW d, NEW r,
         NEW x, x = Fields(s, m, p, q, a, d, r)
  PROVE  /\ x.status = s /\ x.max = m /\ x.priority = p /\ x.queue = q /\ x.active = a
         /\ x.deficit = d /\ x.recent = r
BY DEF Fields

LEMMA FieldsTyped ==
  ASSUME NEW s \in Statuses, NEW m \in Limits, NEW p \in Priorities, NEW q \in Seq(Tickets),
         NEW a \in SUBSET Tickets, NEW d \in Nat, NEW r \in 0 .. RateLimit + 2
  PROVE  Fields(s, m, p, q, a, d, r) \in TenantState
BY DEF TenantState, Fields

LEMMA TypesOfFields ==
  ASSUME NEW x \in TenantState
  PROVE  /\ x.status \in Statuses /\ x.max \in Limits /\ x.priority \in Priorities
         /\ x.queue \in Seq(Tickets) /\ x.active \in SUBSET Tickets /\ x.deficit \in Nat
         /\ x.recent \in 0 .. RateLimit + 2
BY DEF TenantState

(* The updates that the actions make *)

LEMMA StatusMoves ==
  ASSUME NEW x \in TenantState, NEW v
  PROVE  [x EXCEPT !.status = v] =
           Fields(v, x.max, x.priority, x.queue, x.active, x.deficit, x.recent)
<1>1. PICK s, m, p, q, a, d, r : x = Fields(s, m, p, q, a, d, r)
  BY TenantIs
<1>2. /\ x.status = s /\ x.max = m /\ x.priority = p /\ x.queue = q /\ x.active = a
      /\ x.deficit = d /\ x.recent = r
  BY <1>1, FieldsAre
<1>3. [x EXCEPT !.status = v] = Fields(v, m, p, q, a, d, r)
  BY <1>1 DEF Fields
<1> QED
  BY <1>2, <1>3, Zenon

LEMMA DeficitMoves ==
  ASSUME NEW x \in TenantState, NEW v
  PROVE  [x EXCEPT !.deficit = v] =
           Fields(x.status, x.max, x.priority, x.queue, x.active, v, x.recent)
<1>1. PICK s, m, p, q, a, d, r : x = Fields(s, m, p, q, a, d, r)
  BY TenantIs
<1>2. /\ x.status = s /\ x.max = m /\ x.priority = p /\ x.queue = q /\ x.active = a
      /\ x.deficit = d /\ x.recent = r
  BY <1>1, FieldsAre
<1>3. [x EXCEPT !.deficit = v] = Fields(s, m, p, q, a, v, r)
  BY <1>1 DEF Fields
<1> QED
  BY <1>2, <1>3, Zenon

LEMMA ActiveMoves ==
  ASSUME NEW x \in TenantState, NEW v
  PROVE  [x EXCEPT !.active = v] =
           Fields(x.status, x.max, x.priority, x.queue, v, x.deficit, x.recent)
<1>1. PICK s, m, p, q, a, d, r : x = Fields(s, m, p, q, a, d, r)
  BY TenantIs
<1>2. /\ x.status = s /\ x.max = m /\ x.priority = p /\ x.queue = q /\ x.active = a
      /\ x.deficit = d /\ x.recent = r
  BY <1>1, FieldsAre
<1>3. [x EXCEPT !.active = v] = Fields(s, m, p, q, v, d, r)
  BY <1>1 DEF Fields
<1> QED
  BY <1>2, <1>3, Zenon

LEMMA RecentMoves ==
  ASSUME NEW x \in TenantState, NEW v
  PROVE  [x EXCEPT !.recent = v] =
           Fields(x.status, x.max, x.priority, x.queue, x.active, x.deficit, v)
<1>1. PICK s, m, p, q, a, d, r : x = Fields(s, m, p, q, a, d, r)
  BY TenantIs
<1>2. /\ x.status = s /\ x.max = m /\ x.priority = p /\ x.queue = q /\ x.active = a
      /\ x.deficit = d /\ x.recent = r
  BY <1>1, FieldsAre
<1>3. [x EXCEPT !.recent = v] = Fields(s, m, p, q, a, d, v)
  BY <1>1 DEF Fields
<1> QED
  BY <1>2, <1>3, Zenon

LEMMA LimitsMove ==
  ASSUME NEW x \in TenantState, NEW v, NEW w
  PROVE  [x EXCEPT !.max = v, !.priority = w] =
           Fields(x.status, v, w, x.queue, x.active, x.deficit, x.recent)
<1>1. PICK s, m, p, q, a, d, r : x = Fields(s, m, p, q, a, d, r)
  BY TenantIs
<1>2. /\ x.status = s /\ x.max = m /\ x.priority = p /\ x.queue = q /\ x.active = a
      /\ x.deficit = d /\ x.recent = r
  BY <1>1, FieldsAre
<1>3. [x EXCEPT !.max = v] = Fields(s, v, p, q, a, d, r)
  BY <1>1 DEF Fields
<1>4. [Fields(s, v, p, q, a, d, r) EXCEPT !.priority = w] = Fields(s, v, w, q, a, d, r)
  BY DEF Fields
<1>5. [x EXCEPT !.max = v, !.priority = w] = [[x EXCEPT !.max = v] EXCEPT !.priority = w]
  OBVIOUS
<1> QED
  BY <1>2, <1>3, <1>4, <1>5, Zenon

LEMMA SubmitMoves ==
  ASSUME NEW x \in TenantState, NEW v, NEW w
  PROVE  [x EXCEPT !.recent = v, !.queue = w] =
           Fields(x.status, x.max, x.priority, w, x.active, x.deficit, v)
<1>1. PICK s, m, p, q, a, d, r : x = Fields(s, m, p, q, a, d, r)
  BY TenantIs
<1>2. /\ x.status = s /\ x.max = m /\ x.priority = p /\ x.queue = q /\ x.active = a
      /\ x.deficit = d /\ x.recent = r
  BY <1>1, FieldsAre
<1>3. [x EXCEPT !.recent = v] = Fields(s, m, p, q, a, d, v)
  BY <1>1 DEF Fields
<1>4. [Fields(s, m, p, q, a, d, v) EXCEPT !.queue = w] = Fields(s, m, p, w, a, d, v)
  BY DEF Fields
<1>5. [x EXCEPT !.recent = v, !.queue = w] = [[x EXCEPT !.recent = v] EXCEPT !.queue = w]
  OBVIOUS
<1> QED
  BY <1>2, <1>3, <1>4, <1>5, Zenon

LEMMA TakeMoves ==
  ASSUME NEW x \in TenantState, NEW v, NEW w
  PROVE  [x EXCEPT !.queue = v, !.active = w] =
           Fields(x.status, x.max, x.priority, v, w, x.deficit, x.recent)
<1>1. PICK s, m, p, q, a, d, r : x = Fields(s, m, p, q, a, d, r)
  BY TenantIs
<1>2. /\ x.status = s /\ x.max = m /\ x.priority = p /\ x.queue = q /\ x.active = a
      /\ x.deficit = d /\ x.recent = r
  BY <1>1, FieldsAre
<1>3. [x EXCEPT !.queue = v] = Fields(s, m, p, v, a, d, r)
  BY <1>1 DEF Fields
<1>4. [Fields(s, m, p, v, a, d, r) EXCEPT !.active = w] = Fields(s, m, p, v, w, d, r)
  BY DEF Fields
<1>5. [x EXCEPT !.queue = v, !.active = w] = [[x EXCEPT !.queue = v] EXCEPT !.active = w]
  OBVIOUS
<1> QED
  BY <1>2, <1>3, <1>4, <1>5, Zenon

\* One tenant is changed.
Becomes(t, x) == t \in DOMAIN tenants /\ tenants' = [tenants EXCEPT ![t] = x]

LEMMA BecomesIs ==
  ASSUME NEW t, NEW x, Becomes(t, x)
  PROVE  /\ DOMAIN tenants' = DOMAIN tenants /\ tenants'[t] = x
         /\ \A u \in DOMAIN tenants : u # t => tenants'[u] = tenants[u]
BY DEF Becomes

LEMMA AdminBecomes ==
  ASSUME Typed, NEW t \in Tenant, NEW x \in TenantState, x = tenants[t]
  PROVE  /\ UpdateTenant(t) => \E m \in Limits, p \in Priorities :
              Becomes(t, Fields(x.status, m, p, x.queue, x.active, x.deficit, x.recent))
         /\ SuspendTenant(t) =>
              Becomes(t, Fields("Suspended", x.max, x.priority, x.queue, x.active, x.deficit, x.recent))
         /\ ResumeTenant(t) =>
              Becomes(t, Fields("Active", x.max, x.priority, x.queue, x.active, x.deficit, x.recent))
<1>1. ASSUME UpdateTenant(t)
      PROVE  \E m \in Limits, p \in Priorities :
               Becomes(t, Fields(x.status, m, p, x.queue, x.active, x.deficit, x.recent))
  <2>1. PICK m \in Limits, p \in Priorities :
          t \in DOMAIN tenants /\ tenants' = [tenants EXCEPT ![t].max = m, ![t].priority = p]
    BY <1>1 DEF UpdateTenant, WithTenants
  <2>2. [tenants EXCEPT ![t].max = m, ![t].priority = p] =
          [tenants EXCEPT ![t] = [x EXCEPT !.max = m, !.priority = p]]
    BY <2>1
  <2>3. [x EXCEPT !.max = m, !.priority = p] =
          Fields(x.status, m, p, x.queue, x.active, x.deficit, x.recent)
    BY LimitsMove, Zenon
  <2>4. Becomes(t, Fields(x.status, m, p, x.queue, x.active, x.deficit, x.recent))
    BY <2>1, <2>2, <2>3, Zenon DEF Becomes
  <2> QED
    BY <2>4, Zenon
<1>2. ASSUME NEW v, t \in DOMAIN tenants, tenants' = [tenants EXCEPT ![t].status = v]
      PROVE  Becomes(t, Fields(v, x.max, x.priority, x.queue, x.active, x.deficit, x.recent))
  <2>1. [tenants EXCEPT ![t].status = v] = [tenants EXCEPT ![t] = [x EXCEPT !.status = v]]
    BY <1>2
  <2> QED
    BY <1>2, <2>1, StatusMoves DEF Becomes
<1> QED
  BY <1>1, <1>2 DEF SuspendTenant, ResumeTenant, WithTenants

LEMMA SubmitBecomes ==
  ASSUME Typed, NEW s \in Submitter, NEW t \in Tenant, SubmitQueue(s, t),
         NEW x \in TenantState, x = tenants[t]
  PROVE  /\ t \in DOMAIN tenants
         /\ \E n \in 0 .. RateLimit + 2 :
              \/ /\ Becomes(t, Fields(x.status, x.max, x.priority, x.queue, x.active, x.deficit, n))
                 /\ UNCHANGED << issued, ticket, lockT, pc >>
              \/ /\ Becomes(t, Fields(x.status, x.max, x.priority, Append(x.queue, issued + 1),
                                      x.active, x.deficit, n))
                 /\ issued < MaxTickets /\ issued' = issued + 1
                 /\ ticket' = [ticket EXCEPT ![s] = issued + 1]
                 /\ lockT' = s
                 /\ pc' = [pc EXCEPT ![s] = "insert"]
<1>1. t \in DOMAIN tenants
  BY DEF SubmitQueue
<1>2. ASSUME NEW b \in BOOLEAN PROVE Attempts(t, b) \in 0 .. RateLimit + 2
  <2>1. x.recent \in 0 .. RateLimit + 2 /\ RateLimit \in Nat
    BY TypesOfFields, Constants
  <2>2. /\ Min({x.recent + 1, RateLimit + 2}) \in {x.recent + 1, RateLimit + 2}
        /\ Min({x.recent + 1, RateLimit + 2}) <= RateLimit + 2
    <3>1. x.recent + 1 \in Int /\ RateLimit + 2 \in Int
      BY <2>1
    <3> QED
      BY <3>1, MinOfTwo
  <2>3. Attempts(t, b) \in {1, Min({x.recent + 1, RateLimit + 2})}
    BY DEF Attempts
  <2> QED
    BY <2>1, <2>2, <2>3
<1>3. PICK b \in BOOLEAN :
        LET n == Attempts(t, b)
            accepted == /\ n <= RateLimit \/ n = 1
                        /\ Len(tenants[t].queue) < MaxQueue
        IN  IF accepted
            THEN /\ issued < MaxTickets
                 /\ issued' = issued + 1
                 /\ tenants' = [tenants EXCEPT
                      ![t].recent = n, ![t].queue = Append(@, issued + 1)]
                 /\ ticket' = [ticket EXCEPT ![s] = issued + 1]
                 /\ lockT' = s
                 /\ Goto(s, "insert")
            ELSE /\ tenants' = [tenants EXCEPT ![t].recent = n]
                 /\ UNCHANGED << issued, ticket, lockT, pc >>
  BY DEF SubmitQueue
<1> DEFINE n == Attempts(t, b)
<1>4. n \in 0 .. RateLimit + 2
  BY <1>2
<1> HIDE DEF n
<1>5. \/ /\ tenants' = [tenants EXCEPT ![t].recent = n]
         /\ UNCHANGED << issued, ticket, lockT, pc >>
      \/ /\ tenants' = [tenants EXCEPT ![t].recent = n, ![t].queue = Append(@, issued + 1)]
         /\ issued < MaxTickets /\ issued' = issued + 1
         /\ ticket' = [ticket EXCEPT ![s] = issued + 1]
         /\ lockT' = s
         /\ pc' = [pc EXCEPT ![s] = "insert"]
  BY <1>3 DEF n, Goto
<1>6. [tenants EXCEPT ![t].recent = n] = [tenants EXCEPT ![t] = [x EXCEPT !.recent = n]]
  BY <1>1
<1>7. [tenants EXCEPT ![t].recent = n, ![t].queue = Append(@, issued + 1)] =
        [tenants EXCEPT ![t] = [x EXCEPT !.recent = n, !.queue = Append(x.queue, issued + 1)]]
  <2>1. [tenants EXCEPT ![t].recent = n, ![t].queue = Append(@, issued + 1)] =
          [tenants EXCEPT ![t] = [[x EXCEPT !.recent = n] EXCEPT !.queue = Append([x EXCEPT !.recent = n].queue, issued + 1)]]
    BY <1>1
  <2>2. [x EXCEPT !.recent = n].queue = x.queue
    BY RecentMoves, FieldsAre
  <2>3. [[x EXCEPT !.recent = n] EXCEPT !.queue = Append(x.queue, issued + 1)] =
          [x EXCEPT !.recent = n, !.queue = Append(x.queue, issued + 1)]
    OBVIOUS
  <2> QED
    BY <2>1, <2>2, <2>3
<1>8. [x EXCEPT !.recent = n] =
        Fields(x.status, x.max, x.priority, x.queue, x.active, x.deficit, n)
  BY RecentMoves, Zenon
<1>9. [x EXCEPT !.recent = n, !.queue = Append(x.queue, issued + 1)] =
        Fields(x.status, x.max, x.priority, Append(x.queue, issued + 1), x.active, x.deficit, n)
  <2> DEFINE q == Append(x.queue, issued + 1)
  <2> HIDE DEF q
  <2>1. [x EXCEPT !.recent = n, !.queue = q] =
          Fields(x.status, x.max, x.priority, q, x.active, x.deficit, n)
    <3>1. \A v, w : [x EXCEPT !.recent = v, !.queue = w] =
                      Fields(x.status, x.max, x.priority, w, x.active, x.deficit, v)
      BY SubmitMoves, Zenon
    <3> QED
      BY <3>1, Zenon
  <2> QED
    BY <2>1 DEF q
<1> QED
  BY <1>1, <1>4, <1>5, <1>6, <1>7, <1>8, <1>9 DEF Becomes

LEMMA RegisterAdds ==
  ASSUME NEW t, RegisterTenant(t)
  PROVE  /\ t \notin DOMAIN tenants /\ DOMAIN tenants' = DOMAIN tenants \union {t}
         /\ \A u \in DOMAIN tenants : tenants'[u] = tenants[u]
         /\ \E m \in Limits, p \in Priorities :
              tenants'[t] = Fields("Active", m, p, << >>, {}, 0, 0)
BY DEF RegisterTenant, WithTenants, Fields

LEMMA RemoveTakes ==
  ASSUME NEW t, RemoveTenant(t)
  PROVE  /\ t \in DOMAIN tenants /\ DOMAIN tenants' = DOMAIN tenants \ {t}
         /\ \A u \in DOMAIN tenants' : tenants'[u] = tenants[u]
         /\ tenants[t].queue = << >> /\ tenants[t].active = {}
BY DEF RemoveTenant, WithTenants

LEMMA PickBecomes ==
  ASSUME Typed, NEW t \in DOMAIN tenants, NEW x \in TenantState, x = tenants[t],
         NEW d, tenants' = [tenants EXCEPT ![t].deficit = d]
  PROVE  Becomes(t, Fields(x.status, x.max, x.priority, x.queue, x.active, d, x.recent))
<1>1. [tenants EXCEPT ![t].deficit = d] = [tenants EXCEPT ![t] = [x EXCEPT !.deficit = d]]
  OBVIOUS
<1> QED
  BY <1>1, DeficitMoves DEF Becomes

LEMMA TakeBecomes ==
  ASSUME Typed, NEW t \in DOMAIN tenants, NEW x \in TenantState, x = tenants[t], NEW k,
         tenants' = [tenants EXCEPT ![t].queue = Tail(@), ![t].active = @ \union {k}]
  PROVE  Becomes(t, Fields(x.status, x.max, x.priority, Tail(x.queue), x.active \union {k},
                           x.deficit, x.recent))
<1> DEFINE q == Tail(x.queue)
           a == x.active \union {k}
<1>1. tenants' = [tenants EXCEPT ![t] = [[x EXCEPT !.queue = Tail(x.queue)]
                   EXCEPT !.active = [x EXCEPT !.queue = Tail(x.queue)].active \union {k}]]
  OBVIOUS
<1>2. ASSUME NEW z PROVE [x EXCEPT !.queue = z].active = x.active
  BY DEF TenantState
<1>3. tenants' = [tenants EXCEPT ![t] = [[x EXCEPT !.queue = q] EXCEPT !.active = a]]
  BY <1>1, <1>2
<1> HIDE DEF q, a
<1>4. [[x EXCEPT !.queue = q] EXCEPT !.active = a] = [x EXCEPT !.queue = q, !.active = a]
  OBVIOUS
<1>5. \A v, w : [x EXCEPT !.queue = v, !.active = w] =
                  Fields(x.status, x.max, x.priority, v, w, x.deficit, x.recent)
  BY TakeMoves, Zenon
<1>6. [x EXCEPT !.queue = q, !.active = a] =
        Fields(x.status, x.max, x.priority, q, a, x.deficit, x.recent)
  BY <1>5, Zenon
<1> QED
  BY <1>3, <1>4, <1>6 DEF Becomes, q, a

LEMMA RetainBecomes ==
  ASSUME Typed, NEW t \in DOMAIN tenants, NEW x \in TenantState, x = tenants[t], NEW k,
         tenants' = [tenants EXCEPT ![t].active = @ \ {k}]
  PROVE  Becomes(t, Fields(x.status, x.max, x.priority, x.queue, x.active \ {k},
                           x.deficit, x.recent))
<1> DEFINE a == x.active \ {k}
<1>1. tenants' = [tenants EXCEPT ![t] = [x EXCEPT !.active = a]]
  OBVIOUS
<1> HIDE DEF a
<1>2. [x EXCEPT !.active = a] =
        Fields(x.status, x.max, x.priority, x.queue, a, x.deficit, x.recent)
  BY ActiveMoves, Zenon
<1> QED
  BY <1>1, <1>2 DEF Becomes, a

LEMMA CreditIs ==
  ASSUME Typed, NEW c \in Scheduler, drr => TotalPriority # 0
  PROVE  \A t \in DOMAIN tenants : Credit(c, t) \in Nat
<1>1. ASSUME NEW t \in DOMAIN tenants, drr, t \in Waiting PROVE Credit(c, t) \in Nat
  <2>1. TotalPriority \in Nat
    <3>1. IsFiniteSet(Waiting)
      BY Constants, FS_Subset DEF Typed, Waiting
    <3> DEFINE w == [u \in Waiting |-> tenants[u].priority]
    <3>2. \A u \in Waiting : w[u] \in Nat
      BY Constants, TypesOfFields DEF Typed, Waiting
    <3>3. Weight(Waiting, w) \in Nat
      <4> HIDE DEF w
      <4> QED
        BY <3>1, <3>2, WeightNat
    <3>4. TotalPriority = Weight(Waiting, w)
      BY DEF TotalPriority, Weight, Units
    <3> QED
      BY <3>3, <3>4
  <2>2. tenants[t].priority \in Nat /\ avail[c] \in Nat /\ Scale \in Nat
    <3>1. tenants[t] \in TenantState /\ avail[c] \in 0 .. MaxGlobal
      BY DEF Typed
    <3>2. tenants[t].priority \in Priorities
      BY <3>1, TypesOfFields
    <3>3. Priorities \subseteq Nat /\ MaxGlobal \in Nat /\ Scale \in Nat
      BY OrchestratorAssumption
    <3>4. tenants[t].priority \in Nat
      BY <3>2, <3>3, Zenon
    <3> QED
      BY <3>1, <3>3, <3>4
  <2>3. \A a, b, e \in Nat : a * b * e \in Nat
    OBVIOUS
  <2>4. tenants[t].priority * avail[c] * Scale \in Nat
    BY <2>2, <2>3
  <2>5. (tenants[t].priority * avail[c] * Scale) \div TotalPriority \in Nat
    BY <1>1, <2>1, <2>4, Quotients
  <2> QED
    BY <1>1, <2>5 DEF Credit
<1> QED
  BY <1>1 DEF Credit

LEMMA CreditBecomes ==
  ASSUME Typed, NEW c \in Scheduler, drr => TotalPriority # 0,
         tenants' = [t \in DOMAIN tenants |->
                      [tenants[t] EXCEPT !.deficit = @ + Credit(c, t)]]
  PROVE  /\ DOMAIN tenants' = DOMAIN tenants
         /\ \A t \in DOMAIN tenants :
              /\ tenants'[t] = Fields(tenants[t].status, tenants[t].max, tenants[t].priority,
                   tenants[t].queue, tenants[t].active, tenants[t].deficit + Credit(c, t),
                   tenants[t].recent)
              /\ tenants'[t] \in TenantState
<1>1. DOMAIN tenants' = DOMAIN tenants
  OBVIOUS
<1>2. ASSUME NEW t \in DOMAIN tenants
      PROVE  /\ tenants'[t] = Fields(tenants[t].status, tenants[t].max, tenants[t].priority,
                   tenants[t].queue, tenants[t].active, tenants[t].deficit + Credit(c, t),
                   tenants[t].recent)
             /\ tenants'[t] \in TenantState
  <2> DEFINE x == tenants[t]
             d == x.deficit + Credit(c, t)
  <2>1. x \in TenantState /\ tenants'[t] = [x EXCEPT !.deficit = d]
    BY DEF Typed
  <2>2. d \in Nat
    BY <2>1, CreditIs, TypesOfFields
  <2> HIDE DEF x, d
  <2>3. [x EXCEPT !.deficit = d] =
          Fields(x.status, x.max, x.priority, x.queue, x.active, d, x.recent)
    BY <2>1, DeficitMoves, Zenon
  <2>4. Fields(x.status, x.max, x.priority, x.queue, x.active, d, x.recent) \in TenantState
    BY <2>1, <2>2, TypesOfFields, FieldsTyped
  <2>5. tenants'[t] = Fields(x.status, x.max, x.priority, x.queue, x.active, d, x.recent)
    BY <2>1, <2>3, Zenon
  <2> QED
    BY <2>4, <2>5 DEF x, d
<1> QED
  BY <1>1, <1>2

-----------------------------------------------------------------------------
(* The locals of schedule() and the items *)

PassOf(t, c, s, n, r) == [todo |-> t, cur |-> c, slots |-> s, count |-> n, ready |-> r]

LEMMA PassIs ==
  /\ NoPass = PassOf({}, None, 0, 0, {})
  /\ \A p \in Pass : p = PassOf(p.todo, p.cur, p.slots, p.count, p.ready)
  /\ \A t \in SUBSET Tenant, c \in Tenant \union {None}, s \in Nat, n \in Nat, r \in SUBSET Tickets :
       PassOf(t, c, s, n, r) \in Pass
  /\ \A t, c, s, n, r :
       /\ PassOf(t, c, s, n, r).todo = t /\ PassOf(t, c, s, n, r).cur = c
       /\ PassOf(t, c, s, n, r).slots = s /\ PassOf(t, c, s, n, r).count = n
       /\ PassOf(t, c, s, n, r).ready = r
BY DEF PassOf, Pass, NoPass

LEMMA PassTypes ==
  ASSUME NEW p \in Pass
  PROVE  /\ p.todo \in SUBSET Tenant /\ p.cur \in Tenant \union {None} /\ p.slots \in Nat
         /\ p.count \in Nat /\ p.ready \in SUBSET Tickets
BY DEF Pass

LEMMA CreditPass ==
  ASSUME NEW t
  PROVE  [NoPass EXCEPT !.todo = t] = PassOf(t, None, 0, 0, {})
BY DEF NoPass, PassOf

LEMMA PickPass ==
  ASSUME NEW p \in Pass, NEW t, NEW c, NEW s
  PROVE  /\ [p EXCEPT !.todo = t] = PassOf(t, p.cur, p.slots, p.count, p.ready)
         /\ [p EXCEPT !.todo = t, !.cur = c, !.slots = s] = PassOf(t, c, s, p.count, p.ready)
<1>1. PICK a, b, d, n, r : p = PassOf(a, b, d, n, r)
  BY PassIs
<1>2. p.todo = a /\ p.cur = b /\ p.slots = d /\ p.count = n /\ p.ready = r
  BY <1>1 DEF PassOf
<1>3. [p EXCEPT !.todo = t] = PassOf(t, b, d, n, r)
  BY <1>1 DEF PassOf
<1>4. [PassOf(t, b, d, n, r) EXCEPT !.cur = c] = PassOf(t, c, d, n, r)
  BY DEF PassOf
<1>5. [PassOf(t, c, d, n, r) EXCEPT !.slots = s] = PassOf(t, c, s, n, r)
  BY DEF PassOf
<1>6. [p EXCEPT !.todo = t, !.cur = c, !.slots = s] =
        [[[p EXCEPT !.todo = t] EXCEPT !.cur = c] EXCEPT !.slots = s]
  OBVIOUS
<1> QED
  BY <1>2, <1>3, <1>4, <1>5, <1>6, Zenon

LEMMA TakePass ==
  ASSUME NEW p \in Pass, NEW k
  PROVE  /\ [p EXCEPT !.slots = @ - 1, !.count = @ + 1, !.ready = @ \union {k}] =
              PassOf(p.todo, p.cur, p.slots - 1, p.count + 1, p.ready \union {k})
         /\ [p EXCEPT !.cur = None, !.slots = 0] = PassOf(p.todo, None, 0, p.count, p.ready)
<1>1. PICK a, b, d, n, r : p = PassOf(a, b, d, n, r)
  BY PassIs
<1>2. p.todo = a /\ p.cur = b /\ p.slots = d /\ p.count = n /\ p.ready = r
  BY <1>1 DEF PassOf
<1>3. [p EXCEPT !.slots = @ - 1, !.count = @ + 1, !.ready = @ \union {k}] =
        [[[p EXCEPT !.slots = p.slots - 1] EXCEPT !.count = p.count + 1]
           EXCEPT !.ready = p.ready \union {k}]
  BY DEF Pass
<1>4. \A v, w, z :
        /\ [PassOf(a, b, d, n, r) EXCEPT !.slots = v] = PassOf(a, b, v, n, r)
        /\ [PassOf(a, b, v, n, r) EXCEPT !.count = w] = PassOf(a, b, v, w, r)
        /\ [PassOf(a, b, v, w, r) EXCEPT !.ready = z] = PassOf(a, b, v, w, z)
  BY DEF PassOf
<1>5. [[[p EXCEPT !.slots = d - 1] EXCEPT !.count = n + 1] EXCEPT !.ready = r \union {k}] =
        PassOf(a, b, d - 1, n + 1, r \union {k})
  <2>1. [p EXCEPT !.slots = d - 1] = PassOf(a, b, d - 1, n, r)
    BY <1>1, <1>4
  <2>2. [PassOf(a, b, d - 1, n, r) EXCEPT !.count = n + 1] = PassOf(a, b, d - 1, n + 1, r)
    BY <1>4
  <2>3. [PassOf(a, b, d - 1, n + 1, r) EXCEPT !.ready = r \union {k}] =
          PassOf(a, b, d - 1, n + 1, r \union {k})
    BY <1>4
  <2> QED
    BY <2>1, <2>2, <2>3, Zenon
<1>6. [PassOf(a, b, d, n, r) EXCEPT !.cur = None] = PassOf(a, None, d, n, r)
  BY DEF PassOf
<1>7. [PassOf(a, None, d, n, r) EXCEPT !.slots = 0] = PassOf(a, None, 0, n, r)
  BY DEF PassOf
<1>8. [p EXCEPT !.cur = None, !.slots = 0] = [[p EXCEPT !.cur = None] EXCEPT !.slots = 0]
  OBVIOUS
<1>9. [p EXCEPT !.cur = None, !.slots = 0] = PassOf(a, None, 0, n, r)
  BY <1>1, <1>6, <1>7, <1>8, Zenon
<1> QED
  BY <1>2, <1>3, <1>5, <1>9, Zenon

LEMMA ItemMoves ==
  ASSUME NEW x \in ItemState, NEW v \in {"Queued", "Running", "Done"}
  PROVE  /\ [x EXCEPT !.state = v] \in ItemState
         /\ [x EXCEPT !.state = v].state = v /\ [x EXCEPT !.state = v].tenant = x.tenant
BY DEF ItemState

-----------------------------------------------------------------------------
(* Locks and types *)

LEMMA TenantsTyped ==
  ASSUME Typed
  PROVE  \A t \in DOMAIN tenants : tenants[t] \in TenantState
BY DEF Typed

\* What a thread does with pc and the two locks, given that it had it right.
LEMMA LockMoves ==
  ASSUME Typed, Locks, NEW t \in Thread, NEW l, pc' = [pc EXCEPT ![t] = l],
         l = "insert" => t \in Submitter,
         l \in Scheduling => t \in Scheduler,
         l = "retain" => t \in Runner,
         \/ lockT' = lockT /\ (lockT = t <=> l \in {"insert", "items", "pick", "take"})
         \/ lockT = None /\ lockT' = t /\ l \in {"insert", "items", "pick", "take"}
         \/ lockT = t /\ lockT' = None /\ l \notin {"insert", "items", "pick", "take"},
         \/ lockI' = lockI /\ (lockI = t <=> l \in {"pick", "take", "retain"})
         \/ lockI = None /\ lockI' = t /\ l \in {"pick", "take", "retain"}
         \/ lockI = t /\ lockI' = None /\ l \notin {"pick", "take", "retain"}
  PROVE  Locks'
<1>0. None \notin Thread
  BY OrchestratorAssumption
<1>1. pc'[t] = l /\ \A u \in Thread : u # t => pc'[u] = pc[u]
  BY DEF Typed
<1>2. \A u \in Thread : u # t => (lockT' = u <=> lockT = u) /\ (lockI' = u <=> lockI = u)
  BY <1>0
<1>3. \A u \in Thread : u # t =>
        /\ pc'[u] = "insert" => u \in Submitter
        /\ pc'[u] \in Scheduling => u \in Scheduler
        /\ pc'[u] = "retain" => u \in Runner
        /\ lockT' = u <=> pc'[u] \in {"insert", "items", "pick", "take"}
        /\ lockI' = u <=> pc'[u] \in {"pick", "take", "retain"}
  BY <1>1, <1>2 DEF Locks
<1>4. /\ lockT' = t <=> pc'[t] \in {"insert", "items", "pick", "take"}
      /\ lockI' = t <=> pc'[t] \in {"pick", "take", "retain"}
  BY <1>0, <1>1
<1> QED
  BY <1>1, <1>3, <1>4 DEF Locks

LEMMA LocksStep ==
  ASSUME Typed, Locks, [Next]_vars
  PROVE  Locks'
<1> USE DEF Goto, Scheduling
<1>0. Submitter \subseteq Thread /\ Scheduler \subseteq Thread /\ Runner \subseteq Thread
  BY DEF Thread
<1>1. CASE UNCHANGED vars
  BY <1>1 DEF vars, Locks
<1>2. ASSUME NEW t \in Tenant, Admin(t) PROVE Locks'
  BY <1>2 DEF Admin, RegisterTenant, UpdateTenant, SuspendTenant, ResumeTenant, RemoveTenant,
              WithTenants, Locks
<1>3. ASSUME NEW s \in Submitter, NEW t \in Tenant, SubmitQueue(s, t) PROVE Locks'
  <2>1. pc[s] = "idle" /\ lockT = None /\ lockI' = lockI /\ t \in DOMAIN tenants
    BY <1>3 DEF SubmitQueue
  <2>2. \/ UNCHANGED << lockT, pc >>
        \/ lockT' = s /\ pc' = [pc EXCEPT ![s] = "insert"]
    BY <1>3, <2>1, SubmitBecomes, TenantsTyped
  <2>3. CASE UNCHANGED << lockT, pc >>
    BY <2>1, <2>3 DEF Locks
  <2>4. CASE lockT' = s /\ pc' = [pc EXCEPT ![s] = "insert"]
    <3>1. lockI # s
      BY <1>0, <2>1 DEF Locks
    <3> QED
      BY <1>0, <2>1, <2>4, <3>1, LockMoves
  <2> QED
    BY <2>2, <2>3, <2>4
<1>4. ASSUME NEW s \in Submitter, SubmitInsert(s) PROVE Locks'
  <2>1. /\ pc[s] = "insert" /\ lockI' = lockI /\ lockT' = None
        /\ pc' = [pc EXCEPT ![s] = "idle"]
    BY <1>4 DEF SubmitInsert
  <2>2. lockT = s /\ lockI # s
    BY <1>0, <2>1 DEF Locks
  <2> QED
    BY <1>0, <2>1, <2>2, LockMoves
<1>5. ASSUME NEW c \in Scheduler, ScheduleLoad(c) PROVE Locks'
  <2>1. pc[c] = "idle" /\ pc' = [pc EXCEPT ![c] = "tenants"] /\ UNCHANGED << lockT, lockI >>
    BY <1>5 DEF ScheduleLoad
  <2>2. lockT # c /\ lockI # c
    BY <1>0, <2>1 DEF Locks
  <2> QED
    BY <1>0, <2>1, <2>2, LockMoves
<1>6. ASSUME NEW c \in Scheduler, ScheduleLock(c) PROVE Locks'
  <2>1. /\ pc[c] = "tenants" /\ pc' = [pc EXCEPT ![c] = "items"] /\ lockT = None /\ lockT' = c
        /\ lockI' = lockI
    BY <1>6 DEF ScheduleLock
  <2>2. lockI # c
    BY <1>0, <2>1 DEF Locks
  <2> QED
    BY <1>0, <2>1, <2>2, LockMoves
<1>7. ASSUME NEW c \in Scheduler, ScheduleCredit(c) PROVE Locks'
  <2>1. /\ pc[c] = "items" /\ lockI = None
        /\ \/ lockT' = None /\ pc' = [pc EXCEPT ![c] = "idle"] /\ lockI' = lockI
           \/ lockI' = c /\ pc' = [pc EXCEPT ![c] = "pick"] /\ lockT' = lockT
    BY <1>7 DEF ScheduleCredit
  <2>2. lockT = c /\ lockI # c
    BY <1>0, <2>1 DEF Locks
  <2>3. CASE lockT' = None /\ pc' = [pc EXCEPT ![c] = "idle"] /\ lockI' = lockI
    BY <1>0, <2>1, <2>2, <2>3, LockMoves
  <2>4. CASE lockI' = c /\ pc' = [pc EXCEPT ![c] = "pick"] /\ lockT' = lockT
    BY <1>0, <2>1, <2>2, <2>4, LockMoves
  <2> QED
    BY <2>1, <2>3, <2>4
<1>8. ASSUME NEW c \in Scheduler, SchedulePick(c) \/ ScheduleTake(c) PROVE Locks'
  <2>1. /\ pc[c] \in {"pick", "take"} /\ UNCHANGED << lockT, lockI >>
        /\ \/ pc' = pc
           \/ pc' = [pc EXCEPT ![c] = "pick"] \/ pc' = [pc EXCEPT ![c] = "take"]
    BY <1>8 DEF SchedulePick, ScheduleTake
  <2>2. lockT = c /\ lockI = c
    BY <1>0, <2>1 DEF Locks
  <2>3. CASE pc' = pc
    BY <2>1, <2>3 DEF Locks
  <2>4. CASE pc' = [pc EXCEPT ![c] = "pick"]
    BY <1>0, <2>1, <2>2, <2>4, LockMoves
  <2>5. CASE pc' = [pc EXCEPT ![c] = "take"]
    BY <1>0, <2>1, <2>2, <2>5, LockMoves
  <2> QED
    BY <2>1, <2>3, <2>4, <2>5
<1>9. ASSUME NEW c \in Scheduler, ScheduleReturn(c) PROVE Locks'
  <2>1. pc[c] = "pick" /\ pc' = [pc EXCEPT ![c] = "idle"] /\ lockT' = None /\ lockI' = None
    BY <1>9 DEF ScheduleReturn
  <2>2. lockT = c /\ lockI = c
    BY <1>0, <2>1 DEF Locks
  <2> QED
    BY <1>0, <2>1, <2>2, LockMoves
<1>10. ASSUME NEW r \in Runner, NEW k, CompleteLock(r, k) PROVE Locks'
  <2>1. /\ pc[r] = "idle" /\ lockI = None /\ lockI' = r /\ pc' = [pc EXCEPT ![r] = "retain"]
        /\ lockT' = lockT
    BY <1>10 DEF CompleteLock
  <2>2. lockT # r
    BY <1>0, <2>1 DEF Locks
  <2> QED
    BY <1>0, <2>1, <2>2, LockMoves
<1>11. ASSUME NEW r \in Runner, CompleteRetain(r) PROVE Locks'
  <2>1. /\ pc[r] = "retain" /\ lockI' = None /\ pc' = [pc EXCEPT ![r] = "idle"]
        /\ lockT' = lockT
    BY <1>11 DEF CompleteRetain
  <2>2. lockT # r /\ lockI = r
    BY <1>0, <2>1 DEF Locks
  <2> QED
    BY <1>0, <2>1, <2>2, LockMoves
<1> QED
  BY <1>1, <1>2, <1>3, <1>4, <1>5, <1>6, <1>7, <1>8, <1>9, <1>10, <1>11 DEF Next, Step

-----------------------------------------------------------------------------
(* What the steps of schedule() and complete() do *)

LEMMA SlotsIs ==
  ASSUME Typed, NEW c \in Scheduler, NEW t \in DOMAIN tenants, pass.count < avail[c]
  PROVE  /\ Slots(c, t) \in Nat
         /\ drr => Slots(c, t) <= tenants[t].deficit \div Scale
         /\ ~drr => Slots(c, t) <= avail[c] - pass.count
<1> DEFINE x == tenants[t]
<1>1. x \in TenantState /\ pass \in Pass /\ avail[c] \in 0 .. MaxGlobal /\ MaxGlobal \in Nat
  BY OrchestratorAssumption DEF Typed
<1>2. x.max \in Nat /\ x.active \in SUBSET Tickets /\ x.deficit \in Nat
  <2>1. x.max \in Limits /\ Limits \subseteq Nat
    BY <1>1, TypesOfFields, OrchestratorAssumption
  <2> QED
    BY <1>1, <2>1, TypesOfFields
<1>3. Cardinality(x.active) \in Nat
  <2>1. IsFiniteSet(Tickets)
    BY OrchestratorAssumption, FS_Interval DEF Tickets
  <2> QED
    BY <1>2, <2>1, FS_Subset, FS_CardinalityType
<1>4. Headroom(t) \in Nat
  <2>1. x.max - Cardinality(x.active) \in Int /\ UsizeValues \in Nat \ {0}
    BY <1>2, <1>3, OrchestratorAssumption
  <2>2. (x.max - Cardinality(x.active)) % UsizeValues \in 0 .. (UsizeValues - 1)
    BY <2>1, Remainders
  <2> QED
    BY <2>1, <2>2 DEF Headroom
<1>5. pass.count \in Nat
  BY <1>1, PassTypes
<1>6. CASE drr
  <2> DEFINE d == x.deficit \div Scale
  <2>1. d \in Nat
    BY <1>2, OrchestratorAssumption, Quotients
  <2>2. Slots(c, t) = Min({d, Headroom(t)})
    BY <1>6 DEF Slots
  <2> HIDE DEF d
  <2>3. Min({d, Headroom(t)}) \in {d, Headroom(t)} /\ Min({d, Headroom(t)}) <= d
    <3>1. d \in Int /\ Headroom(t) \in Int
      BY <1>4, <2>1
    <3> QED
      BY <3>1, MinOfTwo, Zenon
  <2>4. Slots(c, t) \in Nat /\ Slots(c, t) <= d
    BY <1>4, <2>1, <2>2, <2>3
  <2> QED
    BY <1>6, <2>4 DEF d
<1>7. CASE ~drr
  <2> DEFINE d == avail[c] - pass.count
  <2>1. d \in Nat
    BY <1>1, <1>5
  <2>2. Slots(c, t) = Min({Headroom(t), d})
    BY <1>7 DEF Slots
  <2> HIDE DEF d
  <2>3. Min({Headroom(t), d}) \in {Headroom(t), d} /\ Min({Headroom(t), d}) <= d
    <3>1. d \in Int /\ Headroom(t) \in Int
      BY <1>4, <2>1
    <3> QED
      BY <3>1, MinOfTwo, Zenon
  <2>4. Slots(c, t) \in Nat /\ Slots(c, t) <= d
    BY <1>4, <2>1, <2>2, <2>3
  <2> QED
    BY <1>7, <2>4 DEF d
<1> QED
  BY <1>6, <1>7

Spent(t) == IF drr THEN tenants[t].deficit % Scale ELSE tenants[t].deficit

LEMMA SpentIs ==
  ASSUME Typed, NEW t \in DOMAIN tenants
  PROVE  /\ Spent(t) \in Nat /\ Spent(t) <= tenants[t].deficit
         /\ drr => /\ Spent(t) < Scale /\ tenants[t].deficit \div Scale \in Nat
                   /\ Spent(t) + Scale * (tenants[t].deficit \div Scale) = tenants[t].deficit
<1> DEFINE d == tenants[t].deficit
<1>1. d \in Nat /\ Scale \in Nat \ {0}
  BY TenantsTyped, TypesOfFields, OrchestratorAssumption
<1> HIDE DEF d
<1>2. d % Scale \in 0 .. (Scale - 1)
  BY <1>1, Remainders
<1>3. d \div Scale \in Nat /\ d % Scale = d - Scale * (d \div Scale)
  BY <1>1, Quotients
<1>4. \A a, b \in Nat : a * b \in Nat
  OBVIOUS
<1>5. Scale * (d \div Scale) \in Nat
  BY <1>1, <1>3, <1>4
<1>6. Spent(t) = (IF drr THEN d % Scale ELSE d)
  BY DEF Spent, d
<1>7. /\ Spent(t) \in Nat /\ Spent(t) <= d
      /\ drr => Spent(t) < Scale /\ Spent(t) + Scale * (d \div Scale) = d
  BY <1>1, <1>2, <1>3, <1>5, <1>6
<1> QED
  BY <1>3, <1>7 DEF d

LEMMA PickEffect ==
  ASSUME Typed, Passing, NEW c \in Scheduler, SchedulePick(c)
  PROVE  /\ c \in Thread /\ pc[c] = "pick" /\ pass.count < avail[c]
         /\ UNCHANGED << drr, items, running, lockT, lockI, ticket, avail, ghosts >>
         /\ \E t \in pass.todo :
              /\ t \in DOMAIN tenants
              /\ \/ /\ tenants[t].status = "Active"
                    /\ Becomes(t, Fields(tenants[t].status, tenants[t].max, tenants[t].priority,
                         tenants[t].queue, tenants[t].active, Spent(t), tenants[t].recent))
                    /\ pass' = PassOf(pass.todo \ {t}, t, Slots(c, t), pass.count, pass.ready)
                    /\ pc' = [pc EXCEPT ![c] = "take"]
                 \/ /\ tenants[t].status # "Active"
                    /\ pass' = PassOf(pass.todo \ {t}, pass.cur, pass.slots, pass.count, pass.ready)
                    /\ UNCHANGED << tenants, pc >>
<1>1. /\ pc[c] = "pick" /\ pass.count < avail[c] /\ c \in Thread
      /\ UNCHANGED << drr, items, running, lockT, lockI, ticket, avail, ghosts >>
  BY DEF SchedulePick, Thread
<1>2. PICK t \in pass.todo :
        IF tenants[t].status = "Active"
        THEN /\ pass' = [pass EXCEPT !.todo = @ \ {t}, !.cur = t, !.slots = Slots(c, t)]
             /\ tenants' = [tenants EXCEPT ![t].deficit = IF drr THEN @ % Scale ELSE @]
             /\ Goto(c, "take")
        ELSE /\ pass' = [pass EXCEPT !.todo = @ \ {t}]
             /\ UNCHANGED << tenants, pc >>
  BY DEF SchedulePick
<1>3. t \in DOMAIN tenants /\ pass \in Pass
  BY <1>1 DEF Passing, InPass, Typed
<1> DEFINE x == tenants[t]
           left == pass.todo \ {t}
<1>4. x \in TenantState
  BY <1>3, TenantsTyped
<1>5. CASE tenants[t].status = "Active"
  <2>1. /\ pass' = [pass EXCEPT !.todo = left, !.cur = t, !.slots = Slots(c, t)]
        /\ tenants' = [tenants EXCEPT ![t].deficit = Spent(t)]
        /\ pc' = [pc EXCEPT ![c] = "take"]
    BY <1>2, <1>3, <1>5 DEF Spent, Goto, Pass
  <2> HIDE DEF x, left
  <2>2. pass' = PassOf(left, t, Slots(c, t), pass.count, pass.ready)
    BY <1>3, <2>1, PickPass
  <2>3. Becomes(t, Fields(x.status, x.max, x.priority, x.queue, x.active, Spent(t), x.recent))
    <3>1. x = tenants[t]
      BY DEF x
    <3> QED
      BY <1>3, <1>4, <2>1, <3>1, PickBecomes
  <2> QED
    BY <1>1, <1>3, <1>5, <2>1, <2>2, <2>3 DEF x, left
<1>6. CASE tenants[t].status # "Active"
  <2>1. pass' = [pass EXCEPT !.todo = left] /\ UNCHANGED << tenants, pc >>
    BY <1>2, <1>3, <1>6 DEF Pass
  <2> HIDE DEF x, left
  <2>2. pass' = PassOf(left, pass.cur, pass.slots, pass.count, pass.ready)
    BY <1>3, <2>1, PickPass
  <2> QED
    BY <1>1, <1>3, <1>6, <2>1, <2>2 DEF left
<1> QED
  BY <1>5, <1>6

\* A ticket is taken, or the tenant's turn ends.
Taken(t, x, k) ==
  /\ pass.slots > 0 /\ x.queue # << >>
  /\ Becomes(t, Fields(x.status, x.max, x.priority, Tail(x.queue), x.active \union {k},
                       x.deficit, x.recent))
  /\ items' = [j \in DOMAIN items |->
       IF j = k THEN [items[j] EXCEPT !.state = "Running"] ELSE items[j]]
  /\ running' = running + 1
  /\ pass' = PassOf(pass.todo, pass.cur, pass.slots - 1, pass.count + 1, pass.ready \union {k})
  /\ pc' = pc
TurnEnds(c) ==
  /\ pc' = [pc EXCEPT ![c] = "pick"]
  /\ pass' = PassOf(pass.todo, None, 0, pass.count, pass.ready)
  /\ UNCHANGED << tenants, items, running >>

LEMMA TakeEffect ==
  ASSUME Typed, Passing, NEW c \in Scheduler, ScheduleTake(c),
         NEW t, t = pass.cur, NEW x, x = tenants[t], NEW k, k = Head(x.queue)
  PROVE  /\ c \in Thread /\ pc[c] = "take" /\ t \in DOMAIN tenants /\ x \in TenantState
         /\ UNCHANGED << drr, lockT, lockI, ticket, avail, ghosts >>
         /\ Taken(t, x, k) \/ TurnEnds(c)
<1>1. /\ c \in Thread /\ pc[c] = "take"
      /\ UNCHANGED << drr, lockT, lockI, ticket, avail, ghosts >>
  BY DEF ScheduleTake, Thread
<1>2. t \in DOMAIN tenants /\ x \in TenantState /\ pass \in Pass
  BY <1>1 DEF Passing, Typed
<1>3. IF pass.slots > 0 /\ x.queue # << >>
      THEN /\ tenants' = [tenants EXCEPT ![t].queue = Tail(@), ![t].active = @ \union {k}]
           /\ items' = [j \in DOMAIN items |->
                IF j = k THEN [items[j] EXCEPT !.state = "Running"] ELSE items[j]]
           /\ running' = running + 1
           /\ pass' = [pass EXCEPT !.slots = @ - 1, !.count = @ + 1, !.ready = @ \union {k}]
           /\ pc' = pc
      ELSE /\ Goto(c, "pick")
           /\ pass' = [pass EXCEPT !.cur = None, !.slots = 0]
           /\ UNCHANGED << tenants, items, running >>
  BY DEF ScheduleTake
<1>4. CASE pass.slots > 0 /\ x.queue # << >>
  <2>1. Becomes(t, Fields(x.status, x.max, x.priority, Tail(x.queue), x.active \union {k},
                          x.deficit, x.recent))
    BY <1>2, <1>3, <1>4, TakeBecomes
  <2>2. pass' = PassOf(pass.todo, pass.cur, pass.slots - 1, pass.count + 1, pass.ready \union {k})
    BY <1>2, <1>3, <1>4, TakePass
  <2> QED
    BY <1>1, <1>2, <1>3, <1>4, <2>1, <2>2 DEF Taken
<1>5. CASE ~(pass.slots > 0 /\ x.queue # << >>)
  <2>1. pass' = PassOf(pass.todo, None, 0, pass.count, pass.ready)
    BY <1>2, <1>3, <1>5, TakePass
  <2> QED
    BY <1>1, <1>2, <1>3, <1>5, <2>1 DEF Goto, TurnEnds
<1> QED
  BY <1>4, <1>5

\* Only the thread that holds both locks is in a pass.
LEMMA OnePass ==
  ASSUME Locks, NEW t \in Thread
  PROVE  /\ pc[t] \in InPass => \A u \in Thread : u # t => pc[u] \notin InPass \union {"insert", "items", "retain"}
         /\ pc[t] \in {"insert", "items", "retain"} => \A u \in Thread : pc[u] \notin InPass
         /\ lockT = None \/ lockI = None => \A u \in Thread : pc[u] \notin InPass
BY OrchestratorAssumption DEF Locks, InPass

LEMMA NoPassKept ==
  ASSUME Typed, Passing, \A u \in Thread : pc[u] \notin InPass,
         pass' = pass, \A u \in Thread : pc'[u] \notin InPass
  PROVE  Passing'
BY DEF Passing, InPass

LEMMA PassingStep ==
  ASSUME Typed, Locks, Passing, [Next]_vars
  PROVE  Passing'
<1> USE DEF Goto
<1>0. /\ Submitter \subseteq Thread /\ Scheduler \subseteq Thread /\ Runner \subseteq Thread
      /\ pc \in [Thread -> PCs] /\ pass \in Pass
  BY DEF Thread, Typed
<1>1. CASE UNCHANGED vars
  BY <1>1 DEF vars, Passing
<1>2. ASSUME NEW t \in Tenant, Admin(t) PROVE Passing'
  <2>1. lockT = None /\ UNCHANGED << pc, pass >>
    BY <1>2 DEF Admin, RegisterTenant, UpdateTenant, SuspendTenant, ResumeTenant, RemoveTenant,
                WithTenants, locals
  <2> QED
    BY <2>1, OnePass, NoPassKept
<1>3. ASSUME NEW s \in Submitter, NEW t \in Tenant, SubmitQueue(s, t) PROVE Passing'
  <2>1. lockT = None /\ pass' = pass /\ t \in DOMAIN tenants
    BY <1>3 DEF SubmitQueue
  <2>2. pc' = pc \/ pc' = [pc EXCEPT ![s] = "insert"]
    BY <1>3, <2>1, SubmitBecomes, TenantsTyped
  <2>3. \A u \in Thread : pc'[u] = pc[u] \/ pc'[u] = "insert"
    BY <1>0, <2>2
  <2>4. \A u \in Thread : pc[u] \notin InPass
    BY <2>1, OnePass
  <2>5. \A u \in Thread : pc'[u] \notin InPass
    BY <2>3, <2>4 DEF InPass
  <2> QED
    BY <2>1, <2>4, <2>5, NoPassKept
<1>4. ASSUME NEW s \in Submitter, SubmitInsert(s) PROVE Passing'
  <2>1. pc[s] = "insert" /\ pass' = pass /\ pc' = [pc EXCEPT ![s] = "idle"]
    BY <1>4 DEF SubmitInsert
  <2>2. \A u \in Thread : pc[u] \notin InPass
    BY <1>0, <2>1, OnePass
  <2>3. \A u \in Thread : pc'[u] \notin InPass
    BY <1>0, <2>1, <2>2 DEF InPass
  <2> QED
    BY <2>1, <2>2, <2>3, NoPassKept
<1>5. ASSUME NEW c \in Thread, NEW l \in {"tenants", "items", "retain"}, pc[c] \notin InPass,
             pc' = [pc EXCEPT ![c] = l], UNCHANGED << tenants, pass >>
      PROVE  Passing'
  <2>1. \A u \in Thread : pc'[u] \in InPass => pc'[u] = pc[u]
    BY <1>0, <1>5 DEF InPass
  <2>2. (\A u \in Thread : pc'[u] \notin InPass) => \A u \in Thread : pc[u] \notin InPass
    BY <1>0, <1>5
  <2> QED
    BY <1>5, <2>1, <2>2 DEF Passing, InPass
<1>6. ASSUME NEW c \in Scheduler, ScheduleLoad(c) \/ ScheduleLock(c) PROVE Passing'
  <2>1. /\ pc[c] \notin InPass /\ UNCHANGED << tenants, pass >>
        /\ \E l \in {"tenants", "items", "retain"} : pc' = [pc EXCEPT ![c] = l]
    BY <1>6 DEF ScheduleLoad, ScheduleLock, locals, InPass
  <2> QED
    BY <1>0, <1>5, <2>1
<1>7. ASSUME NEW c \in Scheduler, ScheduleCredit(c) PROVE Passing'
  <2>1. /\ pc[c] = "items" /\ lockI = None
        /\ \/ pc' = [pc EXCEPT ![c] = "idle"] /\ pass' = pass
           \/ /\ pc' = [pc EXCEPT ![c] = "pick"]
              /\ pass' = PassOf(DOMAIN tenants, None, 0, 0, {})
              /\ DOMAIN tenants' = DOMAIN tenants
    BY <1>7, CreditPass DEF ScheduleCredit
  <2>2. \A u \in Thread : pc[u] \notin InPass
    BY <1>0, <2>1, OnePass
  <2>3. CASE pc' = [pc EXCEPT ![c] = "idle"] /\ pass' = pass
    <3>1. \A u \in Thread : pc'[u] \notin InPass
      BY <1>0, <2>2, <2>3 DEF InPass
    <3> QED
      BY <2>2, <2>3, <3>1, NoPassKept
  <2>4. CASE /\ pc' = [pc EXCEPT ![c] = "pick"]
             /\ pass' = PassOf(DOMAIN tenants, None, 0, 0, {})
             /\ DOMAIN tenants' = DOMAIN tenants
    <3>1. pc'[c] = "pick" /\ c \in Thread /\ \A u \in Thread : u # c => pc'[u] \notin InPass
      BY <1>0, <2>2, <2>4
    <3>2. pass'.todo = DOMAIN tenants' /\ pass'.slots = 0
      BY <2>4, PassIs
    <3> QED
      BY <3>1, <3>2 DEF Passing, InPass
  <2> QED
    BY <2>1, <2>3, <2>4
<1>8. ASSUME NEW c \in Scheduler, SchedulePick(c) PROVE Passing'
  <2>1. c \in Thread /\ pc[c] = "pick"
    BY <1>8, PickEffect
  <2>2. pass.slots = 0 /\ pass.todo \subseteq DOMAIN tenants
    BY <2>1 DEF Passing, InPass
  <2>3. PICK t \in pass.todo :
          /\ t \in DOMAIN tenants /\ DOMAIN tenants' = DOMAIN tenants
          /\ \/ /\ pass' = PassOf(pass.todo \ {t}, t, Slots(c, t), pass.count, pass.ready)
                /\ pc' = [pc EXCEPT ![c] = "take"]
             \/ /\ pass' = PassOf(pass.todo \ {t}, pass.cur, pass.slots, pass.count, pass.ready)
                /\ pc' = pc
    BY <1>8, PickEffect DEF Becomes
  <2>4. \A u \in Thread : u # c => pc'[u] \notin InPass
    BY <1>0, <2>1, <2>3, OnePass DEF InPass
  <2>5. CASE /\ pass' = PassOf(pass.todo \ {t}, t, Slots(c, t), pass.count, pass.ready)
             /\ pc' = [pc EXCEPT ![c] = "take"]
    <3>1. pc'[c] = "take" /\ pass'.todo = pass.todo \ {t} /\ pass'.cur = t
      BY <1>0, <2>1, <2>5, PassIs
    <3> QED
      BY <2>1, <2>2, <2>3, <2>4, <3>1 DEF Passing, InPass
  <2>6. CASE /\ pass' = PassOf(pass.todo \ {t}, pass.cur, pass.slots, pass.count, pass.ready)
             /\ pc' = pc
    <3>1. pc'[c] = "pick" /\ pass'.todo = pass.todo \ {t} /\ pass'.slots = 0
      BY <2>1, <2>2, <2>6, PassIs
    <3> QED
      BY <2>1, <2>2, <2>3, <2>4, <3>1 DEF Passing, InPass
  <2> QED
    BY <2>3, <2>5, <2>6
<1>9. ASSUME NEW c \in Scheduler, ScheduleTake(c) PROVE Passing'
  <2>1. c \in Thread /\ pc[c] = "take" /\ pass.cur \in DOMAIN tenants
    BY <1>9, TakeEffect
  <2>2. pass.todo \subseteq DOMAIN tenants
    BY <2>1 DEF Passing, InPass
  <2>3. /\ DOMAIN tenants' = DOMAIN tenants
        /\ \/ pc' = pc /\ \E s, n, r : pass' = PassOf(pass.todo, pass.cur, s, n, r)
           \/ /\ pc' = [pc EXCEPT ![c] = "pick"]
              /\ \E n, r : pass' = PassOf(pass.todo, None, 0, n, r)
    <3>1. PICK t, x, k : t = pass.cur /\ x = tenants[t] /\ k = Head(x.queue)
      OBVIOUS
    <3>2. Taken(t, x, k) \/ TurnEnds(c)
      BY <1>9, <3>1, TakeEffect
    <3>3. DOMAIN tenants' = DOMAIN tenants
      BY <3>2 DEF Becomes, Taken, TurnEnds
    <3> QED
      BY <3>2, <3>3 DEF Taken, TurnEnds
  <2>4. \A u \in Thread : u # c => pc'[u] \notin InPass
    BY <1>0, <2>1, <2>3, OnePass DEF InPass
  <2>5. pass'.todo = pass.todo
    BY <2>3, PassIs
  <2>6. CASE pc' = pc /\ \E s, n, r : pass' = PassOf(pass.todo, pass.cur, s, n, r)
    <3>1. pc'[c] = "take" /\ pass'.cur = pass.cur
      BY <2>1, <2>6, PassIs
    <3> QED
      BY <2>1, <2>2, <2>3, <2>4, <2>5, <3>1 DEF Passing, InPass
  <2>7. CASE /\ pc' = [pc EXCEPT ![c] = "pick"]
             /\ \E n, r : pass' = PassOf(pass.todo, None, 0, n, r)
    <3>1. pc'[c] = "pick" /\ pass'.slots = 0
      BY <1>0, <2>1, <2>7, PassIs
    <3> QED
      BY <2>1, <2>2, <2>3, <2>4, <2>5, <3>1 DEF Passing, InPass
  <2> QED
    BY <2>3, <2>6, <2>7
<1>10. ASSUME NEW c \in Scheduler, ScheduleReturn(c) PROVE Passing'
  <2>1. pc[c] = "pick" /\ c \in Thread /\ pass' = NoPass /\ pc' = [pc EXCEPT ![c] = "idle"]
    BY <1>0, <1>10 DEF ScheduleReturn
  <2>2. \A u \in Thread : u # c => pc[u] \notin InPass
    BY <2>1, OnePass DEF InPass
  <2>3. \A u \in Thread : pc'[u] \notin InPass
    BY <1>0, <2>1, <2>2 DEF InPass
  <2> QED
    BY <2>1, <2>3 DEF Passing, InPass, NoPass
<1>11. ASSUME NEW r \in Runner, NEW k, CompleteLock(r, k) PROVE Passing'
  <2>1. /\ pc[r] \notin InPass /\ UNCHANGED << tenants, pass >>
        /\ pc' = [pc EXCEPT ![r] = "retain"]
    BY <1>11 DEF CompleteLock, InPass
  <2> QED
    BY <1>0, <1>5, <2>1
<1>12. ASSUME NEW r \in Runner, CompleteRetain(r) PROVE Passing'
  <2>1. pc[r] = "retain" /\ pass' = pass /\ pc' = [pc EXCEPT ![r] = "idle"]
    BY <1>12 DEF CompleteRetain
  <2>2. \A u \in Thread : pc[u] \notin InPass
    BY <1>0, <2>1, OnePass
  <2>3. \A u \in Thread : pc'[u] \notin InPass
    BY <1>0, <2>1, <2>2 DEF InPass
  <2> QED
    BY <2>1, <2>2, <2>3, NoPassKept
<1> QED
  BY <1>1, <1>2, <1>3, <1>4, <1>6, <1>7, <1>8, <1>9, <1>10, <1>11, <1>12 DEF Next, Step

LEMMA BecomesTyped ==
  ASSUME Typed, NEW t, NEW y \in TenantState, Becomes(t, y)
  PROVE  DOMAIN tenants' \subseteq Tenant /\ \A u \in DOMAIN tenants' : tenants'[u] \in TenantState
BY BecomesIs, TenantsTyped DEF Typed

LEMMA ItemsTyped ==
  ASSUME Typed, NEW k, NEW v \in {"Queued", "Running", "Done"},
         DOMAIN items' = DOMAIN items,
         \A j \in DOMAIN items :
           items'[j] = IF j = k THEN [items[j] EXCEPT !.state = v] ELSE items[j]
  PROVE  DOMAIN items' \subseteq Tickets /\ \A j \in DOMAIN items' : items'[j] \in ItemState
<1>1. DOMAIN items \subseteq Tickets /\ \A j \in DOMAIN items : items[j] \in ItemState
  BY DEF Typed
<1>2. ASSUME NEW j \in DOMAIN items PROVE items'[j] \in ItemState
  <2>1. items[j] \in ItemState /\ [items[j] EXCEPT !.state = v] \in ItemState
    BY <1>1, ItemMoves
  <2>2. items'[j] = [items[j] EXCEPT !.state = v] \/ items'[j] = items[j]
    BY Zenon
  <2> QED
    BY <2>1, <2>2, Zenon
<1> QED
  BY <1>1, <1>2, Zenon

LEMMA ActiveFinite ==
  ASSUME Typed
  PROVE  Active \in SUBSET Tickets /\ IsFiniteSet(Active) /\ Cardinality(Active) \in Nat
<1>1. IsFiniteSet(Tickets)
  BY OrchestratorAssumption, FS_Interval DEF Tickets
<1>2. Active \in SUBSET Tickets
  BY TenantsTyped, TypesOfFields DEF Active
<1> QED
  BY <1>1, <1>2, FS_Subset, FS_CardinalityType

LEMMA TypedStep ==
  ASSUME Typed, Locks, Passing, Queues, Counted, [Next]_vars
  PROVE  Typed'
<1> USE DEF Goto
<1>0. /\ Submitter \subseteq Thread /\ Scheduler \subseteq Thread /\ Runner \subseteq Thread
      /\ pass \in Pass
  BY DEF Thread, Typed
<1>1. CASE UNCHANGED vars
  BY <1>1 DEF vars, Typed
<1>2. ASSUME NEW t \in Tenant, Admin(t) PROVE Typed'
  <2>1. /\ UNCHANGED << drr, items, lockT, lockI, pc, ticket, avail, pass, issued, ready >>
        /\ suspended' \in BOOLEAN
    BY <1>2 DEF Admin, RegisterTenant, UpdateTenant, SuspendTenant, ResumeTenant, RemoveTenant,
                WithTenants, locals, Typed
  <2>2. /\ DOMAIN tenants' \subseteq Tenant
        /\ \A u \in DOMAIN tenants' : tenants'[u] \in TenantState
    <3>1. CASE RegisterTenant(t)
      <4>1. PICK m \in Limits, p \in Priorities :
              tenants'[t] = Fields("Active", m, p, << >>, {}, 0, 0)
        BY <3>1, RegisterAdds
      <4>2. "Active" \in Statuses /\ << >> \in Seq(Tickets) /\ 0 \in 0 .. RateLimit + 2
        BY OrchestratorAssumption DEF Statuses
      <4>3. tenants'[t] \in TenantState
        <5>1. 0 \in Nat /\ {} \in SUBSET Tickets
          OBVIOUS
        <5>2. Fields("Active", m, p, << >>, {}, 0, 0) \in TenantState
          BY <4>2, <5>1, FieldsTyped
        <5> QED
          BY <4>1, <5>2, Zenon
      <4>4. /\ DOMAIN tenants' = DOMAIN tenants \union {t}
            /\ \A u \in DOMAIN tenants : tenants'[u] = tenants[u]
        BY <3>1, RegisterAdds
      <4>5. \A u \in DOMAIN tenants : tenants'[u] \in TenantState
        BY <4>4, TenantsTyped
      <4>6. DOMAIN tenants \subseteq Tenant
        BY DEF Typed
      <4> QED
        BY <4>3, <4>4, <4>5, <4>6, Zenon
    <3>2. CASE RemoveTenant(t)
      BY <3>2, RemoveTakes, TenantsTyped DEF Typed
    <3>3. ASSUME t \in DOMAIN tenants, NEW v \in Statuses, NEW m \in Limits, NEW p \in Priorities,
                 NEW x, x = tenants[t],
                 Becomes(t, Fields(v, m, p, x.queue, x.active, x.deficit, x.recent))
          PROVE  /\ DOMAIN tenants' \subseteq Tenant
                 /\ \A u \in DOMAIN tenants' : tenants'[u] \in TenantState
      <4>1. x \in TenantState
        BY <3>3, TenantsTyped
      <4>2. Fields(v, m, p, x.queue, x.active, x.deficit, x.recent) \in TenantState
        BY <4>1, TypesOfFields, FieldsTyped
      <4> QED
        BY <3>3, <4>2, BecomesTyped
    <3>4. CASE UpdateTenant(t) \/ SuspendTenant(t) \/ ResumeTenant(t)
      <4>1. t \in DOMAIN tenants
        BY <3>4 DEF UpdateTenant, SuspendTenant, ResumeTenant
      <4>2. PICK x : x = tenants[t]
        OBVIOUS
      <4>3. x \in TenantState
        BY <4>1, <4>2, TenantsTyped
      <4>4. \E v \in Statuses, m \in Limits, p \in Priorities :
              Becomes(t, Fields(v, m, p, x.queue, x.active, x.deficit, x.recent))
        <5>1. /\ x.status \in Statuses /\ x.max \in Limits /\ x.priority \in Priorities
              /\ "Active" \in Statuses /\ "Suspended" \in Statuses
          BY <4>3, TypesOfFields DEF Statuses
        <5> QED
          BY <3>4, <4>2, <4>3, <5>1, AdminBecomes
      <4> QED
        BY <3>3, <4>1, <4>2, <4>4
    <3> QED
      BY <1>2, <3>1, <3>2, <3>4 DEF Admin
  <2> QED
    BY <2>1, <2>2 DEF Typed
<1>3. ASSUME NEW s \in Submitter, NEW t \in Tenant, SubmitQueue(s, t) PROVE Typed'
  <2>1. t \in DOMAIN tenants
    BY <1>3 DEF SubmitQueue
  <2>2. PICK x : x = tenants[t]
    OBVIOUS
  <2>3. x \in TenantState
    BY <2>1, <2>2, TenantsTyped
  <2>4. PICK n \in 0 .. RateLimit + 2 :
          \/ /\ Becomes(t, Fields(x.status, x.max, x.priority, x.queue, x.active, x.deficit, n))
             /\ UNCHANGED << issued, ticket, lockT, pc >>
          \/ /\ Becomes(t, Fields(x.status, x.max, x.priority, Append(x.queue, issued + 1),
                                  x.active, x.deficit, n))
             /\ issued < MaxTickets /\ issued' = issued + 1
             /\ ticket' = [ticket EXCEPT ![s] = issued + 1]
             /\ lockT' = s
             /\ pc' = [pc EXCEPT ![s] = "insert"]
    BY <1>3, <2>2, <2>3, SubmitBecomes
  <2>5. UNCHANGED << drr, items, lockI, avail, pass, ready, suspended >>
    BY <1>3 DEF SubmitQueue
  <2>6. CASE /\ Becomes(t, Fields(x.status, x.max, x.priority, x.queue, x.active, x.deficit, n))
             /\ UNCHANGED << issued, ticket, lockT, pc >>
    <3>1. Fields(x.status, x.max, x.priority, x.queue, x.active, x.deficit, n) \in TenantState
      BY <2>3, TypesOfFields, FieldsTyped
    <3>2. /\ DOMAIN tenants' \subseteq Tenant
          /\ \A u \in DOMAIN tenants' : tenants'[u] \in TenantState
      BY <2>6, <3>1, BecomesTyped
    <3> QED
      BY <2>5, <2>6, <3>2 DEF Typed
  <2>7. CASE /\ Becomes(t, Fields(x.status, x.max, x.priority, Append(x.queue, issued + 1),
                                  x.active, x.deficit, n))
             /\ issued < MaxTickets /\ issued' = issued + 1
             /\ ticket' = [ticket EXCEPT ![s] = issued + 1]
             /\ lockT' = s
             /\ pc' = [pc EXCEPT ![s] = "insert"]
    <3>1. issued + 1 \in Tickets /\ issued' \in 0 .. MaxTickets /\ issued + 1 \in 0 .. MaxTickets
      BY <2>7, OrchestratorAssumption DEF Typed, Tickets
    <3> DEFINE q == Append(x.queue, issued + 1)
    <3>2. q \in Seq(Tickets)
      BY <2>3, <3>1, TypesOfFields
    <3> HIDE DEF q
    <3>3. Fields(x.status, x.max, x.priority, q, x.active, x.deficit, n) \in TenantState
      BY <2>3, <3>2, TypesOfFields, FieldsTyped
    <3>4. Becomes(t, Fields(x.status, x.max, x.priority, q, x.active, x.deficit, n))
      BY <2>7 DEF q
    <3>5. /\ DOMAIN tenants' \subseteq Tenant
          /\ \A u \in DOMAIN tenants' : tenants'[u] \in TenantState
      BY <3>3, <3>4, BecomesTyped
    <3>6. ticket' \in [Submitter \union Runner -> 0 .. MaxTickets] /\ pc' \in [Thread -> PCs]
      BY <1>0, <2>7, <3>1 DEF Typed, PCs
    <3>7. lockT' \in Thread \union {None}
      BY <1>0, <2>7
    <3> QED
      BY <2>5, <3>1, <3>5, <3>6, <3>7 DEF Typed
  <2> QED
    BY <2>4, <2>6, <2>7
<1>4. ASSUME NEW s \in Submitter, SubmitInsert(s) PROVE Typed'
  <2>1. /\ pc[s] = "insert" /\ lockT' = None
        /\ ticket' = [ticket EXCEPT ![s] = 0] /\ pc' = [pc EXCEPT ![s] = "idle"]
        /\ UNCHANGED << drr, tenants, lockI, avail, pass, issued, ready, suspended >>
        /\ items' = [k \in DOMAIN items \union {ticket[s]} |->
             IF k = ticket[s] THEN [tenant |-> QueuedBy(k), state |-> "Queued"] ELSE items[k]]
    BY <1>4 DEF SubmitInsert, ghosts
  <2>2. ticket[s] \in Tickets /\ \E t \in DOMAIN tenants : Queued(ticket[s], t)
    BY <1>0, <2>1, OrchestratorAssumption DEF Queues, Typed, Tickets
  <2>3. QueuedBy(ticket[s]) \in DOMAIN tenants
    BY <2>2 DEF QueuedBy, Queued
  <2>4. DOMAIN items' \subseteq Tickets /\ \A k \in DOMAIN items' : items'[k] \in ItemState
    BY <2>1, <2>2, <2>3 DEF Typed, ItemState
  <2>5. ticket' \in [Submitter \union Runner -> 0 .. MaxTickets] /\ pc' \in [Thread -> PCs]
    BY <1>0, <2>1, OrchestratorAssumption DEF Typed, PCs
  <2> QED
    BY <2>1, <2>4, <2>5 DEF Typed
<1>5. ASSUME NEW c \in Scheduler, ScheduleLoad(c) \/ ScheduleLock(c) PROVE Typed'
  <2>1. /\ UNCHANGED << drr, tenants, items, running, lockI, ticket, pass, issued, ready, suspended >>
        /\ pc' = [pc EXCEPT ![c] = "tenants"] \/ pc' = [pc EXCEPT ![c] = "items"]
        /\ lockT' \in {lockT, c}
        /\ \/ avail' = avail
           \/ avail' = [avail EXCEPT ![c] = MaxGlobal - running] /\ running < MaxGlobal
    BY <1>5 DEF ScheduleLoad, ScheduleLock, locals, ghosts
  <2>2. running \in Nat /\ MaxGlobal \in Nat
    BY ActiveFinite, OrchestratorAssumption DEF Counted
  <2>3. avail' \in [Scheduler -> 0 .. MaxGlobal]
    <3>1. running < MaxGlobal => MaxGlobal - running \in 0 .. MaxGlobal
      BY <2>2
    <3> QED
      BY <2>1, <3>1 DEF Typed
  <2>4. pc' \in [Thread -> PCs] /\ lockT' \in Thread \union {None}
    BY <1>0, <2>1 DEF Typed, PCs
  <2> QED
    BY <2>1, <2>3, <2>4 DEF Typed
<1>6. ASSUME NEW c \in Scheduler, ScheduleCredit(c) PROVE Typed'
  <2>1. UNCHANGED << drr, items, ticket, issued, ready, suspended >>
    BY <1>6 DEF ScheduleCredit, ghosts
  <2>2. CASE drr /\ TotalPriority = 0
    <3>1. /\ lockT' = None /\ avail' = [avail EXCEPT ![c] = 0] /\ pc' = [pc EXCEPT ![c] = "idle"]
          /\ UNCHANGED << tenants, lockI, pass >>
      BY <1>6, <2>2 DEF ScheduleCredit
    <3>2. pc' \in [Thread -> PCs] /\ avail' \in [Scheduler -> 0 .. MaxGlobal]
      BY <1>0, <3>1, OrchestratorAssumption DEF Typed, PCs
    <3> QED
      BY <2>1, <3>1, <3>2 DEF Typed
  <2>3. CASE ~(drr /\ TotalPriority = 0)
    <3>1. /\ lockI' = c
          /\ tenants' = [t \in DOMAIN tenants |->
               [tenants[t] EXCEPT !.deficit = @ + Credit(c, t)]]
          /\ pass' = [NoPass EXCEPT !.todo = DOMAIN tenants]
          /\ pc' = [pc EXCEPT ![c] = "pick"]
          /\ UNCHANGED << lockT, avail >>
      BY <1>6, <2>3 DEF ScheduleCredit
    <3>2. /\ DOMAIN tenants' = DOMAIN tenants
          /\ \A t \in DOMAIN tenants : tenants'[t] \in TenantState
      BY <2>3, <3>1, CreditBecomes
    <3>3. pass' = PassOf(DOMAIN tenants, None, 0, 0, {})
      BY <3>1, CreditPass
    <3>4. pass' \in Pass
      BY <3>3, PassIs DEF Typed
    <3>5. pc' \in [Thread -> PCs] /\ lockI' \in Thread \union {None}
      BY <1>0, <3>1 DEF Typed, PCs
    <3> QED
      BY <2>1, <3>1, <3>2, <3>4, <3>5 DEF Typed
  <2> QED
    BY <2>2, <2>3
<1>7. ASSUME NEW c \in Scheduler, SchedulePick(c) PROVE Typed'
  <2>1. /\ c \in Thread /\ pass.count < avail[c]
        /\ UNCHANGED << drr, items, lockT, lockI, ticket, avail, issued, ready, suspended >>
    BY <1>7, PickEffect DEF ghosts
  <2>2. PICK t \in pass.todo :
          /\ t \in DOMAIN tenants
          /\ \/ /\ Becomes(t, Fields(tenants[t].status, tenants[t].max, tenants[t].priority,
                     tenants[t].queue, tenants[t].active, Spent(t), tenants[t].recent))
                /\ pass' = PassOf(pass.todo \ {t}, t, Slots(c, t), pass.count, pass.ready)
                /\ pc' = [pc EXCEPT ![c] = "take"]
             \/ /\ pass' = PassOf(pass.todo \ {t}, pass.cur, pass.slots, pass.count, pass.ready)
                /\ UNCHANGED << tenants, pc >>
    BY <1>7, PickEffect
  <2>3. /\ pass.todo \ {t} \in SUBSET Tenant /\ t \in Tenant /\ pass.cur \in Tenant \union {None}
        /\ Slots(c, t) \in Nat /\ pass.slots \in Nat /\ pass.count \in Nat
        /\ pass.ready \in SUBSET Tickets
    BY <1>0, <2>1, <2>2, PassTypes, SlotsIs DEF Typed
  <2>4. pass' \in Pass
    BY <2>2, <2>3, PassIs
  <2>5. pc' \in [Thread -> PCs]
    BY <2>1, <2>2 DEF Typed, PCs
  <2>6. /\ DOMAIN tenants' \subseteq Tenant
        /\ \A u \in DOMAIN tenants' : tenants'[u] \in TenantState
    <3>1. PICK x : x = tenants[t]
      OBVIOUS
    <3>2. x \in TenantState /\ Spent(t) \in Nat
      BY <2>2, <3>1, TenantsTyped, SpentIs
    <3>3. Fields(x.status, x.max, x.priority, x.queue, x.active, Spent(t), x.recent) \in TenantState
      BY <3>2, TypesOfFields, FieldsTyped
    <3>4. \/ Becomes(t, Fields(x.status, x.max, x.priority, x.queue, x.active, Spent(t), x.recent))
          \/ tenants' = tenants
      BY <2>2, <3>1
    <3>5. CASE tenants' = tenants
      BY <3>5 DEF Typed
    <3> QED
      BY <3>3, <3>4, <3>5, BecomesTyped
  <2> QED
    BY <2>1, <2>4, <2>5, <2>6 DEF Typed
<1>8. ASSUME NEW c \in Scheduler, ScheduleTake(c) PROVE Typed'
  <2>1. PICK t, x, k : t = pass.cur /\ x = tenants[t] /\ k = Head(x.queue)
    OBVIOUS
  <2>2. /\ c \in Thread /\ t \in DOMAIN tenants /\ x \in TenantState
        /\ UNCHANGED << drr, lockT, lockI, ticket, avail, issued, ready, suspended >>
        /\ Taken(t, x, k) \/ TurnEnds(c)
    BY <1>8, <2>1, TakeEffect DEF ghosts
  <2>3. /\ pass.todo \in SUBSET Tenant /\ pass.cur \in Tenant \union {None}
        /\ pass.slots \in Nat /\ pass.count \in Nat /\ pass.ready \in SUBSET Tickets
    BY <1>0, PassTypes
  <2>4. CASE Taken(t, x, k)
    <3>1. x.queue \in Seq(Tickets) /\ x.queue # << >>
      BY <2>2, <2>4, TypesOfFields DEF Taken
    <3>2. k \in Tickets /\ Tail(x.queue) \in Seq(Tickets)
      BY <2>1, <3>1
    <3>3. x.active \union {k} \in SUBSET Tickets
      BY <2>2, <3>2, TypesOfFields
    <3> DEFINE q == Tail(x.queue)
               a == x.active \union {k}
    <3>4. q \in Seq(Tickets) /\ a \in SUBSET Tickets
      BY <3>2, <3>3
    <3>5. Becomes(t, Fields(x.status, x.max, x.priority, q, a, x.deficit, x.recent))
      BY <2>4 DEF Taken
    <3> HIDE DEF q, a
    <3>6. Fields(x.status, x.max, x.priority, q, a, x.deficit, x.recent) \in TenantState
      BY <2>2, <3>4, TypesOfFields, FieldsTyped
    <3>7. /\ DOMAIN tenants' \subseteq Tenant
          /\ \A u \in DOMAIN tenants' : tenants'[u] \in TenantState
      BY <3>5, <3>6, BecomesTyped
    <3>8. DOMAIN items' \subseteq Tickets /\ \A j \in DOMAIN items' : items'[j] \in ItemState
      BY <2>4, ItemsTyped DEF Taken
    <3>9. pass' \in Pass
      <4>1. pass.slots - 1 \in Nat /\ pass.count + 1 \in Nat /\ pass.ready \union {k} \in SUBSET Tickets
        BY <2>3, <2>4, <3>2 DEF Taken
      <4>2. pass' = PassOf(pass.todo, pass.cur, pass.slots - 1, pass.count + 1, pass.ready \union {k})
        BY <2>4 DEF Taken
      <4> QED
        BY <2>3, <4>1, <4>2, PassIs
    <3>10. pc' = pc
      BY <2>4 DEF Taken
    <3> QED
      BY <2>2, <3>7, <3>8, <3>9, <3>10 DEF Typed
  <2>5. CASE TurnEnds(c)
    <3>1. pass' \in Pass
      BY <2>3, <2>5, PassIs DEF TurnEnds
    <3>2. pc' \in [Thread -> PCs] /\ UNCHANGED << tenants, items >>
      BY <2>2, <2>5 DEF TurnEnds, Typed, PCs
    <3> QED
      BY <2>2, <3>1, <3>2 DEF Typed
  <2> QED
    BY <2>2, <2>4, <2>5
<1>9. ASSUME NEW c \in Scheduler, ScheduleReturn(c) PROVE Typed'
  <2>1. /\ lockT' = None /\ lockI' = None /\ ready' = ready \union pass.ready /\ pass' = NoPass
        /\ avail' = [avail EXCEPT ![c] = 0] /\ pc' = [pc EXCEPT ![c] = "idle"]
        /\ UNCHANGED << drr, tenants, items, ticket, issued, suspended >>
    BY <1>9 DEF ScheduleReturn
  <2>2. pass' \in Pass
    BY <2>1 DEF NoPass, Pass
  <2>3. pc' \in [Thread -> PCs] /\ avail' \in [Scheduler -> 0 .. MaxGlobal]
    BY <1>0, <2>1, OrchestratorAssumption DEF Typed, PCs
  <2>4. ready' \in SUBSET Tickets
    BY <1>0, <2>1, PassTypes DEF Typed
  <2> QED
    BY <2>1, <2>2, <2>3, <2>4 DEF Typed
<1>10. ASSUME NEW r \in Runner, NEW k \in Tickets, CompleteLock(r, k) PROVE Typed'
  <2>1. /\ ready' = ready \ {k} /\ lockI' = r /\ ticket' = [ticket EXCEPT ![r] = k]
        /\ pc' = [pc EXCEPT ![r] = "retain"]
        /\ UNCHANGED << drr, tenants, items, lockT, avail, pass, issued, suspended >>
    BY <1>10 DEF CompleteLock
  <2>2. pc' \in [Thread -> PCs] /\ lockI' \in Thread \union {None}
    BY <1>0, <2>1 DEF Typed, PCs
  <2>3. ticket' \in [Submitter \union Runner -> 0 .. MaxTickets]
    BY <2>1, OrchestratorAssumption DEF Typed, Tickets
  <2> QED
    BY <2>1, <2>2, <2>3 DEF Typed
<1>11. ASSUME NEW r \in Runner, CompleteRetain(r) PROVE Typed'
  <2>1. PICK k, t : k = ticket[r] /\ t = items[k].tenant
    OBVIOUS
  <2>2. /\ items' = [items EXCEPT ![k].state = "Done"]
        /\ tenants' = IF t \in DOMAIN tenants
                      THEN [tenants EXCEPT ![t].active = @ \ {k}] ELSE tenants
        /\ lockI' = None /\ ticket' = [ticket EXCEPT ![r] = 0] /\ pc' = [pc EXCEPT ![r] = "idle"]
        /\ UNCHANGED << drr, lockT, avail, pass, issued, ready, suspended >>
    BY <1>11, <2>1 DEF CompleteRetain, ghosts
  <2>3. DOMAIN items' \subseteq Tickets /\ \A j \in DOMAIN items' : items'[j] \in ItemState
    <3>1. /\ DOMAIN items' = DOMAIN items
          /\ \A j \in DOMAIN items :
               items'[j] = IF j = k THEN [items[j] EXCEPT !.state = "Done"] ELSE items[j]
      BY <2>2
    <3> QED
      BY <3>1, ItemsTyped
  <2>4. /\ DOMAIN tenants' \subseteq Tenant
        /\ \A u \in DOMAIN tenants' : tenants'[u] \in TenantState
    <3>1. CASE t \in DOMAIN tenants
      <4>1. PICK x : x = tenants[t]
        OBVIOUS
      <4>2. x \in TenantState
        BY <3>1, <4>1, TenantsTyped
      <4> DEFINE a == x.active \ {k}
      <4>3. a \in SUBSET Tickets
        BY <4>2, TypesOfFields
      <4>4. Becomes(t, Fields(x.status, x.max, x.priority, x.queue, a, x.deficit, x.recent))
        BY <2>2, <3>1, <4>1, <4>2, RetainBecomes
      <4> HIDE DEF a
      <4>5. Fields(x.status, x.max, x.priority, x.queue, a, x.deficit, x.recent) \in TenantState
        BY <4>2, <4>3, TypesOfFields, FieldsTyped
      <4> QED
        BY <4>4, <4>5, BecomesTyped
    <3>2. CASE t \notin DOMAIN tenants
      BY <2>2, <3>2 DEF Typed
    <3> QED
      BY <3>1, <3>2
  <2>5. pc' \in [Thread -> PCs]
    BY <1>0, <2>2 DEF Typed, PCs
  <2>6. ticket' \in [Submitter \union Runner -> 0 .. MaxTickets]
    BY <2>2, OrchestratorAssumption DEF Typed
  <2> QED
    BY <2>2, <2>3, <2>4, <2>5, <2>6 DEF Typed
<1> QED
  BY <1>1, <1>2, <1>3, <1>4, <1>5, <1>6, <1>7, <1>8, <1>9, <1>10, <1>11 DEF Next, Step

-----------------------------------------------------------------------------
(* Tickets *)

Books == Once /\ Queues /\ Actives /\ Counted

\* A step that leaves queues, active sets, items and submissions alone.
SameTickets ==
  /\ DOMAIN tenants' = DOMAIN tenants
  /\ \A u \in DOMAIN tenants :
       tenants'[u].queue = tenants[u].queue /\ tenants'[u].active = tenants[u].active
  /\ UNCHANGED << items, issued, running >>
  /\ \A s \in Thread : /\ pc'[s] = "insert" <=> pc[s] = "insert"
                       /\ pc[s] = "insert" => ticket'[s] = ticket[s]

LEMMA SameBooks ==
  ASSUME Books, SameTickets
  PROVE  Books'
<1> USE DEF SameTickets
<1>1. \A u \in DOMAIN tenants : \A k : Queued(k, u)' <=> Queued(k, u)
  BY DEF Queued
<1>2. \A k : Arriving(k)' <=> Arriving(k)
  BY DEF Arriving
<1>3. Once'
  BY DEF Books, Once
<1>4. Queues'
  BY <1>1, <1>2 DEF Books, Queues
<1>5. Actives'
  BY DEF Books, Actives
<1>6. Active' = Active
  BY DEF Active
<1>7. Counted'
  BY <1>6 DEF Books, Counted
<1> QED
  BY <1>3, <1>4, <1>5, <1>7 DEF Books

LEMMA Elements ==
  ASSUME Typed, Queues, NEW u \in DOMAIN tenants, NEW i \in 1 .. Len(tenants[u].queue)
  PROVE  /\ tenants[u].queue[i] \in Tickets /\ tenants[u].queue[i] <= issued
         /\ Queued(tenants[u].queue[i], u)
<1>1. tenants[u].queue \in Seq(Tickets)
  BY TenantsTyped, TypesOfFields
<1>2. tenants[u].queue[i] \in Tickets
  BY <1>1
<1>3. Queued(tenants[u].queue[i], u)
  BY DEF Queued
<1> QED
  BY <1>2, <1>3 DEF Queues

\* The queue a ticket is in is the only one.
LEMMA OneQueue ==
  ASSUME Once, NEW t \in DOMAIN tenants, NEW u \in DOMAIN tenants, NEW k,
         Queued(k, t), Queued(k, u)
  PROVE  t = u
BY DEF Once, Queued

LEMMA ActiveIs ==
  ASSUME Typed, Actives, NEW k
  PROVE  k \in Active <=> IsRunning(k)
<1>1. k \in Active <=> \E t \in DOMAIN tenants : k \in tenants[t].active
  BY DEF Active
<1>2. \A t \in DOMAIN tenants : tenants[t].active \in SUBSET Tickets
  BY TenantsTyped, TypesOfFields
<1>3. DOMAIN items \subseteq Tickets
  BY DEF Typed
<1> QED
  BY <1>1, <1>2, <1>3 DEF Actives, IsRunning

LEMMA RegisterBooks ==
  ASSUME Typed, Books, NEW t \in Tenant, RegisterTenant(t)
  PROVE  Books'
<1>1. /\ t \notin DOMAIN tenants /\ DOMAIN tenants' = DOMAIN tenants \union {t}
      /\ \A u \in DOMAIN tenants : tenants'[u] = tenants[u]
  BY RegisterAdds
<1>2. tenants'[t].queue = << >> /\ tenants'[t].active = {}
  <2>1. PICK m, p : tenants'[t] = Fields("Active", m, p, << >>, {}, 0, 0)
    BY RegisterAdds
  <2> QED
    BY <2>1 DEF Fields
<1>3. UNCHANGED << items, running, pc, ticket, issued >>
  BY DEF RegisterTenant, WithTenants, locals
<1>4. Len(tenants'[t].queue) = 0
  BY <1>2
<1>5. /\ \A u \in DOMAIN tenants : \A k : Queued(k, u)' <=> Queued(k, u)
      /\ \A k : ~Queued(k, t)'
  BY <1>1, <1>4 DEF Queued
<1>6. \A k : Arriving(k)' <=> Arriving(k)
  BY <1>3 DEF Arriving
<1>7. Once'
  BY <1>1, <1>4 DEF Books, Once
<1>8. Queues'
  BY <1>1, <1>3, <1>5, <1>6 DEF Books, Queues
<1>9. Actives'
  BY <1>1, <1>2, <1>3 DEF Books, Actives
<1>10. Active' = Active
  BY <1>1, <1>2 DEF Active
<1>11. Counted'
  BY <1>3, <1>10 DEF Books, Counted
<1> QED
  BY <1>7, <1>8, <1>9, <1>11 DEF Books

LEMMA RemoveBooks ==
  ASSUME Typed, Books, NEW t \in Tenant, RemoveTenant(t)
  PROVE  Books'
<1>1. /\ t \in DOMAIN tenants /\ DOMAIN tenants' = DOMAIN tenants \ {t}
      /\ \A u \in DOMAIN tenants' : tenants'[u] = tenants[u]
      /\ tenants[t].queue = << >> /\ tenants[t].active = {}
  BY RemoveTakes
<1>2. UNCHANGED << items, running, pc, ticket, issued >>
  BY DEF RemoveTenant, WithTenants, locals
<1>3. Len(tenants[t].queue) = 0
  BY <1>1
<1>4. /\ \A u \in DOMAIN tenants' : \A k : Queued(k, u)' <=> Queued(k, u)
      /\ \A k : ~Queued(k, t)
  BY <1>1, <1>3 DEF Queued
<1>5. \A k : Arriving(k)' <=> Arriving(k)
  BY <1>2 DEF Arriving
<1>6. Once'
  BY <1>1 DEF Books, Once
<1>7. Queues'
  BY <1>1, <1>2, <1>4, <1>5 DEF Books, Queues
<1>8. \A k \in DOMAIN items : items[k].state = "Running" => items[k].tenant # t
  BY <1>1 DEF Books, Actives, Typed
<1>9. Actives'
  BY <1>1, <1>2, <1>8 DEF Books, Actives
<1>10. Active' = Active
  BY <1>1 DEF Active
<1>11. Counted'
  BY <1>2, <1>10 DEF Books, Counted
<1> QED
  BY <1>6, <1>7, <1>9, <1>11 DEF Books

LEMMA AppendIs ==
  ASSUME NEW q \in Seq(Tickets), NEW k
  PROVE  /\ Len(Append(q, k)) = Len(q) + 1 /\ Append(q, k)[Len(q) + 1] = k
         /\ \A i \in 1 .. Len(q) : Append(q, k)[i] = q[i]
OBVIOUS

LEMMA TailIs ==
  ASSUME NEW q \in Seq(Tickets), q # << >>
  PROVE  /\ Len(q) \in Nat /\ Len(q) >= 1 /\ Head(q) = q[1] /\ Len(Tail(q)) = Len(q) - 1
         /\ \A i \in 1 .. Len(q) - 1 : Tail(q)[i] = q[i + 1]
OBVIOUS

\* Nobody is between queueing and items when tenants is free or held by another.
LEMMA NobodyArrives ==
  ASSUME Locks, lockT = None \/ \E u \in Thread : lockT = u /\ pc[u] # "insert"
  PROVE  \A u \in Thread : pc[u] # "insert"
BY OrchestratorAssumption DEF Locks

LEMMA SubmitBooks ==
  ASSUME Typed, Locks, Books, NEW s \in Submitter, NEW t \in Tenant, SubmitQueue(s, t)
  PROVE  Books'
<1>0. s \in Thread /\ pc[s] = "idle" /\ lockT = None /\ t \in DOMAIN tenants
  BY DEF SubmitQueue, Thread
<1>1. PICK x : x = tenants[t]
  OBVIOUS
<1>2. x \in TenantState /\ x.queue \in Seq(Tickets) /\ Len(x.queue) \in Nat
  <2>1. x \in TenantState
    BY <1>0, <1>1, TenantsTyped
  <2>2. x.queue \in Seq(Tickets)
    BY <2>1, TypesOfFields
  <2> QED
    BY <2>1, <2>2
<1>3. PICK n \in 0 .. RateLimit + 2 :
        \/ /\ Becomes(t, Fields(x.status, x.max, x.priority, x.queue, x.active, x.deficit, n))
           /\ UNCHANGED << issued, ticket, lockT, pc >>
        \/ /\ Becomes(t, Fields(x.status, x.max, x.priority, Append(x.queue, issued + 1),
                                x.active, x.deficit, n))
           /\ issued < MaxTickets /\ issued' = issued + 1
           /\ ticket' = [ticket EXCEPT ![s] = issued + 1]
           /\ lockT' = s
           /\ pc' = [pc EXCEPT ![s] = "insert"]
  BY <1>1, <1>2, SubmitBecomes
<1>4. UNCHANGED << items, running >>
  BY DEF SubmitQueue
<1>5. CASE /\ Becomes(t, Fields(x.status, x.max, x.priority, x.queue, x.active, x.deficit, n))
           /\ UNCHANGED << issued, ticket, lockT, pc >>
  <2>1. PICK y : y = Fields(x.status, x.max, x.priority, x.queue, x.active, x.deficit, n)
    OBVIOUS
  <2>2. y.queue = x.queue /\ y.active = x.active
    BY <2>1, FieldsAre
  <2>3. Becomes(t, y)
    BY <1>5, <2>1
  <2>4. SameTickets
    BY <1>1, <1>4, <1>5, <2>2, <2>3, BecomesIs DEF SameTickets
  <2> QED
    BY <2>4, SameBooks
<1>6. CASE /\ Becomes(t, Fields(x.status, x.max, x.priority, Append(x.queue, issued + 1),
                                x.active, x.deficit, n))
           /\ issued < MaxTickets /\ issued' = issued + 1
           /\ ticket' = [ticket EXCEPT ![s] = issued + 1]
           /\ lockT' = s
           /\ pc' = [pc EXCEPT ![s] = "insert"]
  <2>0. PICK k : k = issued + 1
    OBVIOUS
  <2>1. issued \in Nat /\ k \in Tickets /\ k \in Nat /\ issued < k /\ issued' = k
    BY <1>6, <2>0, OrchestratorAssumption DEF Typed, Tickets
  <2>2. PICK y, q : /\ q = Append(x.queue, k)
                    /\ y = Fields(x.status, x.max, x.priority, q, x.active, x.deficit, n)
    OBVIOUS
  <2>3. Becomes(t, y)
    BY <1>6, <2>0, <2>2
  <2>4. y.queue = q /\ y.active = x.active
    BY <2>2 DEF Fields
  <2>5. /\ DOMAIN tenants' = DOMAIN tenants /\ tenants'[t] = y
        /\ \A u \in DOMAIN tenants : u # t => tenants'[u] = tenants[u]
    BY <2>3, BecomesIs
  <2>6. /\ Len(q) = Len(x.queue) + 1 /\ q[Len(x.queue) + 1] = k
        /\ \A i \in 1 .. Len(x.queue) : q[i] = x.queue[i]
    BY <1>2, <2>2, AppendIs
  <2>7. \A u \in DOMAIN tenants : \A j : Queued(j, u)' <=> Queued(j, u) \/ (u = t /\ j = k)
    <3>1. ASSUME NEW j PROVE Queued(j, t)' <=> Queued(j, t) \/ j = k
      <4>1. Queued(j, t)' <=> \E i \in 1 .. Len(q) : q[i] = j
        BY <2>4, <2>5 DEF Queued
      <4>2. Queued(j, t) <=> \E i \in 1 .. Len(x.queue) : x.queue[i] = j
        BY <1>1 DEF Queued
      <4>3. (\E i \in 1 .. Len(q) : q[i] = j) <=>
              (\E i \in 1 .. Len(x.queue) : x.queue[i] = j) \/ j = k
        BY <1>2, <2>6
      <4> QED
        BY <4>1, <4>2, <4>3
    <3>2. ASSUME NEW u \in DOMAIN tenants, u # t, NEW j PROVE Queued(j, u)' <=> Queued(j, u)
      BY <2>5, <3>2 DEF Queued
    <3> QED
      BY <3>1, <3>2
  <2>8. \A u \in Thread : pc[u] # "insert"
    BY <1>0, NobodyArrives
  <2>9. /\ pc'[s] = "insert" /\ \A u \in Thread : u # s => pc'[u] # "insert"
        /\ ticket'[s] = k
    BY <1>0, <1>6, <2>0, <2>8 DEF Typed
  <2>10. Queues'
    <3>1. (DOMAIN items \subseteq 1 .. issued)'
      <4>1. DOMAIN items \subseteq 1 .. issued
        BY DEF Books, Queues
      <4> QED
        BY <1>4, <2>1, <4>1
    <3>2. ASSUME NEW u \in DOMAIN tenants, NEW j \in Tickets, Queued(j, u)'
          PROVE  /\ j <= issued'
                 /\ j \in DOMAIN items => items[j].state = "Queued" /\ items[j].tenant = u
                 /\ j \notin DOMAIN items => Arriving(j)'
      <4>1. CASE Queued(j, u)
        <5>1. /\ j <= issued
              /\ j \in DOMAIN items => items[j].state = "Queued" /\ items[j].tenant = u
              /\ j \notin DOMAIN items => Arriving(j)
          BY <4>1 DEF Books, Queues
        <5>2. j \in DOMAIN items
          BY <2>8, <5>1 DEF Arriving
        <5> QED
          BY <2>1, <5>1, <5>2 DEF Tickets
      <4>2. CASE u = t /\ j = k
        <5>1. j \notin DOMAIN items
          BY <2>1, <4>2 DEF Books, Queues
        <5>2. Arriving(j)'
          BY <1>0, <2>9, <4>2 DEF Arriving
        <5> QED
          BY <2>1, <4>2, <5>1, <5>2
      <4> QED
        BY <2>7, <3>2, <4>1, <4>2
    <3>3. ASSUME NEW j \in DOMAIN items, items[j].state = "Queued"
          PROVE  items[j].tenant \in DOMAIN tenants /\ Queued(j, items[j].tenant)'
      <4>1. PICK u : u = items[j].tenant
        OBVIOUS
      <4>2. u \in DOMAIN tenants /\ Queued(j, u)
        BY <3>3, <4>1 DEF Books, Queues
      <4>3. Queued(j, u)'
        BY <2>7, <4>2
      <4> QED
        BY <1>4, <4>1, <4>2, <4>3 DEF Queued
    <3>4. k \in (1 .. issued') \ DOMAIN items /\ Queued(k, t)'
      BY <1>0, <2>1, <2>7 DEF Books, Queues
    <3>5. \A u \in Thread : pc'[u] = "insert" =>
            /\ ticket'[u] \in (1 .. issued') \ DOMAIN items
            /\ \E w \in DOMAIN tenants : Queued(ticket[u], w)'
      BY <1>0, <2>9, <3>4
    <3> QED
      BY <1>4, <2>5, <3>1, <3>2, <3>3, <3>5 DEF Queues
  <2>11. Once'
    <3>1. \A u \in DOMAIN tenants : \A i \in 1 .. Len(tenants[u].queue) :
            tenants[u].queue[i] # k
      BY <2>1, Elements DEF Books, Tickets
    <3>2. ASSUME NEW u \in DOMAIN tenants, NEW i \in 1 .. Len(tenants'[u].queue)
          PROVE  \/ u = t /\ i = Len(x.queue) + 1 /\ tenants'[u].queue[i] = k
                 \/ i \in 1 .. Len(tenants[u].queue) /\ tenants'[u].queue[i] = tenants[u].queue[i]
      <4>1. CASE u = t
        BY <1>1, <1>2, <2>4, <2>5, <2>6, <4>1
      <4>2. CASE u # t
        BY <2>5, <4>2
      <4> QED
        BY <4>1, <4>2
    <3>3. ASSUME NEW u \in DOMAIN tenants, NEW i \in 1 .. Len(tenants'[u].queue),
                 NEW w \in DOMAIN tenants, NEW j \in 1 .. Len(tenants'[w].queue),
                 tenants'[u].queue[i] = tenants'[w].queue[j]
          PROVE  u = w /\ i = j
      <4>1. \/ u = t /\ i = Len(x.queue) + 1 /\ tenants'[u].queue[i] = k
            \/ i \in 1 .. Len(tenants[u].queue) /\ tenants'[u].queue[i] = tenants[u].queue[i]
        BY <3>2
      <4>2. \/ w = t /\ j = Len(x.queue) + 1 /\ tenants'[w].queue[j] = k
            \/ j \in 1 .. Len(tenants[w].queue) /\ tenants'[w].queue[j] = tenants[w].queue[j]
        BY <3>2
      <4>3. CASE tenants'[u].queue[i] = k
        BY <3>1, <3>3, <4>1, <4>2, <4>3
      <4>4. CASE tenants'[u].queue[i] # k
        BY <3>3, <4>1, <4>2, <4>4 DEF Books, Once
      <4> QED
        BY <4>3, <4>4
    <3> QED
      BY <2>5, <3>3 DEF Once
  <2>12. \A u \in DOMAIN tenants : tenants'[u].active = tenants[u].active
    BY <1>1, <2>4, <2>5
  <2>13. Actives'
    BY <1>4, <2>5, <2>12 DEF Books, Actives
  <2>14. Active' = Active
    BY <2>5, <2>12 DEF Active
  <2> QED
    BY <1>4, <2>10, <2>11, <2>13, <2>14 DEF Books, Counted
<1> QED
  BY <1>3, <1>5, <1>6

LEMMA InsertBooks ==
  ASSUME Typed, Locks, Books, NEW s \in Submitter, SubmitInsert(s)
  PROVE  Books'
<1>0. s \in Thread /\ pc[s] = "insert"
  BY DEF SubmitInsert, Thread
<1>1. PICK k : k = ticket[s]
  OBVIOUS
<1>2. PICK t : t = QueuedBy(k)
  OBVIOUS
<1>3. /\ items' = [j \in DOMAIN items \union {k} |->
           IF j = k THEN [tenant |-> t, state |-> "Queued"] ELSE items[j]]
      /\ pc' = [pc EXCEPT ![s] = "idle"]
      /\ UNCHANGED << tenants, running, issued >>
  BY <1>1, <1>2 DEF SubmitInsert, Goto, ghosts
<1>4. k \in (1 .. issued) \ DOMAIN items /\ \E u \in DOMAIN tenants : Queued(k, u)
  BY <1>0, <1>1 DEF Books, Queues
<1>5. t \in DOMAIN tenants /\ Queued(k, t)
  BY <1>2, <1>4 DEF QueuedBy, Queued
<1>6. \A u \in Thread : u # s => pc[u] # "insert"
  BY <1>0 DEF Locks
<1>7. \A u \in Thread : pc'[u] # "insert"
  BY <1>0, <1>3, <1>6 DEF Typed
<1>8. \A j : Arriving(j) => j = k
  BY <1>1, <1>6 DEF Arriving
<1>9. \A u \in DOMAIN tenants : \A j : Queued(j, u)' <=> Queued(j, u)
  BY <1>3 DEF Queued
<1>10. /\ DOMAIN items' = DOMAIN items \union {k}
       /\ items'[k].tenant = t /\ items'[k].state = "Queued"
       /\ \A j \in DOMAIN items : items'[j] = items[j]
  BY <1>3, <1>4
<1>11. Once'
  BY <1>3 DEF Books, Once
<1>12. Queues'
  <2>1. (DOMAIN items \subseteq 1 .. issued)'
    BY <1>3, <1>4, <1>10 DEF Books, Queues
  <2>2. ASSUME NEW u \in DOMAIN tenants, NEW j \in Tickets, Queued(j, u)
        PROVE  /\ j <= issued /\ j \in DOMAIN items'
               /\ items'[j].state = "Queued" /\ items'[j].tenant = u
    <3>1. /\ j <= issued
          /\ j \in DOMAIN items => items[j].state = "Queued" /\ items[j].tenant = u
          /\ j \notin DOMAIN items => Arriving(j)
      BY <2>2 DEF Books, Queues
    <3>2. CASE j = k
      <4>1. u = t
        BY <1>5, <2>2, <3>2, OneQueue DEF Books
      <4> QED
        BY <1>10, <3>1, <3>2, <4>1
    <3>3. CASE j # k
      BY <1>8, <1>10, <3>1, <3>3
    <3> QED
      BY <3>2, <3>3
  <2>3. ASSUME NEW j \in DOMAIN items', items'[j].state = "Queued"
        PROVE  items'[j].tenant \in DOMAIN tenants /\ Queued(j, items[j].tenant)'
    <3>1. PICK u : u = items'[j].tenant
      OBVIOUS
    <3>2. u \in DOMAIN tenants /\ Queued(j, u)
      <4>1. CASE j = k
        BY <1>5, <1>10, <3>1, <4>1
      <4>2. CASE j # k
        <5>1. j \in DOMAIN items /\ items'[j] = items[j]
          BY <1>10, <4>2
        <5> QED
          BY <2>3, <3>1, <5>1 DEF Books, Queues
      <4> QED
        BY <4>1, <4>2
    <3> QED
      BY <1>3, <3>1, <3>2 DEF Queued
  <2> QED
    BY <1>3, <1>7, <1>9, <2>1, <2>2, <2>3 DEF Queues
<1>13. Actives'
  <2>1. ASSUME NEW u \in DOMAIN tenants, NEW j \in Tickets
        PROVE  j \in tenants[u].active <=>
                 j \in DOMAIN items' /\ items'[j].state = "Running" /\ items'[j].tenant = u
    <3>1. j \in tenants[u].active <=>
            j \in DOMAIN items /\ items[j].state = "Running" /\ items[j].tenant = u
      BY DEF Books, Actives
    <3> QED
      BY <1>4, <1>10, <3>1
  <2>2. ASSUME NEW j \in DOMAIN items', items'[j].state = "Running"
        PROVE  items'[j].tenant \in DOMAIN tenants
    <3>1. j \in DOMAIN items /\ items'[j] = items[j]
      BY <1>10, <2>2
    <3> QED
      BY <2>2, <3>1 DEF Books, Actives
  <2> QED
    BY <1>3, <2>1, <2>2 DEF Actives
<1> QED
  BY <1>3, <1>11, <1>12, <1>13 DEF Books, Counted, Active

\* The state of one ticket is changed.
ItemBecomes(k, v) ==
  /\ DOMAIN items' = DOMAIN items
  /\ items'[k].state = v /\ items'[k].tenant = items[k].tenant
  /\ \A j \in DOMAIN items : j # k => items'[j] = items[j]

LEMMA TakeBooks ==
  ASSUME Typed, Locks, Books, NEW c \in Thread, pc[c] = "take",
         NEW t \in DOMAIN tenants, NEW x \in TenantState, x = tenants[t],
         NEW k, k = Head(x.queue), Taken(t, x, k), UNCHANGED << ticket, issued >>
  PROVE  /\ Books' /\ k \in DOMAIN items /\ items[k].state = "Queued"
         /\ ItemBecomes(k, "Running")
<1>1. PICK y, q : /\ q = Tail(x.queue)
                  /\ y = Fields(x.status, x.max, x.priority, q, x.active \union {k},
                                x.deficit, x.recent)
  OBVIOUS
<1>2. Becomes(t, y) /\ x.queue # << >> /\ running' = running + 1 /\ pc' = pc
  BY <1>1 DEF Taken
<1>3. y.queue = q /\ y.active = x.active \union {k}
  BY <1>1 DEF Fields
<1>4. /\ DOMAIN tenants' = DOMAIN tenants /\ tenants'[t] = y
      /\ \A u \in DOMAIN tenants : u # t => tenants'[u] = tenants[u]
  BY <1>2, BecomesIs
<1>5. x.queue \in Seq(Tickets)
  BY TypesOfFields
<1>6. /\ Len(x.queue) \in Nat /\ Len(x.queue) >= 1 /\ k = x.queue[1] /\ Len(q) = Len(x.queue) - 1
      /\ \A i \in 1 .. Len(x.queue) - 1 : q[i] = x.queue[i + 1]
  BY <1>1, <1>2, <1>5, TailIs
<1>7. \A u \in Thread : pc[u] # "insert"
  <2>1. lockT = c
    BY DEF Locks
  <2> QED
    BY <2>1, NobodyArrives
<1>8. k \in Tickets /\ Queued(k, t)
  BY <1>5, <1>6 DEF Queued
<1>9. k \in DOMAIN items /\ items[k].state = "Queued" /\ items[k].tenant = t /\ items[k] \in ItemState
  <2>1. k \in DOMAIN items
    BY <1>7, <1>8 DEF Books, Queues, Arriving
  <2> QED
    BY <1>8, <2>1 DEF Books, Queues, Typed
<1>10. ItemBecomes(k, "Running")
  <2>1. /\ [items[k] EXCEPT !.state = "Running"].state = "Running"
        /\ [items[k] EXCEPT !.state = "Running"].tenant = items[k].tenant
    BY <1>9, ItemMoves
  <2>2. items' = [j \in DOMAIN items |->
                   IF j = k THEN [items[j] EXCEPT !.state = "Running"] ELSE items[j]]
    BY DEF Taken
  <2> QED
    BY <1>9, <2>1, <2>2 DEF ItemBecomes
<1>11. ASSUME NEW u \in DOMAIN tenants, NEW i \in 1 .. Len(tenants'[u].queue)
       PROVE  \E h \in 1 .. Len(tenants[u].queue) :
                /\ tenants'[u].queue[i] = tenants[u].queue[h] /\ tenants[u].queue[h] # k
                /\ h = IF u = t THEN i + 1 ELSE i
  <2>1. CASE u = t
    <3>1. i \in 1 .. Len(x.queue) - 1 /\ i + 1 \in 1 .. Len(x.queue)
      BY <1>3, <1>4, <1>6, <2>1
    <3>2. tenants'[u].queue[i] = x.queue[i + 1]
      BY <1>3, <1>4, <1>6, <2>1, <3>1
    <3>3. x.queue[i + 1] # k
      <4>1. 1 \in 1 .. Len(x.queue) /\ i + 1 # 1
        BY <1>6, <3>1
      <4>2. \A g, h \in 1 .. Len(x.queue) : x.queue[g] = x.queue[h] => g = h
        BY DEF Books, Once
      <4> QED
        BY <1>6, <3>1, <4>1, <4>2
    <3> QED
      BY <2>1, <3>1, <3>2, <3>3
  <2>2. CASE u # t
    <3>1. tenants'[u] = tenants[u]
      BY <1>4, <2>2
    <3>2. tenants[u].queue[i] # k
      <4>1. 1 \in 1 .. Len(x.queue)
        BY <1>6
      <4> QED
        BY <1>6, <2>2, <3>1, <4>1 DEF Books, Once
    <3> QED
      BY <2>2, <3>1, <3>2
  <2> QED
    BY <2>1, <2>2
<1>12. \A u \in DOMAIN tenants : \A j : Queued(j, u)' <=> Queued(j, u) /\ j # k
  <2>1. ASSUME NEW u \in DOMAIN tenants, NEW j, Queued(j, u)' PROVE Queued(j, u) /\ j # k
    BY <1>11, <2>1 DEF Queued
  <2>2. ASSUME NEW u \in DOMAIN tenants, NEW j, Queued(j, u), j # k PROVE Queued(j, u)'
    <3>1. CASE u = t
      <4>1. PICK h \in 1 .. Len(x.queue) : x.queue[h] = j
        BY <2>2, <3>1 DEF Queued
      <4>2. h - 1 \in 1 .. Len(q) /\ h - 1 \in 1 .. Len(x.queue) - 1 /\ (h - 1) + 1 = h
        BY <1>6, <2>2, <4>1
      <4>3. q[h - 1] = j
        BY <1>6, <4>1, <4>2
      <4> QED
        BY <1>3, <1>4, <3>1, <4>2, <4>3 DEF Queued
    <3>2. CASE u # t
      BY <1>4, <2>2, <3>2 DEF Queued
    <3> QED
      BY <3>1, <3>2
  <2> QED
    BY <2>1, <2>2
<1>13. Once'
  <2>1. ASSUME NEW u \in DOMAIN tenants, NEW i \in 1 .. Len(tenants'[u].queue),
               NEW w \in DOMAIN tenants, NEW j \in 1 .. Len(tenants'[w].queue),
               tenants'[u].queue[i] = tenants'[w].queue[j]
        PROVE  u = w /\ i = j
    <3>1. PICK h \in 1 .. Len(tenants[u].queue) :
            tenants'[u].queue[i] = tenants[u].queue[h] /\ h = IF u = t THEN i + 1 ELSE i
      BY <1>11
    <3>2. PICK g \in 1 .. Len(tenants[w].queue) :
            tenants'[w].queue[j] = tenants[w].queue[g] /\ g = IF w = t THEN j + 1 ELSE j
      BY <1>11
    <3>3. tenants[u].queue[h] = tenants[w].queue[g]
      BY <2>1, <3>1, <3>2
    <3>4. u = w /\ h = g
      <4>1. \A a, b \in DOMAIN tenants :
              \A d \in 1 .. Len(tenants[a].queue), e \in 1 .. Len(tenants[b].queue) :
                tenants[a].queue[d] = tenants[b].queue[e] => a = b /\ d = e
        BY DEF Books, Once
      <4> QED
        BY <3>3, <4>1
    <3> QED
      BY <3>1, <3>2, <3>4
  <2> QED
    BY <1>4, <2>1 DEF Once
<1>14. Queues'
  <2>1. issued' = issued /\ DOMAIN items' = DOMAIN items
    BY <1>10 DEF ItemBecomes
  <2>2. ASSUME NEW u \in DOMAIN tenants, NEW j \in Tickets, Queued(j, u), j # k
        PROVE  /\ j <= issued /\ j \in DOMAIN items
               /\ items'[j].state = "Queued" /\ items'[j].tenant = u
    <3>1. /\ j <= issued
          /\ j \in DOMAIN items => items[j].state = "Queued" /\ items[j].tenant = u
          /\ j \notin DOMAIN items => Arriving(j)
      BY <2>2 DEF Books, Queues
    <3>2. j \in DOMAIN items
      BY <1>7, <3>1 DEF Arriving
    <3> QED
      BY <1>10, <2>2, <3>1, <3>2 DEF ItemBecomes
  <2>3. ASSUME NEW j \in DOMAIN items, items'[j].state = "Queued"
        PROVE  items'[j].tenant \in DOMAIN tenants /\ Queued(j, items[j].tenant)'
    <3>1. j # k /\ items'[j] = items[j]
      BY <1>10, <2>3 DEF ItemBecomes
    <3>2. PICK u : u = items[j].tenant
      OBVIOUS
    <3>3. u \in DOMAIN tenants /\ Queued(j, u)
      BY <2>3, <3>1, <3>2 DEF Books, Queues
    <3>4. Queued(j, u)'
      BY <1>12, <3>1, <3>3
    <3> QED
      BY <3>1, <3>2, <3>3, <3>4 DEF Queued
  <2>4. DOMAIN items \subseteq 1 .. issued
    BY DEF Books, Queues
  <2> QED
    BY <1>2, <1>4, <1>7, <1>12, <2>1, <2>2, <2>3, <2>4 DEF Queues
<1>15. Actives'
  <2>1. ASSUME NEW u \in DOMAIN tenants, NEW j \in Tickets
        PROVE  j \in tenants'[u].active <=>
                 j \in DOMAIN items /\ items'[j].state = "Running" /\ items'[j].tenant = u
    <3>1. j \in tenants[u].active <=>
            j \in DOMAIN items /\ items[j].state = "Running" /\ items[j].tenant = u
      BY DEF Books, Actives
    <3>2. j \in tenants'[u].active <=> j \in tenants[u].active \/ (u = t /\ j = k)
      BY <1>3, <1>4
    <3> QED
      BY <1>9, <1>10, <3>1, <3>2 DEF ItemBecomes
  <2>2. ASSUME NEW j \in DOMAIN items, items'[j].state = "Running"
        PROVE  items'[j].tenant \in DOMAIN tenants
    BY <1>9, <1>10, <2>2 DEF ItemBecomes, Books, Actives
  <2> QED
    BY <1>4, <1>10, <2>1, <2>2 DEF Actives, ItemBecomes
<1>16. Counted'
  <2>1. k \notin Active
    BY <1>9, ActiveIs DEF Books, IsRunning
  <2>2. Active' = Active \union {k}
    BY <1>3, <1>4 DEF Active
  <2>3. Cardinality(Active') = Cardinality(Active) + 1
    BY <2>1, <2>2, ActiveFinite, FS_AddElement
  <2> QED
    BY <1>2, <2>3 DEF Books, Counted
<1> QED
  BY <1>9, <1>10, <1>13, <1>14, <1>15, <1>16 DEF Books

LEMMA RetainBooks ==
  ASSUME Typed, Locks, Books, Runs, NEW r \in Runner, CompleteRetain(r),
         NEW k, k = ticket[r]
  PROVE  Books' /\ IsRunning(k) /\ ItemBecomes(k, "Done")
<1>1. r \in Thread /\ pc[r] = "retain" /\ lockT = None
  BY DEF CompleteRetain, Thread
<1>2. IsRunning(k)
  BY <1>1 DEF Runs
<1>3. PICK t : t = items[k].tenant
  OBVIOUS
<1>4. k \in DOMAIN items /\ items[k].state = "Running" /\ t \in DOMAIN tenants /\ k \in Tickets
      /\ items[k] \in ItemState
  BY <1>2, <1>3 DEF IsRunning, Books, Actives, Typed
<1>5. /\ items' = [items EXCEPT ![k].state = "Done"]
      /\ tenants' = [tenants EXCEPT ![t].active = @ \ {k}]
      /\ running' = running - 1 /\ issued' = issued
      /\ pc' = [pc EXCEPT ![r] = "idle"]
  BY <1>3, <1>4 DEF CompleteRetain, Goto, ghosts
<1>6. PICK x : x = tenants[t]
  OBVIOUS
<1>7. x \in TenantState
  BY <1>4, <1>6, TenantsTyped
<1>8. PICK y : y = Fields(x.status, x.max, x.priority, x.queue, x.active \ {k}, x.deficit, x.recent)
  OBVIOUS
<1>9. Becomes(t, y)
  BY <1>4, <1>5, <1>6, <1>7, <1>8, RetainBecomes
<1>10. y.queue = x.queue /\ y.active = x.active \ {k}
  BY <1>8 DEF Fields
<1>11. /\ DOMAIN tenants' = DOMAIN tenants /\ tenants'[t] = y
       /\ \A u \in DOMAIN tenants : u # t => tenants'[u] = tenants[u]
  BY <1>9, BecomesIs
<1>12. \A u \in DOMAIN tenants : tenants'[u].queue = tenants[u].queue
  BY <1>6, <1>10, <1>11
<1>13. ItemBecomes(k, "Done")
  <2>1. /\ [items[k] EXCEPT !.state = "Done"].state = "Done"
        /\ [items[k] EXCEPT !.state = "Done"].tenant = items[k].tenant
    BY <1>4, ItemMoves
  <2>2. items' = [items EXCEPT ![k] = [items[k] EXCEPT !.state = "Done"]]
    BY <1>5
  <2> QED
    BY <1>4, <2>1, <2>2 DEF ItemBecomes
<1>14. \A u \in Thread : pc[u] # "insert" /\ pc'[u] # "insert"
  BY <1>1, <1>5, NobodyArrives DEF Typed
<1>15. \A u \in DOMAIN tenants : \A j : Queued(j, u)' <=> Queued(j, u)
  BY <1>12 DEF Queued
<1>16. Once'
  BY <1>11, <1>12 DEF Books, Once
<1>17. Queues'
  <2>1. DOMAIN items' = DOMAIN items /\ DOMAIN items \subseteq 1 .. issued
    BY <1>13 DEF ItemBecomes, Books, Queues
  <2>2. ASSUME NEW u \in DOMAIN tenants, NEW j \in Tickets, Queued(j, u)
        PROVE  /\ j <= issued /\ j \in DOMAIN items
               /\ items'[j].state = "Queued" /\ items'[j].tenant = u
    <3>1. /\ j <= issued
          /\ j \in DOMAIN items => items[j].state = "Queued" /\ items[j].tenant = u
          /\ j \notin DOMAIN items => Arriving(j)
      BY <2>2 DEF Books, Queues
    <3>2. j \in DOMAIN items /\ j # k
      BY <1>4, <1>14, <3>1 DEF Arriving
    <3> QED
      BY <1>13, <3>1, <3>2 DEF ItemBecomes
  <2>3. ASSUME NEW j \in DOMAIN items, items'[j].state = "Queued"
        PROVE  items'[j].tenant \in DOMAIN tenants /\ Queued(j, items[j].tenant)'
    <3>1. j # k /\ items'[j] = items[j]
      BY <1>13, <2>3 DEF ItemBecomes
    <3>2. PICK u : u = items[j].tenant
      OBVIOUS
    <3>3. u \in DOMAIN tenants /\ Queued(j, u)
      BY <2>3, <3>1, <3>2 DEF Books, Queues
    <3>4. Queued(j, u)'
      BY <1>15, <3>3
    <3> QED
      BY <3>1, <3>2, <3>3, <3>4 DEF Queued
  <2> QED
    BY <1>5, <1>11, <1>14, <1>15, <2>1, <2>2, <2>3 DEF Queues
<1>18. Actives'
  <2>1. ASSUME NEW u \in DOMAIN tenants, NEW j \in Tickets
        PROVE  j \in tenants'[u].active <=>
                 j \in DOMAIN items /\ items'[j].state = "Running" /\ items'[j].tenant = u
    <3>1. j \in tenants[u].active <=>
            j \in DOMAIN items /\ items[j].state = "Running" /\ items[j].tenant = u
      BY DEF Books, Actives
    <3>2. j \in tenants'[u].active <=> j \in tenants[u].active /\ ~(u = t /\ j = k)
      BY <1>6, <1>10, <1>11
    <3> QED
      BY <1>3, <1>4, <1>13, <3>1, <3>2 DEF ItemBecomes
  <2>2. ASSUME NEW j \in DOMAIN items, items'[j].state = "Running"
        PROVE  items'[j].tenant \in DOMAIN tenants
    BY <1>13, <2>2 DEF ItemBecomes, Books, Actives
  <2> QED
    BY <1>11, <1>13, <2>1, <2>2 DEF Actives, ItemBecomes
<1>19. Counted'
  <2>1. k \in Active
    BY <1>2, ActiveIs DEF Books
  <2>2. \A j : j \in Active' <=> j \in Active /\ j # k
    <3>1. \A j : j \in Active' <=> \E u \in DOMAIN tenants : j \in tenants'[u].active
      BY <1>11 DEF Active
    <3>2. \A u \in DOMAIN tenants : u # t => k \notin tenants[u].active
      BY <1>3, <1>4 DEF Books, Actives
    <3>3. \A u \in DOMAIN tenants : \A j :
            j \in tenants'[u].active <=> j \in tenants[u].active /\ j # k
      BY <1>6, <1>10, <1>11, <3>2
    <3> QED
      BY <3>1, <3>3 DEF Active
  <2>3. Active' = Active \ {k}
    BY <2>2
  <2>4. Cardinality(Active') = Cardinality(Active) - 1
    BY <2>1, <2>3, ActiveFinite, FS_RemoveElement
  <2> QED
    BY <1>5, <2>4 DEF Books, Counted
<1> QED
  BY <1>2, <1>13, <1>16, <1>17, <1>18, <1>19 DEF Books

LEMMA BecomesSame ==
  ASSUME NEW t, NEW x, x = tenants[t], NEW y, Becomes(t, y),
         y.queue = x.queue, y.active = x.active
  PROVE  /\ DOMAIN tenants' = DOMAIN tenants
         /\ \A u \in DOMAIN tenants :
              tenants'[u].queue = tenants[u].queue /\ tenants'[u].active = tenants[u].active
BY BecomesIs

LEMMA BooksStep ==
  ASSUME Typed, Locks, Passing, Books, Runs, [Next]_vars
  PROVE  Books'
<1> USE DEF Goto
<1>0. /\ Submitter \subseteq Thread /\ Scheduler \subseteq Thread /\ Runner \subseteq Thread
      /\ pc \in [Thread -> PCs] /\ ticket \in [Submitter \union Runner -> 0 .. MaxTickets]
  BY DEF Thread, Typed
<1>1. CASE UNCHANGED vars
  <2>1. SameTickets
    BY <1>1 DEF vars, SameTickets
  <2> QED
    BY <2>1, SameBooks
<1>2. ASSUME NEW t \in Tenant, Admin(t) PROVE Books'
  <2>1. CASE RegisterTenant(t)
    BY <2>1, RegisterBooks
  <2>2. CASE RemoveTenant(t)
    BY <2>2, RemoveBooks
  <2>3. CASE UpdateTenant(t) \/ SuspendTenant(t) \/ ResumeTenant(t)
    <3>1. t \in DOMAIN tenants /\ UNCHANGED << items, issued, running, pc, ticket >>
      BY <2>3 DEF UpdateTenant, SuspendTenant, ResumeTenant, WithTenants, locals
    <3>2. PICK x : x = tenants[t]
      OBVIOUS
    <3>3. x \in TenantState
      BY <3>1, <3>2, TenantsTyped
    <3>4. PICK v, m, p : Becomes(t, Fields(v, m, p, x.queue, x.active, x.deficit, x.recent))
      BY <2>3, <3>2, <3>3, AdminBecomes
    <3>5. PICK y : y = Fields(v, m, p, x.queue, x.active, x.deficit, x.recent)
      OBVIOUS
    <3>6. y.queue = x.queue /\ y.active = x.active
      BY <3>5 DEF Fields
    <3>7. Becomes(t, y)
      BY <3>4, <3>5
    <3>8. SameTickets
      BY <3>1, <3>2, <3>6, <3>7, BecomesSame DEF SameTickets
    <3> QED
      BY <3>8, SameBooks
  <2> QED
    BY <1>2, <2>1, <2>2, <2>3 DEF Admin
<1>3. ASSUME NEW s \in Submitter, NEW t \in Tenant, SubmitQueue(s, t) PROVE Books'
  BY <1>3, SubmitBooks
<1>4. ASSUME NEW s \in Submitter, SubmitInsert(s) PROVE Books'
  BY <1>4, InsertBooks
<1>5. ASSUME NEW c \in Thread, NEW l, pc[c] # "insert", l # "insert",
             pc' = pc \/ pc' = [pc EXCEPT ![c] = l],
             UNCHANGED << tenants, items, issued, running >>,
             ticket' = ticket \/ \E k : ticket' = [ticket EXCEPT ![c] = k]
      PROVE  Books'
  <2>1. \A s \in Thread : pc'[s] = "insert" <=> pc[s] = "insert"
    BY <1>0, <1>5
  <2>2. \A s \in Thread : pc[s] = "insert" => s \in Submitter /\ s # c
    BY <1>5 DEF Locks
  <2>3. \A s \in Thread : pc[s] = "insert" => ticket'[s] = ticket[s]
    BY <1>0, <1>5, <2>2
  <2>4. SameTickets
    BY <1>5, <2>1, <2>3 DEF SameTickets
  <2> QED
    BY <2>4, SameBooks
<1>6. ASSUME NEW c \in Scheduler, ScheduleLoad(c) PROVE Books'
  <2>1. pc[c] = "idle" /\ pc' = [pc EXCEPT ![c] = "tenants"] /\ UNCHANGED << tenants, items, issued, running, ticket >>
    BY <1>6 DEF ScheduleLoad, ghosts
  <2> QED
    BY <1>0, <1>5, <2>1
<1>7. ASSUME NEW c \in Scheduler, ScheduleLock(c) PROVE Books'
  <2>1. pc[c] = "tenants" /\ pc' = [pc EXCEPT ![c] = "items"] /\ UNCHANGED << tenants, items, issued, running, ticket >>
    BY <1>7 DEF ScheduleLock, ghosts, locals
  <2> QED
    BY <1>0, <1>5, <2>1
<1>8. ASSUME NEW c \in Scheduler, ScheduleCredit(c) PROVE Books'
  <2>1. pc[c] = "items" /\ UNCHANGED << drr, items, issued, running, ticket >>
    BY <1>8 DEF ScheduleCredit, ghosts
  <2>2. CASE drr /\ TotalPriority = 0
    <3>1. pc' = [pc EXCEPT ![c] = "idle"] /\ tenants' = tenants
      BY <1>8, <2>2 DEF ScheduleCredit
    <3> QED
      BY <1>0, <1>5, <2>1, <3>1
  <2>3. CASE ~(drr /\ TotalPriority = 0)
    <3>1. /\ pc' = [pc EXCEPT ![c] = "pick"]
          /\ tenants' = [t \in DOMAIN tenants |->
               [tenants[t] EXCEPT !.deficit = @ + Credit(c, t)]]
      BY <1>8, <2>3 DEF ScheduleCredit
    <3>2. /\ DOMAIN tenants' = DOMAIN tenants
          /\ \A t \in DOMAIN tenants :
               tenants'[t] = Fields(tenants[t].status, tenants[t].max, tenants[t].priority,
                 tenants[t].queue, tenants[t].active, tenants[t].deficit + Credit(c, t),
                 tenants[t].recent)
      BY <2>3, <3>1, CreditBecomes
    <3>3. \A t \in DOMAIN tenants :
            tenants'[t].queue = tenants[t].queue /\ tenants'[t].active = tenants[t].active
      BY <3>2 DEF Fields
    <3>4. SameTickets
      BY <1>0, <2>1, <3>1, <3>2, <3>3 DEF SameTickets
    <3> QED
      BY <3>4, SameBooks
  <2> QED
    BY <2>2, <2>3
<1>9. ASSUME NEW c \in Scheduler, SchedulePick(c) PROVE Books'
  <2>1. pc[c] = "pick" /\ UNCHANGED << items, running, ticket, issued >>
    BY <1>9 DEF SchedulePick, ghosts
  <2>2. PICK t \in DOMAIN tenants :
          \/ /\ Becomes(t, Fields(tenants[t].status, tenants[t].max, tenants[t].priority,
                  tenants[t].queue, tenants[t].active, Spent(t), tenants[t].recent))
             /\ pc' = [pc EXCEPT ![c] = "take"]
          \/ UNCHANGED << tenants, pc >>
    BY <1>9, PickEffect
  <2>3. CASE UNCHANGED << tenants, pc >>
    BY <1>0, <1>5, <2>1, <2>3
  <2>4. CASE /\ Becomes(t, Fields(tenants[t].status, tenants[t].max, tenants[t].priority,
                  tenants[t].queue, tenants[t].active, Spent(t), tenants[t].recent))
             /\ pc' = [pc EXCEPT ![c] = "take"]
    <3>1. PICK x : x = tenants[t]
      OBVIOUS
    <3>2. PICK y : y = Fields(x.status, x.max, x.priority, x.queue, x.active, Spent(t), x.recent)
      OBVIOUS
    <3>3. y.queue = x.queue /\ y.active = x.active
      BY <3>2 DEF Fields
    <3>4. Becomes(t, y)
      BY <2>4, <3>1, <3>2
    <3>5. SameTickets
      BY <1>0, <2>1, <2>4, <3>1, <3>3, <3>4, BecomesSame DEF SameTickets
    <3> QED
      BY <3>5, SameBooks
  <2> QED
    BY <2>2, <2>3, <2>4
<1>10. ASSUME NEW c \in Scheduler, ScheduleTake(c) PROVE Books'
  <2>1. PICK t, x, k : t = pass.cur /\ x = tenants[t] /\ k = Head(x.queue)
    OBVIOUS
  <2>2. /\ pc[c] = "take" /\ t \in DOMAIN tenants /\ x \in TenantState
        /\ UNCHANGED << ticket, issued >>
        /\ Taken(t, x, k) \/ TurnEnds(c)
    BY <1>10, <2>1, TakeEffect DEF ghosts
  <2>3. CASE Taken(t, x, k)
    BY <1>0, <2>1, <2>2, <2>3, TakeBooks
  <2>4. CASE TurnEnds(c)
    BY <1>0, <1>5, <2>2, <2>4 DEF TurnEnds
  <2> QED
    BY <2>2, <2>3, <2>4
<1>11. ASSUME NEW c \in Scheduler, ScheduleReturn(c) PROVE Books'
  <2>1. pc[c] = "pick" /\ pc' = [pc EXCEPT ![c] = "idle"] /\ UNCHANGED << tenants, items, issued, running, ticket >>
    BY <1>11 DEF ScheduleReturn
  <2> QED
    BY <1>0, <1>5, <2>1
<1>12. ASSUME NEW r \in Runner, NEW k, CompleteLock(r, k) PROVE Books'
  <2>1. /\ pc[r] = "idle" /\ pc' = [pc EXCEPT ![r] = "retain"]
        /\ UNCHANGED << tenants, items, issued, running >>
        /\ ticket' = [ticket EXCEPT ![r] = k]
    BY <1>12 DEF CompleteLock
  <2> QED
    BY <1>0, <1>5, <2>1
<1>13. ASSUME NEW r \in Runner, CompleteRetain(r) PROVE Books'
  BY <1>13, RetainBooks
<1> QED
  BY <1>1, <1>2, <1>3, <1>4, <1>6, <1>7, <1>8, <1>9, <1>10, <1>11, <1>12, <1>13 DEF Next, Step

LEMMA RunsKept ==
  ASSUME Runs, \A k : IsRunning(k) => IsRunning(k)', ready' = ready,
         pass'.ready \subseteq pass.ready,
         \A u \in Thread : pc'[u] = "retain" => pc[u] = "retain" /\ ticket'[u] = ticket[u]
  PROVE  Runs'
<1>1. \A k \in ready' : IsRunning(k)'
  BY DEF Runs
<1>2. \A k \in pass'.ready : IsRunning(k)' /\ k \notin ready'
  BY DEF Runs
<1>3. ASSUME NEW u \in Thread, pc'[u] = "retain"
      PROVE  IsRunning(ticket[u])' /\ ticket'[u] \notin ready'
  <2>1. PICK k : k = ticket[u]
    OBVIOUS
  <2>2. IsRunning(k) /\ k \notin ready /\ ticket'[u] = k
    BY <1>3, <2>1 DEF Runs
  <2>3. IsRunning(k)'
    BY <2>2
  <2> QED
    BY <2>2, <2>3 DEF IsRunning
<1> QED
  BY <1>1, <1>2, <1>3 DEF Runs

LEMMA RunsStep ==
  ASSUME Typed, Locks, Passing, Books, Runs, [Next]_vars
  PROVE  Runs'
<1> USE DEF Goto
<1>0. /\ Submitter \subseteq Thread /\ Scheduler \subseteq Thread /\ Runner \subseteq Thread
      /\ pc \in [Thread -> PCs] /\ ticket \in [Submitter \union Runner -> 0 .. MaxTickets]
  BY DEF Thread, Typed
<1>1. CASE UNCHANGED vars
  BY <1>1 DEF vars, Runs, IsRunning
<1>2. ASSUME NEW c \in Thread, NEW l, l # "retain", pc[c] # "retain", ready' = ready,
             pc' = pc \/ pc' = [pc EXCEPT ![c] = l],
             \A j \in DOMAIN items : j \in DOMAIN items' /\ items'[j] = items[j],
             pass'.ready \subseteq pass.ready,
             ticket' = ticket \/ \E k : ticket' = [ticket EXCEPT ![c] = k]
      PROVE  Runs'
  <2>1. \A u \in Thread : pc'[u] = "retain" => pc[u] = "retain" /\ u # c
    BY <1>0, <1>2
  <2>2. \A u \in Thread : pc[u] = "retain" => u \in Runner
    BY DEF Locks
  <2>3. \A u \in Thread : pc'[u] = "retain" => ticket'[u] = ticket[u]
    BY <1>0, <1>2, <2>1, <2>2
  <2>4. \A k : IsRunning(k) => IsRunning(k)'
    BY <1>2 DEF IsRunning
  <2> QED
    BY <1>2, <2>1, <2>3, <2>4, RunsKept
<1>3. ASSUME NEW t \in Tenant, Admin(t) PROVE Runs'
  <2>1. UNCHANGED << items, pc, ticket, pass, ready >>
    BY <1>3 DEF Admin, RegisterTenant, UpdateTenant, SuspendTenant, ResumeTenant, RemoveTenant,
                WithTenants, locals
  <2> QED
    BY <2>1 DEF Runs, IsRunning
<1>4. ASSUME NEW s \in Submitter, NEW t \in Tenant, SubmitQueue(s, t) PROVE Runs'
  <2>1. pc[s] = "idle" /\ t \in DOMAIN tenants /\ UNCHANGED << items, pass, ready >>
    BY <1>4 DEF SubmitQueue
  <2>2. /\ pc' = pc \/ pc' = [pc EXCEPT ![s] = "insert"]
        /\ ticket' = ticket \/ ticket' = [ticket EXCEPT ![s] = issued + 1]
    BY <1>4, <2>1, SubmitBecomes, TenantsTyped
  <2> QED
    BY <1>0, <1>2, <2>1, <2>2
<1>5. ASSUME NEW s \in Submitter, SubmitInsert(s) PROVE Runs'
  <2>1. /\ pc[s] = "insert" /\ pc' = [pc EXCEPT ![s] = "idle"] /\ UNCHANGED << pass, ready >>
        /\ ticket' = [ticket EXCEPT ![s] = 0]
    BY <1>5 DEF SubmitInsert, ghosts
  <2>2. ticket[s] \notin DOMAIN items
    BY <1>0, <2>1 DEF Books, Queues
  <2>3. \A j \in DOMAIN items : j \in DOMAIN items' /\ items'[j] = items[j]
    BY <1>5, <2>2 DEF SubmitInsert
  <2> QED
    BY <1>0, <1>2, <2>1, <2>3
<1>6. ASSUME NEW c \in Scheduler, ScheduleLoad(c) \/ ScheduleLock(c) PROVE Runs'
  <2>1. /\ pc[c] \in {"idle", "tenants"} /\ UNCHANGED << items, pass, ready, ticket >>
        /\ pc' = [pc EXCEPT ![c] = "tenants"] \/ pc' = [pc EXCEPT ![c] = "items"]
    BY <1>6 DEF ScheduleLoad, ScheduleLock, ghosts, locals
  <2> QED
    BY <1>0, <1>2, <2>1
<1>7. ASSUME NEW c \in Scheduler, ScheduleCredit(c) PROVE Runs'
  <2>1. /\ pc[c] = "items" /\ UNCHANGED << items, ready, ticket >>
        /\ pass' = pass \/ pass' = [NoPass EXCEPT !.todo = DOMAIN tenants]
        /\ pc' = [pc EXCEPT ![c] = "idle"] \/ pc' = [pc EXCEPT ![c] = "pick"]
    BY <1>7 DEF ScheduleCredit, ghosts
  <2>2. pass'.ready \subseteq pass.ready
    BY <2>1 DEF NoPass
  <2> QED
    BY <1>0, <1>2, <2>1, <2>2
<1>8. ASSUME NEW c \in Scheduler, SchedulePick(c) PROVE Runs'
  <2>1. pc[c] = "pick" /\ UNCHANGED << items, ready, ticket >>
    BY <1>8 DEF SchedulePick, ghosts
  <2>2. /\ pc' = pc \/ pc' = [pc EXCEPT ![c] = "take"]
        /\ \E td, cr, sl : pass' = PassOf(td, cr, sl, pass.count, pass.ready)
    BY <1>8, PickEffect
  <2>3. pass'.ready = pass.ready
    BY <2>2 DEF PassOf
  <2> QED
    BY <1>0, <1>2, <2>1, <2>2, <2>3
<1>9. ASSUME NEW c \in Scheduler, ScheduleTake(c) PROVE Runs'
  <2>1. PICK t, x, k : t = pass.cur /\ x = tenants[t] /\ k = Head(x.queue)
    OBVIOUS
  <2>2. /\ pc[c] = "take" /\ t \in DOMAIN tenants /\ x \in TenantState
        /\ UNCHANGED << ticket, issued, ready >>
        /\ Taken(t, x, k) \/ TurnEnds(c)
    BY <1>9, <2>1, TakeEffect DEF ghosts
  <2>3. CASE Taken(t, x, k)
    <3>1. k \in DOMAIN items /\ items[k].state = "Queued" /\ ItemBecomes(k, "Running")
      BY <1>0, <2>1, <2>2, <2>3, TakeBooks
    <3>2. pc' = pc /\ pass'.ready = pass.ready \union {k}
      BY <2>3 DEF Taken, PassOf
    <3>3. IsRunning(k)' /\ ~IsRunning(k) /\ \A j : IsRunning(j) => IsRunning(j)'
      BY <3>1 DEF IsRunning, ItemBecomes
    <3>4. k \notin ready
      BY <3>3 DEF Runs
    <3>5. \A j \in pass'.ready : IsRunning(j)' /\ j \notin ready'
      BY <2>2, <3>2, <3>3, <3>4 DEF Runs
    <3>6. \A u \in Thread : pc[u] # "retain"
      BY <1>0, <2>2, OnePass DEF InPass
    <3> QED
      BY <2>2, <3>2, <3>3, <3>5, <3>6 DEF Runs
  <2>4. CASE TurnEnds(c)
    <3>1. pc' = [pc EXCEPT ![c] = "pick"] /\ pass'.ready = pass.ready /\ items' = items
      BY <2>4 DEF TurnEnds, PassOf
    <3> QED
      BY <1>0, <1>2, <2>2, <3>1
  <2> QED
    BY <2>2, <2>3, <2>4
<1>10. ASSUME NEW c \in Scheduler, ScheduleReturn(c) PROVE Runs'
  <2>1. /\ pc[c] = "pick" /\ pc' = [pc EXCEPT ![c] = "idle"] /\ items' = items
        /\ ready' = ready \union pass.ready /\ pass' = NoPass
    BY <1>10 DEF ScheduleReturn
  <2>2. \A u \in Thread : pc'[u] # "retain"
    BY <1>0, <2>1, OnePass DEF InPass
  <2>3. pass'.ready = {}
    BY <2>1 DEF NoPass
  <2>4. \A k : IsRunning(k) => IsRunning(k)'
    BY <2>1 DEF IsRunning
  <2> QED
    BY <2>1, <2>2, <2>3, <2>4 DEF Runs
<1>11. ASSUME NEW r \in Runner, NEW k, CompleteLock(r, k) PROVE Runs'
  <2>1. /\ lockI = None /\ k \in ready /\ ready' = ready \ {k} /\ UNCHANGED << items, pass >>
        /\ ticket' = [ticket EXCEPT ![r] = k] /\ pc' = [pc EXCEPT ![r] = "retain"]
    BY <1>11 DEF CompleteLock
  <2>2. \A u \in Thread : pc[u] # "retain"
    BY <2>1, OrchestratorAssumption DEF Locks
  <2>3. \A u \in Thread : pc'[u] = "retain" => u = r
    BY <1>0, <2>1, <2>2
  <2>4. ticket'[r] = k /\ IsRunning(k)' /\ k \notin ready'
    BY <1>0, <2>1 DEF Runs, IsRunning
  <2>5. IsRunning(ticket[r])'
    BY <2>4 DEF IsRunning
  <2>6. \A j : IsRunning(j) => IsRunning(j)'
    BY <2>1 DEF IsRunning
  <2> QED
    BY <2>1, <2>3, <2>4, <2>5, <2>6 DEF Runs
<1>12. ASSUME NEW r \in Runner, CompleteRetain(r) PROVE Runs'
  <2>1. /\ pc[r] = "retain" /\ lockT = None /\ pc' = [pc EXCEPT ![r] = "idle"]
        /\ UNCHANGED << pass, ready >>
    BY <1>12 DEF CompleteRetain, ghosts
  <2>2. PICK k : k = ticket[r]
    OBVIOUS
  <2>3. k \notin ready /\ IsRunning(k) /\ ItemBecomes(k, "Done")
    BY <1>0, <1>12, <2>1, <2>2, RetainBooks DEF Runs
  <2>4. \A j : IsRunning(j) /\ j # k => IsRunning(j)'
    BY <2>3 DEF IsRunning, ItemBecomes
  <2>5. \A u \in Thread : pc'[u] # "retain"
    BY <1>0, <2>1 DEF Locks
  <2>6. pass.ready = {}
    BY <2>1, OnePass DEF Passing, NoPass
  <2> QED
    BY <2>1, <2>3, <2>4, <2>5, <2>6 DEF Runs
<1> QED
  BY <1>1, <1>3, <1>4, <1>5, <1>6, <1>7, <1>8, <1>9, <1>10, <1>11, <1>12 DEF Next, Step

LEMMA TicketStart ==
  ASSUME Init
  PROVE  TicketInv
<1> USE DEF Init
<1>1. DOMAIN tenants = {} /\ DOMAIN items = {}
  OBVIOUS
<1>2. \A t \in Thread : pc[t] = "idle"
  OBVIOUS
<1>3. None \notin Thread
  BY OrchestratorAssumption
<1>4. pass \in Pass
  BY DEF NoPass, Pass
<1>5. Typed
  <2>1. pc \in [Thread -> PCs]
    BY DEF PCs
  <2>2. /\ ticket \in [Submitter \union Runner -> 0 .. MaxTickets]
        /\ avail \in [Scheduler -> 0 .. MaxGlobal] /\ issued \in 0 .. MaxTickets
    BY OrchestratorAssumption
  <2>3. /\ drr \in BOOLEAN /\ suspended \in BOOLEAN /\ ready \in SUBSET Tickets
        /\ lockT \in Thread \union {None} /\ lockI \in Thread \union {None}
    OBVIOUS
  <2> QED
    BY <1>1, <1>4, <2>1, <2>2, <2>3 DEF Typed
<1>6. Locks /\ Passing
  BY <1>2, <1>3 DEF Locks, Passing, Scheduling, InPass
<1>7. Once /\ Queues /\ Actives
  BY <1>1, <1>2 DEF Once, Queues, Actives
<1>8. Runs
  BY <1>2 DEF Runs, NoPass
<1>9. Active = {}
  BY <1>1 DEF Active
<1>10. Counted
  BY <1>9, FS_EmptySet DEF Counted
<1> QED
  BY <1>5, <1>6, <1>7, <1>8, <1>10 DEF TicketInv

LEMMA TicketStep ==
  ASSUME TicketInv, [Next]_vars
  PROVE  TicketInv'
<1>1. Typed /\ Locks /\ Passing /\ Books /\ Runs
  BY DEF TicketInv, Books
<1>2. Queues /\ Counted
  BY DEF TicketInv
<1>3. Typed'
  BY <1>1, <1>2, TypedStep
<1>4. Locks' /\ Passing'
  BY <1>1, LocksStep, PassingStep
<1>5. Books' /\ Runs'
  BY <1>1, BooksStep, RunsStep
<1> QED
  BY <1>3, <1>4, <1>5 DEF TicketInv, Books

-----------------------------------------------------------------------------
(* Credits *)

LEMMA OwedIs ==
  ASSUME Typed
  PROVE  /\ IsFiniteSet(DOMAIN tenants) /\ Cardinality(DOMAIN tenants) <= Cardinality(Tenant)
         /\ Cardinality(DOMAIN tenants) \in Nat
         /\ \A t \in DOMAIN tenants : Deficits[t] = tenants[t].deficit /\ Deficits[t] \in Nat
         /\ Owed \in Nat
<1>1. DOMAIN tenants \in SUBSET Tenant /\ IsFiniteSet(Tenant)
  BY OrchestratorAssumption DEF Typed
<1>2. /\ IsFiniteSet(DOMAIN tenants) /\ Cardinality(DOMAIN tenants) <= Cardinality(Tenant)
      /\ Cardinality(DOMAIN tenants) \in Nat
  BY <1>1, FS_Subset, FS_CardinalityType
<1>3. \A t \in DOMAIN tenants : tenants[t].deficit \in Nat
  BY TenantsTyped, TypesOfFields
<1>4. \A t \in DOMAIN tenants : Deficits[t] = tenants[t].deficit /\ Deficits[t] \in Nat
  BY <1>3 DEF Deficits
<1>5. Owed \in Nat
  BY <1>2, <1>4, WeightNat DEF Owed
<1> QED
  BY <1>2, <1>4, <1>5

LEMMA OwedSame ==
  ASSUME Typed, DOMAIN tenants' = DOMAIN tenants,
         \A t \in DOMAIN tenants : tenants'[t].deficit = tenants[t].deficit
  PROVE  Owed' = Owed
<1>1. \A t \in DOMAIN tenants : Deficits'[t] = Deficits[t]
  BY DEF Deficits
<1>2. Weight(DOMAIN tenants, Deficits') = Weight(DOMAIN tenants, Deficits)
  BY <1>1, WeightSame
<1> QED
  BY <1>2 DEF Owed

\* A tenant more, a tenant less, and other credits of one tenant.
LEMMA OwedMore ==
  ASSUME Typed, NEW t, t \notin DOMAIN tenants, DOMAIN tenants' = DOMAIN tenants \union {t},
         \A u \in DOMAIN tenants : tenants'[u] = tenants[u], tenants'[t].deficit \in Nat
  PROVE  Owed' = Owed + tenants'[t].deficit
<1> DEFINE T == DOMAIN tenants
           w == Deficits'
<1>1. IsFiniteSet(T) /\ \A u \in T : Deficits[u] = tenants[u].deficit /\ Deficits[u] \in Nat
  BY OwedIs
<1>2. w[t] = tenants'[t].deficit /\ \A u \in T : w[u] = Deficits[u]
  BY DEF Deficits
<1>3. \A u \in T \union {t} : w[u] \in Nat
  BY <1>1, <1>2
<1>4. Owed' = Weight(T \union {t}, w) /\ Owed = Weight(T, Deficits)
  BY DEF Owed
<1> HIDE DEF w, T
<1>5. Weight(T \union {t}, w) = Weight(T, w) + w[t]
  BY <1>1, <1>3, WeightStep DEF T
<1>6. Weight(T, w) = Weight(T, Deficits)
  BY <1>2, WeightSame
<1> QED
  BY <1>2, <1>4, <1>5, <1>6

LEMMA OwedLess ==
  ASSUME Typed, NEW t \in DOMAIN tenants, DOMAIN tenants' = DOMAIN tenants \ {t},
         \A u \in DOMAIN tenants' : tenants'[u] = tenants[u]
  PROVE  Owed' <= Owed /\ Owed' \in Nat
<1> DEFINE S == DOMAIN tenants \ {t}
           w == Deficits
<1>1. IsFiniteSet(S) /\ \A u \in S \union {t} : w[u] \in Nat
  BY OwedIs, FS_RemoveElement
<1>2. \A u \in S : Deficits'[u] = w[u]
  BY DEF Deficits
<1>3. Owed' = Weight(S, Deficits') /\ Owed = Weight(S \union {t}, w)
  <2>1. S \union {t} = DOMAIN tenants
    OBVIOUS
  <2> QED
    BY <2>1 DEF Owed
<1>4. t \notin S
  OBVIOUS
<1> HIDE DEF S, w
<1>5. Weight(S, Deficits') = Weight(S, w)
  BY <1>2, WeightSame
<1>6. Weight(S \union {t}, w) = Weight(S, w) + w[t] /\ Weight(S, w) \in Nat /\ w[t] \in Nat
  BY <1>1, <1>4, WeightStep
<1> QED
  BY <1>3, <1>5, <1>6

LEMMA OwedMoves ==
  ASSUME Typed, NEW t \in DOMAIN tenants, NEW y, Becomes(t, y), y.deficit \in Nat
  PROVE  Owed' + tenants[t].deficit = Owed + y.deficit /\ Owed' \in Nat
<1> DEFINE S == DOMAIN tenants \ {t}
           v == Deficits
           w == Deficits'
<1>1. /\ DOMAIN tenants' = DOMAIN tenants /\ tenants'[t] = y
      /\ \A u \in DOMAIN tenants : u # t => tenants'[u] = tenants[u]
  BY BecomesIs
<1>2. IsFiniteSet(S) /\ \A u \in S \union {t} : v[u] \in Nat
  BY OwedIs, FS_RemoveElement
<1>3. v[t] = tenants[t].deficit /\ w[t] = y.deficit /\ \A u \in S : v[u] = w[u]
  BY <1>1 DEF Deficits
<1>4. \A u \in S \union {t} : w[u] \in Nat
  BY <1>2, <1>3
<1>5. Owed' = Weight(S \union {t}, w) /\ Owed = Weight(S \union {t}, v)
  <2>1. S \union {t} = DOMAIN tenants
    OBVIOUS
  <2> QED
    BY <1>1, <2>1 DEF Owed
<1>6. t \notin S
  OBVIOUS
<1> HIDE DEF S, v, w
<1>7. Weight(S, v) = Weight(S, w)
  BY <1>3, WeightSame
<1>8. Weight(S \union {t}, v) = Weight(S, v) + v[t] /\ Weight(S, v) \in Nat /\ v[t] \in Nat
  BY <1>2, <1>6, WeightStep
<1>9. Weight(S \union {t}, w) = Weight(S, w) + w[t] /\ Weight(S, w) \in Nat /\ w[t] \in Nat
  BY <1>2, <1>4, <1>6, WeightStep
<1> QED
  BY <1>3, <1>5, <1>7, <1>8, <1>9

\* One round credits no more than the slots it was given.
LEMMA OwedCredited ==
  ASSUME Typed, NEW c \in Scheduler, drr, TotalPriority # 0,
         tenants' = [t \in DOMAIN tenants |->
                      [tenants[t] EXCEPT !.deficit = @ + Credit(c, t)]]
  PROVE  Owed' \in Nat /\ Owed' <= Owed + avail[c] * Scale
<1> DEFINE T == DOMAIN tenants
           p == [t \in T |-> IF t \in Waiting THEN tenants[t].priority ELSE 0]
           g == [t \in T |-> Credit(c, t)]
           b == avail[c] * Scale
           v == Deficits
           w == Deficits'
<1>1. IsFiniteSet(T) /\ \A t \in T : v[t] = tenants[t].deficit /\ v[t] \in Nat
  BY OwedIs
<1>2. \A t \in T : tenants[t].priority \in Nat
  <2>1. \A t \in T : tenants[t].priority \in Priorities
    BY TenantsTyped, TypesOfFields
  <2> QED
    BY <2>1, OrchestratorAssumption
<1>3. \A t \in T : p[t] \in Nat
  BY <1>2
<1>4. TotalPriority = Weight(T, p)
  <2>1. Waiting \subseteq T
    BY DEF Waiting
  <2>2. \A u : u \in Units(T, p) <=> u \in UNION {{t} \X (1 .. tenants[t].priority) : t \in Waiting}
    <3>1. ASSUME NEW u, u \in Units(T, p)
          PROVE  \E t \in Waiting : u \in {t} \X (1 .. tenants[t].priority)
      <4>1. PICK x \in T : \E i \in 1 .. p[x] : u = << x, i >>
        BY <3>1, UnitIs
      <4>2. PICK i \in 1 .. p[x] : u = << x, i >>
        BY <4>1
      <4>3. x \in Waiting
        BY <4>2
      <4>4. p[x] = tenants[x].priority
        BY <4>3
      <4> QED
        BY <4>2, <4>3, <4>4
    <3>2. ASSUME NEW u, NEW t \in Waiting, u \in {t} \X (1 .. tenants[t].priority)
          PROVE  u \in Units(T, p)
      <4>1. t \in T /\ p[t] = tenants[t].priority
        BY <2>1
      <4>2. PICK i \in 1 .. tenants[t].priority : u = << t, i >>
        BY <3>2
      <4> QED
        BY <4>1, <4>2, UnitIs
    <3> QED
      BY <3>1, <3>2
  <2>3. Units(T, p) = UNION {{t} \X (1 .. tenants[t].priority) : t \in Waiting}
    BY <2>2
  <2> QED
    BY <2>3 DEF TotalPriority, Weight
<1>5. TotalPriority \in Nat
  <2> HIDE DEF p, T
  <2> QED
    BY <1>1, <1>3, <1>4, WeightNat
<1>6. avail[c] \in Nat /\ b \in Nat
  <2>1. avail[c] \in Nat /\ Scale \in Nat
    BY OrchestratorAssumption DEF Typed
  <2>2. \A i, j \in Nat : i * j \in Nat
    OBVIOUS
  <2> QED
    BY <2>1, <2>2
<1>7. \A t \in T : g[t] \in Nat
  BY CreditIs
<1>8. ASSUME NEW t \in T PROVE TotalPriority * g[t] <= p[t] * b
  <2>1. CASE t \in Waiting
    <3>1. PICK a : a = tenants[t].priority * avail[c] * Scale
      OBVIOUS
    <3>2. g[t] = a \div TotalPriority /\ p[t] = tenants[t].priority
      BY <2>1, <3>1 DEF Credit
    <3>3. a \in Nat /\ a = p[t] * b
      <4>1. \A i, j, k \in Nat : i * j * k \in Nat /\ i * j * k = i * (j * k)
        OBVIOUS
      <4>2. tenants[t].priority \in Nat /\ avail[c] \in Nat /\ Scale \in Nat
        BY <1>2, <1>6, OrchestratorAssumption
      <4>3. PICK i, j, k \in Nat : i = tenants[t].priority /\ j = avail[c] /\ k = Scale
        BY <4>2
      <4>4. a = i * j * k /\ p[t] = i /\ b = j * k
        BY <3>1, <3>2, <4>3
      <4> HIDE DEF p, b
      <4> QED
        BY <4>1, <4>4
    <3>4. TotalPriority * (a \div TotalPriority) <= a
      BY <1>5, <3>3, Quotients
    <3> QED
      BY <3>2, <3>3, <3>4
  <2>2. CASE t \notin Waiting
    <3>1. g[t] = 0 /\ p[t] = 0
      BY <2>2 DEF Credit
    <3> HIDE DEF g, p, b
    <3> QED
      BY <1>5, <1>6, <3>1
  <2> QED
    BY <2>1, <2>2
<1>9. \A t \in T : w[t] = v[t] + g[t]
  <2>1. /\ DOMAIN tenants' = T
        /\ \A t \in T : tenants'[t] = Fields(tenants[t].status, tenants[t].max,
             tenants[t].priority, tenants[t].queue, tenants[t].active,
             tenants[t].deficit + Credit(c, t), tenants[t].recent)
    BY CreditBecomes
  <2>2. \A t \in T : tenants'[t].deficit = tenants[t].deficit + Credit(c, t)
    BY <2>1 DEF Fields
  <2> QED
    BY <2>1, <2>2 DEF Deficits
<1>10. Owed = Weight(T, v) /\ Owed' = Weight(T, w)
  BY DEF Owed
<1> HIDE DEF T, p, g, b, v, w
<1>11. Weight(T, g) <= b
  BY <1>1, <1>3, <1>4, <1>6, <1>7, <1>8, Shares
<1>12. Weight(T, w) = Weight(T, v) + Weight(T, g)
  BY <1>1, <1>7, <1>9, WeightPlus
<1>13. Weight(T, v) \in Nat /\ Weight(T, g) \in Nat
  BY <1>1, <1>7, WeightNat
<1>14. Owed' \in Nat /\ Owed' <= Owed + b
  BY <1>6, <1>10, <1>11, <1>12, <1>13
<1> QED
  BY <1>14 DEF b

LEMMA PickBudget ==
  ASSUME NEW n \in Nat, NEW s \in Nat, NEW q \in Nat, NEW u \in Nat, s <= q
  PROVE  /\ (n + s) * u <= n * u + u * q /\ (n + 0) * u = n * u
         /\ (n + s) * u \in Nat /\ n * u \in Nat /\ u * q \in Nat
<1>1. s * u <= q * u /\ u * q = q * u /\ s * u \in Nat /\ q * u \in Nat /\ n * u \in Nat
  OBVIOUS
<1>2. (n + 0) * u = n * u /\ (n + s) * u = n * u + s * u
  OBVIOUS
<1> QED
  BY <1>1, <1>2

\* Slots that are used or given up.
LEMMA TurnBudget ==
  ASSUME NEW n \in Nat, NEW s \in Nat, NEW u \in Nat, NEW o \in Nat, NEW z \in Nat,
         (n + s) * u + o <= z
  PROVE  (n + 0) * u + o <= z
<1>1. (n + s) * u = n * u + s * u /\ (n + 0) * u = n * u /\ n * u \in Nat /\ s * u \in Nat
  OBVIOUS
<1> QED
  BY <1>1

LEMMA ReturnBudget ==
  ASSUME NEW n \in Nat, NEW s \in Nat, NEW u \in Nat, NEW o \in Nat, NEW a \in Nat, NEW z \in Nat,
         (n + s) * u + o <= a * u + z, n >= a
  PROVE  o <= z
<1>1. (n + s) * u >= a * u /\ (n + s) * u \in Nat /\ a * u \in Nat
  OBVIOUS
<1> QED
  BY <1>1

\* Fewer than m more than a, when less than u is left for each of m.
LEMMA CountBudget ==
  ASSUME NEW n \in Nat, NEW s \in Nat, NEW u \in Nat \ {0}, NEW o \in Nat, NEW a \in Nat,
         NEW m \in Nat \ {0}, (n + s) * u + o <= a * u + m * (u - 1)
  PROVE  n <= a + (m - 1)
<1>1. n * u <= (n + s) * u /\ n * u \in Nat /\ (n + s) * u \in Nat
  OBVIOUS
<1>2. a * u + m * (u - 1) = (a + m) * u - m /\ a * u \in Nat /\ (a + m) * u \in Nat
  OBVIOUS
<1>3. n * u < (a + m) * u
  BY <1>1, <1>2
<1>4. n < a + m
  BY <1>3
<1> QED
  BY <1>4

\* The credits while no cycle is under way.
LEMMA CreditsIdle ==
  ASSUME \A u \in Thread : pc'[u] \notin InPass,
         ~suspended' => \A t \in DOMAIN tenants' : tenants'[t].status = "Active",
         drr' /\ ~suspended' => Owed' <= Rest'
  PROVE  Credits'
BY DEF Credits

LEMMA AllActive ==
  ASSUME Credits, suspended' = suspended, DOMAIN tenants' = DOMAIN tenants,
         \A t \in DOMAIN tenants : tenants'[t].status = tenants[t].status
  PROVE  ~suspended' => \A t \in DOMAIN tenants' : tenants'[t].status = "Active"
BY DEF Credits

LEMMA AdminCredits ==
  ASSUME Typed, Locks, Credits, NEW t \in Tenant, Admin(t)
  PROVE  Credits'
<1>1. lockT = None /\ pc' = pc /\ drr' = drr /\ (suspended => suspended')
  BY DEF Admin, RegisterTenant, UpdateTenant, SuspendTenant, ResumeTenant, RemoveTenant,
         WithTenants, Typed
<1>2. \A u \in Thread : pc[u] \notin InPass
  BY <1>1, OnePass
<1>3. drr /\ ~suspended => Owed <= Rest
  BY <1>2 DEF Credits
<1>4. Rest' = Rest /\ Rest \in Nat /\ Owed \in Nat
  BY Constants, OwedIs DEF Rest
<1>5. SUFFICES /\ ~suspended' => \A u \in DOMAIN tenants' : tenants'[u].status = "Active"
               /\ Owed' \in Nat /\ Owed' <= Owed
  BY <1>1, <1>2, <1>3, <1>4, CreditsIdle
<1>6. CASE RegisterTenant(t)
  <2>1. PICK m, p : tenants'[t] = Fields("Active", m, p, << >>, {}, 0, 0)
    BY <1>6, RegisterAdds
  <2>2. tenants'[t].status = "Active" /\ tenants'[t].deficit = 0
    BY <2>1 DEF Fields
  <2>3. /\ t \notin DOMAIN tenants /\ DOMAIN tenants' = DOMAIN tenants \union {t}
        /\ \A u \in DOMAIN tenants : tenants'[u] = tenants[u]
        /\ suspended' = suspended
    BY <1>6, RegisterAdds DEF RegisterTenant
  <2>4. Owed' = Owed + tenants'[t].deficit
    BY <2>2, <2>3, OwedMore
  <2> QED
    BY <1>4, <2>2, <2>3, <2>4 DEF Credits
<1>7. CASE RemoveTenant(t)
  <2>1. /\ t \in DOMAIN tenants /\ DOMAIN tenants' = DOMAIN tenants \ {t}
        /\ \A u \in DOMAIN tenants' : tenants'[u] = tenants[u]
        /\ suspended' = suspended
    BY <1>7, RemoveTakes DEF RemoveTenant
  <2> QED
    BY <2>1, OwedLess DEF Credits
<1>8. CASE UpdateTenant(t) \/ SuspendTenant(t) \/ ResumeTenant(t)
  <2>1. t \in DOMAIN tenants
    BY <1>8 DEF UpdateTenant, SuspendTenant, ResumeTenant
  <2>2. PICK x : x = tenants[t]
    OBVIOUS
  <2>3. x \in TenantState
    BY <2>1, <2>2, TenantsTyped
  <2>4. PICK v, m, p :
          /\ Becomes(t, Fields(v, m, p, x.queue, x.active, x.deficit, x.recent))
          /\ suspended' \/ (suspended' = suspended /\ v \in {"Active", x.status})
    <3>1. CASE UpdateTenant(t)
      BY <2>2, <2>3, <3>1, AdminBecomes DEF UpdateTenant
    <3>2. CASE SuspendTenant(t)
      BY <2>2, <2>3, <3>2, AdminBecomes DEF SuspendTenant
    <3>3. CASE ResumeTenant(t)
      BY <2>2, <2>3, <3>3, AdminBecomes DEF ResumeTenant
    <3> QED
      BY <1>8, <3>1, <3>2, <3>3
  <2>5. PICK y : y = Fields(v, m, p, x.queue, x.active, x.deficit, x.recent)
    OBVIOUS
  <2>6. y.deficit = x.deficit /\ y.status = v /\ Becomes(t, y)
    BY <2>4, <2>5 DEF Fields
  <2>7. /\ DOMAIN tenants' = DOMAIN tenants /\ tenants'[t] = y
        /\ \A u \in DOMAIN tenants : u # t => tenants'[u] = tenants[u]
    BY <2>6, BecomesIs
  <2>8. Owed' = Owed
    BY <2>2, <2>6, <2>7, OwedSame
  <2>9. ASSUME ~suspended', NEW u \in DOMAIN tenants' PROVE tenants'[u].status = "Active"
    <3>1. /\ v \in {"Active", x.status}
          /\ \A z \in DOMAIN tenants : tenants[z].status = "Active"
      BY <2>4, <2>9 DEF Credits
    <3> QED
      BY <2>1, <2>2, <2>6, <2>7, <2>9, <3>1
  <2> QED
    BY <1>4, <2>8, <2>9
<1> QED
  BY <1>6, <1>7, <1>8 DEF Admin

LEMMA SubmitCredits ==
  ASSUME Typed, Locks, Credits, NEW s \in Submitter, NEW t \in Tenant, SubmitQueue(s, t)
  PROVE  Credits'
<1>1. lockT = None /\ t \in DOMAIN tenants /\ UNCHANGED << drr, suspended >>
  BY DEF SubmitQueue
<1>2. \A u \in Thread : pc[u] \notin InPass
  BY <1>1, OnePass
<1>3. PICK x : x = tenants[t]
  OBVIOUS
<1>4. x \in TenantState
  BY <1>1, <1>3, TenantsTyped
<1>5. PICK q, n : /\ Becomes(t, Fields(x.status, x.max, x.priority, q, x.active, x.deficit, n))
                  /\ pc' = pc \/ pc' = [pc EXCEPT ![s] = "insert"]
  BY <1>3, <1>4, SubmitBecomes
<1>6. PICK y : y = Fields(x.status, x.max, x.priority, q, x.active, x.deficit, n)
  OBVIOUS
<1>7. y.deficit = x.deficit /\ y.status = x.status /\ Becomes(t, y)
  BY <1>5, <1>6 DEF Fields
<1>8. /\ DOMAIN tenants' = DOMAIN tenants
      /\ \A u \in DOMAIN tenants : /\ tenants'[u].deficit = tenants[u].deficit
                                   /\ tenants'[u].status = tenants[u].status
  BY <1>3, <1>7, BecomesIs
<1>9. Owed' = Owed
  BY <1>8, OwedSame
<1>10. \A u \in Thread : pc'[u] \notin InPass
  BY <1>2, <1>5 DEF Typed, InPass
<1>11. drr /\ ~suspended => Owed <= Rest
  BY <1>2 DEF Credits
<1>12. ~suspended' => \A u \in DOMAIN tenants' : tenants'[u].status = "Active"
  BY <1>1, <1>8, AllActive
<1> QED
  BY <1>1, <1>9, <1>10, <1>11, <1>12, CreditsIdle DEF Rest

\* A step outside a cycle that changes no credits, and one beside a cycle.
LEMMA CreditsStill ==
  ASSUME Typed, Credits, UNCHANGED << drr, suspended >>, DOMAIN tenants' = DOMAIN tenants,
         \A u \in DOMAIN tenants : /\ tenants'[u].deficit = tenants[u].deficit
                                   /\ tenants'[u].status = tenants[u].status,
         \A u \in Thread : pc[u] \notin InPass, \A u \in Thread : pc'[u] \notin InPass
  PROVE  Credits'
<1>1. Owed' = Owed
  BY OwedSame
<1>2. drr /\ ~suspended => Owed <= Rest
  BY DEF Credits
<1>3. ~suspended' => \A u \in DOMAIN tenants' : tenants'[u].status = "Active"
  BY AllActive
<1> QED
  BY <1>1, <1>2, <1>3, CreditsIdle DEF Rest

LEMMA CreditsBeside ==
  ASSUME Credits, UNCHANGED << drr, suspended, tenants, pass >>,
         \A u \in Thread : /\ pc'[u] \in InPass <=> pc[u] \in InPass
                           /\ pc[u] \in InPass => avail'[u] = avail[u]
  PROVE  Credits'
<1>1. Owed' = Owed /\ Rest' = Rest
  BY DEF Owed, Deficits, Rest
<1>2. ~suspended' => \A t \in DOMAIN tenants' : tenants'[t].status = "Active"
  BY DEF Credits
<1>3. ASSUME drr, ~suspended
      PROVE  /\ (\A t \in Thread : pc'[t] \notin InPass) => Owed' <= Rest'
             /\ \A c \in Thread : pc'[c] \in InPass =>
                  /\ (pass'.count + pass'.slots) * Scale + Owed' <= avail'[c] * Scale + Rest'
                  /\ \A t \in DOMAIN tenants' : t \in pass'.todo \/ tenants'[t].deficit < Scale
  BY <1>1, <1>3 DEF Credits
<1>4. ASSUME ~drr
      PROVE  \A c \in Thread : pc'[c] \in InPass => pass'.count + pass'.slots <= avail'[c]
  BY <1>4 DEF Credits
<1> QED
  BY <1>2, <1>3, <1>4 DEF Credits

LEMMA CreditCredits ==
  ASSUME Typed, Locks, Passing, Credits, NEW c \in Scheduler, ScheduleCredit(c)
  PROVE  Credits'
<1> USE DEF Goto
<1>0. c \in Thread /\ pc[c] = "items" /\ UNCHANGED << drr, suspended >> /\ pc \in [Thread -> PCs]
  BY DEF ScheduleCredit, ghosts, Thread, Typed
<1>1. \A u \in Thread : pc[u] \notin InPass
  BY <1>0, OnePass
<1>2. CASE drr /\ TotalPriority = 0
  <2>1. pc' = [pc EXCEPT ![c] = "idle"] /\ tenants' = tenants
    BY <1>2 DEF ScheduleCredit
  <2>2. \A u \in Thread : pc'[u] \notin InPass
    BY <1>0, <1>1, <2>1 DEF InPass
  <2> QED
    BY <1>0, <1>1, <2>1, <2>2, CreditsStill
<1>3. CASE ~(drr /\ TotalPriority = 0)
  <2>1. /\ pc' = [pc EXCEPT ![c] = "pick"] /\ avail' = avail
        /\ pass' = PassOf(DOMAIN tenants, None, 0, 0, {})
        /\ tenants' = [t \in DOMAIN tenants |->
               [tenants[t] EXCEPT !.deficit = @ + Credit(c, t)]]
    BY <1>3, CreditPass DEF ScheduleCredit
  <2>2. /\ DOMAIN tenants' = DOMAIN tenants
        /\ \A t \in DOMAIN tenants :
             tenants'[t] = Fields(tenants[t].status, tenants[t].max, tenants[t].priority,
               tenants[t].queue, tenants[t].active, tenants[t].deficit + Credit(c, t),
               tenants[t].recent)
    BY <1>3, <2>1, CreditBecomes
  <2>3. \A t \in DOMAIN tenants : tenants'[t].status = tenants[t].status
    BY <2>2 DEF Fields
  <2>4. ~suspended' => \A t \in DOMAIN tenants' : tenants'[t].status = "Active"
    BY <1>0, <2>2, <2>3, AllActive
  <2>5. pass'.todo = DOMAIN tenants /\ pass'.count = 0 /\ pass'.slots = 0
    BY <2>1 DEF PassOf
  <2>6. pc'[c] = "pick" /\ \A u \in Thread : pc'[u] \in InPass => u = c
    BY <1>0, <1>1, <2>1
  <2>7. avail[c] \in Nat /\ Scale \in Nat /\ Rest' = Rest /\ Rest \in Nat
    <3>1. MaxGlobal \in Nat /\ Scale \in Nat
      BY OrchestratorAssumption
    <3>2. avail[c] \in Nat
      BY <3>1 DEF Typed
    <3> QED
      BY <3>1, <3>2, Constants DEF Rest
  <2>8. ASSUME drr, ~suspended
        PROVE  (pass'.count + pass'.slots) * Scale + Owed' <= avail'[c] * Scale + Rest'
    <3>1. Owed' \in Nat /\ Owed' <= Owed + avail[c] * Scale
      BY <1>3, <2>1, <2>8, OwedCredited
    <3>2. Owed \in Nat /\ Owed <= Rest
      BY <1>1, <2>8, OwedIs DEF Credits
    <3>3. (0 + 0) * Scale = 0 /\ avail[c] * Scale \in Nat
      BY <2>7
    <3> QED
      BY <2>1, <2>5, <2>7, <3>1, <3>2, <3>3
  <2>9. pass'.count + pass'.slots <= avail'[c]
    BY <2>1, <2>5, <2>7
  <2>10. ~(\A t \in Thread : pc'[t] \notin InPass)
    BY <1>0, <2>6 DEF InPass
  <2>11. \A t \in DOMAIN tenants' : t \in pass'.todo
    BY <2>2, <2>5
  <2> QED
    BY <1>0, <2>4, <2>6, <2>8, <2>9, <2>10, <2>11 DEF Credits
<1> QED
  BY <1>2, <1>3

\* A step of the one thread that is in a cycle, and stays in it.
LEMMA CycleGoesOn ==
  ASSUME Locks, NEW c \in Thread, pc[c] \in InPass, pc'[c] \in InPass,
         \A u \in Thread : u # c => pc'[u] = pc[u],
         UNCHANGED << drr, suspended, avail >>, DOMAIN tenants' = DOMAIN tenants,
         \A t \in DOMAIN tenants : tenants'[t].status = tenants[t].status, Credits,
         drr /\ ~suspended =>
           /\ (pass'.count + pass'.slots) * Scale + Owed' <= avail[c] * Scale + Rest
           /\ \A t \in DOMAIN tenants : t \in pass'.todo \/ tenants'[t].deficit < Scale,
         ~drr => pass'.count + pass'.slots <= avail[c]
  PROVE  Credits'
<1>1. \A u \in Thread : pc'[u] \in InPass => u = c
  BY OnePass
<1>2. ~suspended' => \A t \in DOMAIN tenants' : tenants'[t].status = "Active"
  BY AllActive
<1>3. Rest' = Rest
  BY DEF Rest
<1> QED
  BY <1>1, <1>2, <1>3 DEF Credits

LEMMA PickCredits ==
  ASSUME Typed, Locks, Passing, Credits, NEW c \in Scheduler, SchedulePick(c)
  PROVE  Credits'
<1>0. /\ c \in Thread /\ pc[c] = "pick" /\ pass.count < avail[c] /\ pc \in [Thread -> PCs]
      /\ UNCHANGED << drr, avail, suspended >> /\ pass.slots = 0
  BY PickEffect DEF ghosts, Typed, Passing
<1>1. PICK t \in pass.todo :
        /\ t \in DOMAIN tenants
        /\ \/ /\ tenants[t].status = "Active"
              /\ Becomes(t, Fields(tenants[t].status, tenants[t].max, tenants[t].priority,
                   tenants[t].queue, tenants[t].active, Spent(t), tenants[t].recent))
              /\ pass' = PassOf(pass.todo \ {t}, t, Slots(c, t), pass.count, pass.ready)
              /\ pc' = [pc EXCEPT ![c] = "take"]
           \/ /\ tenants[t].status # "Active"
              /\ pass' = PassOf(pass.todo \ {t}, pass.cur, pass.slots, pass.count, pass.ready)
              /\ UNCHANGED << tenants, pc >>
  BY PickEffect
<1>2. pass.count \in Nat /\ avail[c] \in Nat /\ Scale \in Nat
  <2>1. MaxGlobal \in Nat /\ Scale \in Nat /\ pass \in Pass
    BY OrchestratorAssumption DEF Typed
  <2> QED
    BY <2>1, PassTypes DEF Typed
<1>3. CASE /\ tenants[t].status = "Active"
           /\ Becomes(t, Fields(tenants[t].status, tenants[t].max, tenants[t].priority,
                tenants[t].queue, tenants[t].active, Spent(t), tenants[t].recent))
           /\ pass' = PassOf(pass.todo \ {t}, t, Slots(c, t), pass.count, pass.ready)
           /\ pc' = [pc EXCEPT ![c] = "take"]
  <2>1. PICK x : x = tenants[t]
    OBVIOUS
  <2>2. PICK y : y = Fields(x.status, x.max, x.priority, x.queue, x.active, Spent(t), x.recent)
    OBVIOUS
  <2>3. y.status = x.status /\ y.deficit = Spent(t) /\ Becomes(t, y)
    BY <1>3, <2>1, <2>2 DEF Fields
  <2>4. /\ DOMAIN tenants' = DOMAIN tenants /\ tenants'[t] = y
        /\ \A u \in DOMAIN tenants : u # t => tenants'[u] = tenants[u]
    BY <2>3, BecomesIs
  <2>5. pass'.todo = pass.todo \ {t} /\ pass'.count = pass.count /\ pass'.slots = Slots(c, t)
    BY <1>3 DEF PassOf
  <2>6. /\ Slots(c, t) \in Nat
        /\ drr => Slots(c, t) <= x.deficit \div Scale
        /\ ~drr => Slots(c, t) <= avail[c] - pass.count
    BY <1>0, <1>1, <2>1, SlotsIs
  <2>7. /\ Spent(t) \in Nat
        /\ drr => /\ Spent(t) < Scale /\ x.deficit \div Scale \in Nat
                  /\ Spent(t) + Scale * (x.deficit \div Scale) = x.deficit
    BY <1>1, <2>1, SpentIs
  <2>8. ASSUME drr, ~suspended
        PROVE  /\ (pass'.count + pass'.slots) * Scale + Owed' <= avail[c] * Scale + Rest
               /\ \A u \in DOMAIN tenants : u \in pass'.todo \/ tenants'[u].deficit < Scale
    <3>1. /\ (pass.count + 0) * Scale + Owed <= avail[c] * Scale + Rest
          /\ \A u \in DOMAIN tenants : u \in pass.todo \/ tenants[u].deficit < Scale
      BY <1>0, <2>8 DEF Credits, InPass
    <3>2. Owed' + x.deficit = Owed + Spent(t) /\ Owed' \in Nat /\ Owed \in Nat
      BY <1>1, <2>1, <2>3, <2>7, OwedMoves, OwedIs
    <3>3. x.deficit \in Nat /\ avail[c] * Scale + Rest \in Nat
      <4>1. x \in TenantState
        BY <1>1, <2>1, TenantsTyped
      <4>2. Rest \in Nat
        BY Constants
      <4>3. \A i, j, k \in Nat : i * j + k \in Nat
        OBVIOUS
      <4> QED
        BY <1>2, <4>1, <4>2, <4>3, TypesOfFields
    <3>4. PICK q, r, d, n, s, o, p, z, w \in Nat :
            /\ q = x.deficit \div Scale /\ r = Spent(t) /\ d = x.deficit /\ n = pass.count
            /\ s = Slots(c, t) /\ o = Owed /\ p = Owed' /\ z = avail[c] * Scale + Rest /\ w = Scale
      BY <1>2, <2>6, <2>7, <2>8, <3>2, <3>3
    <3>5. s <= q /\ p + d = o + r /\ r + w * q = d /\ (n + 0) * w + o <= z
      BY <2>6, <2>7, <2>8, <3>1, <3>2, <3>4
    <3>6. (n + s) * w + p <= z
      <4>1. /\ (n + s) * w <= n * w + w * q /\ (n + 0) * w = n * w
            /\ (n + s) * w \in Nat /\ n * w \in Nat /\ w * q \in Nat
        BY <3>5, PickBudget
      <4> QED
        BY <3>5, <4>1
    <3>7. (pass'.count + pass'.slots) * Scale + Owed' <= avail[c] * Scale + Rest
      BY <2>5, <3>4, <3>6
    <3>8. \A u \in DOMAIN tenants : u \in pass'.todo \/ tenants'[u].deficit < Scale
      BY <2>3, <2>4, <2>5, <2>7, <2>8, <3>1
    <3> QED
      BY <3>7, <3>8
  <2>9. ~drr => pass'.count + pass'.slots <= avail[c]
    BY <1>2, <2>5, <2>6
  <2>10. \A u \in DOMAIN tenants : tenants'[u].status = tenants[u].status
    BY <2>1, <2>3, <2>4
  <2>11. pc'[c] \in InPass /\ pc[c] \in InPass /\ \A u \in Thread : u # c => pc'[u] = pc[u]
    BY <1>0, <1>3 DEF InPass
  <2> QED
    BY <1>0, <2>4, <2>8, <2>9, <2>10, <2>11, CycleGoesOn
<1>4. CASE /\ tenants[t].status # "Active"
           /\ pass' = PassOf(pass.todo \ {t}, pass.cur, pass.slots, pass.count, pass.ready)
           /\ UNCHANGED << tenants, pc >>
  <2>1. suspended
    BY <1>1, <1>4 DEF Credits, Typed
  <2>2. pass'.count = pass.count /\ pass'.slots = pass.slots
    BY <1>4 DEF PassOf
  <2>3. ~drr => pass'.count + pass'.slots <= avail[c]
    BY <1>0, <2>2 DEF Credits, InPass
  <2>4. pc'[c] \in InPass /\ pc[c] \in InPass
    BY <1>0, <1>4 DEF InPass
  <2> QED
    BY <1>0, <1>4, <2>1, <2>3, <2>4, CycleGoesOn
<1> QED
  BY <1>1, <1>3, <1>4

LEMMA TakeCredits ==
  ASSUME Typed, Locks, Passing, Credits, NEW c \in Scheduler, ScheduleTake(c)
  PROVE  Credits'
<1>1. PICK t, x, k : t = pass.cur /\ x = tenants[t] /\ k = Head(x.queue)
  OBVIOUS
<1>2. /\ c \in Thread /\ pc[c] = "take" /\ t \in DOMAIN tenants /\ x \in TenantState
      /\ UNCHANGED << drr, avail, suspended >> /\ pc \in [Thread -> PCs]
      /\ Taken(t, x, k) \/ TurnEnds(c)
  BY <1>1, TakeEffect DEF ghosts, Typed
<1>3. pass.count \in Nat /\ pass.slots \in Nat /\ avail[c] \in Nat /\ Scale \in Nat /\ Rest \in Nat
      /\ Owed \in Nat
  <2>1. MaxGlobal \in Nat /\ Scale \in Nat /\ pass \in Pass
    BY OrchestratorAssumption DEF Typed
  <2>2. Rest \in Nat /\ Owed \in Nat
    BY Constants, OwedIs
  <2> QED
    BY <2>1, <2>2, PassTypes DEF Typed
<1>4. /\ drr /\ ~suspended =>
           /\ (pass.count + pass.slots) * Scale + Owed <= avail[c] * Scale + Rest
           /\ \A u \in DOMAIN tenants : u \in pass.todo \/ tenants[u].deficit < Scale
      /\ ~drr => pass.count + pass.slots <= avail[c]
  BY <1>2 DEF Credits, InPass
<1>5. pc[c] \in InPass
  BY <1>2 DEF InPass
<1>6. CASE Taken(t, x, k)
  <2>1. PICK y : y = Fields(x.status, x.max, x.priority, Tail(x.queue), x.active \union {k},
                            x.deficit, x.recent)
    OBVIOUS
  <2>2. y.status = x.status /\ y.deficit = x.deficit /\ Becomes(t, y)
    BY <1>6, <2>1 DEF Taken, Fields
  <2>3. /\ DOMAIN tenants' = DOMAIN tenants
        /\ \A u \in DOMAIN tenants : /\ tenants'[u].deficit = tenants[u].deficit
                                     /\ tenants'[u].status = tenants[u].status
    BY <1>1, <2>2, BecomesIs
  <2>4. Owed' = Owed
    BY <2>3, OwedSame
  <2>5. pc' = pc /\ pass'.todo = pass.todo /\ pass'.count + pass'.slots = pass.count + pass.slots
    BY <1>3, <1>6 DEF Taken, PassOf
  <2> QED
    BY <1>2, <1>4, <1>5, <2>3, <2>4, <2>5, CycleGoesOn
<1>7. CASE TurnEnds(c)
  <2>1. /\ pc' = [pc EXCEPT ![c] = "pick"] /\ tenants' = tenants
        /\ pass'.todo = pass.todo /\ pass'.count = pass.count /\ pass'.slots = 0
    BY <1>7 DEF TurnEnds, PassOf
  <2>2. Owed' = Owed
    BY <2>1 DEF Owed, Deficits
  <2>3. ~drr => pass'.count + pass'.slots <= avail[c]
    BY <1>3, <1>4, <2>1
  <2>4. ASSUME drr, ~suspended
        PROVE  (pass'.count + pass'.slots) * Scale + Owed' <= avail[c] * Scale + Rest
    <3>1. PICK n, s, u, o, z \in Nat :
            /\ n = pass.count /\ s = pass.slots /\ u = Scale /\ o = Owed
            /\ z = avail[c] * Scale + Rest
      <4>1. \A i, j, m \in Nat : i * j + m \in Nat
        OBVIOUS
      <4>2. avail[c] * Scale + Rest \in Nat
        BY <1>3, <4>1
      <4> QED
        BY <1>3, <4>2
    <3>2. (n + s) * u + o <= z
      BY <1>4, <2>4, <3>1
    <3>3. (n + 0) * u + o <= z
      BY <3>2, TurnBudget
    <3> QED
      BY <2>1, <2>2, <3>1, <3>3
  <2>5. pc'[c] \in InPass /\ \A u \in Thread : u # c => pc'[u] = pc[u]
    BY <1>2, <2>1 DEF InPass
  <2>6. \A u \in DOMAIN tenants : tenants'[u].status = tenants[u].status
    BY <2>1
  <2> QED
    BY <1>2, <1>4, <1>5, <2>1, <2>3, <2>4, <2>5, <2>6, CycleGoesOn
<1> QED
  BY <1>2, <1>6, <1>7

\* A cycle ends with its slots used up, or with every tenant's credits below one slot.
LEMMA ReturnCredits ==
  ASSUME Typed, Locks, Credits, NEW c \in Scheduler, ScheduleReturn(c)
  PROVE  Credits'
<1>1. /\ c \in Thread /\ pc[c] = "pick" /\ pc \in [Thread -> PCs]
      /\ pass.count >= avail[c] \/ pass.todo = {}
      /\ pc' = [pc EXCEPT ![c] = "idle"] /\ UNCHANGED << drr, tenants, suspended >>
  BY DEF ScheduleReturn, Goto, Thread, Typed
<1>2. \A u \in Thread : pc'[u] \notin InPass
  BY <1>1, OnePass DEF InPass
<1>3. ~suspended' => \A t \in DOMAIN tenants' : tenants'[t].status = "Active"
  BY <1>1, AllActive
<1>4. Owed' = Owed /\ Rest' = Rest
  BY <1>1 DEF Owed, Deficits, Rest
<1>5. ASSUME drr, ~suspended PROVE Owed <= Rest
  <2>1. /\ (pass.count + pass.slots) * Scale + Owed <= avail[c] * Scale + Rest
        /\ \A t \in DOMAIN tenants : t \in pass.todo \/ tenants[t].deficit < Scale
    BY <1>1, <1>5 DEF Credits, InPass
  <2>2. CASE pass.count >= avail[c]
    <3>1. MaxGlobal \in Nat /\ Scale \in Nat /\ pass \in Pass
      BY OrchestratorAssumption DEF Typed
    <3>2. /\ pass.count \in Nat /\ pass.slots \in Nat /\ avail[c] \in Nat /\ Rest \in Nat
          /\ Owed \in Nat
      BY <3>1, PassTypes, Constants, OwedIs DEF Typed
    <3> QED
      BY <2>1, <2>2, <3>1, <3>2, ReturnBudget
  <2>3. CASE pass.todo = {}
    <3>1. PICK n, m : n = Cardinality(Tenant) /\ m = Cardinality(DOMAIN tenants)
      OBVIOUS
    <3>2. n \in Nat /\ m \in Nat /\ m <= n /\ Scale \in Nat /\ Scale >= 1
      BY <3>1, OwedIs, Constants
    <3>3. Weighable(DOMAIN tenants, Deficits, Scale - 1)
      <4>1. \A t \in DOMAIN tenants : tenants[t].deficit < Scale
        BY <2>1, <2>3
      <4>2. \A t \in DOMAIN tenants : Deficits[t] \in 0 .. (Scale - 1)
        BY <3>2, <4>1, OwedIs
      <4>3. IsFiniteSet(DOMAIN tenants)
        BY OwedIs
      <4>4. Scale - 1 \in Nat
        BY <3>2
      <4> QED
        BY <4>2, <4>3, <4>4 DEF Weighable
    <3>4. Owed <= m * (Scale - 1) /\ Owed \in Nat
      BY <3>1, <3>3, WeightBound DEF Owed
    <3>5. m * (Scale - 1) <= n * (Scale - 1) /\ m * (Scale - 1) \in Nat /\ n * (Scale - 1) \in Nat
      BY <3>2
    <3> QED
      BY <3>1, <3>4, <3>5 DEF Rest
  <2> QED
    BY <1>1, <2>2, <2>3
<1> QED
  BY <1>1, <1>2, <1>3, <1>4, <1>5, CreditsIdle

LEMMA RetainCredits ==
  ASSUME Typed, Locks, Credits, NEW r \in Runner, CompleteRetain(r)
  PROVE  Credits'
<1>1. /\ r \in Thread /\ lockT = None /\ pc' = [pc EXCEPT ![r] = "idle"] /\ pc \in [Thread -> PCs]
      /\ UNCHANGED << drr, suspended >>
  BY DEF CompleteRetain, Goto, ghosts, Thread, Typed
<1>2. \A u \in Thread : pc[u] \notin InPass
  BY <1>1, OnePass
<1>3. \A u \in Thread : pc'[u] \notin InPass
  BY <1>1, <1>2 DEF InPass
<1>4. PICK k, t : k = ticket[r] /\ t = items[k].tenant
  OBVIOUS
<1>5. tenants' = IF t \in DOMAIN tenants
                 THEN [tenants EXCEPT ![t].active = @ \ {k}] ELSE tenants
  BY <1>4 DEF CompleteRetain
<1>6. /\ DOMAIN tenants' = DOMAIN tenants
      /\ \A u \in DOMAIN tenants : /\ tenants'[u].deficit = tenants[u].deficit
                                   /\ tenants'[u].status = tenants[u].status
  <2>1. CASE t \in DOMAIN tenants
    <3>1. PICK x : x = tenants[t]
      OBVIOUS
    <3>2. x \in TenantState
      BY <2>1, <3>1, TenantsTyped
    <3>3. PICK y : y = Fields(x.status, x.max, x.priority, x.queue, x.active \ {k}, x.deficit, x.recent)
      OBVIOUS
    <3>4. Becomes(t, y)
      BY <1>5, <2>1, <3>1, <3>2, <3>3, RetainBecomes
    <3>5. y.deficit = x.deficit /\ y.status = x.status
      BY <3>3 DEF Fields
    <3> QED
      BY <3>1, <3>4, <3>5, BecomesIs
  <2>2. CASE t \notin DOMAIN tenants
    BY <1>5, <2>2
  <2> QED
    BY <2>1, <2>2
<1> QED
  BY <1>1, <1>2, <1>3, <1>6, CreditsStill

LEMMA CreditsStep ==
  ASSUME Typed, Locks, Passing, Credits, [Next]_vars
  PROVE  Credits'
<1> USE DEF Goto
<1>0. /\ Submitter \subseteq Thread /\ Scheduler \subseteq Thread /\ Runner \subseteq Thread
      /\ pc \in [Thread -> PCs] /\ avail \in [Scheduler -> 0 .. MaxGlobal]
  BY DEF Thread, Typed
<1>1. CASE UNCHANGED vars
  BY <1>1, CreditsBeside DEF vars
<1>2. ASSUME NEW t \in Tenant, Admin(t) PROVE Credits'
  BY <1>2, AdminCredits
<1>3. ASSUME NEW s \in Submitter, NEW t \in Tenant, SubmitQueue(s, t) PROVE Credits'
  BY <1>3, SubmitCredits
<1>4. ASSUME NEW s \in Submitter, SubmitInsert(s) PROVE Credits'
  <2>1. /\ pc[s] = "insert" /\ pc' = [pc EXCEPT ![s] = "idle"]
        /\ UNCHANGED << drr, suspended, tenants, pass, avail >>
    BY <1>4 DEF SubmitInsert, ghosts
  <2> QED
    BY <1>0, <2>1, CreditsBeside DEF InPass
<1>5. ASSUME NEW c \in Scheduler, ScheduleLoad(c) PROVE Credits'
  <2>1. /\ pc[c] = "idle" /\ pc' = [pc EXCEPT ![c] = "tenants"]
        /\ UNCHANGED << drr, suspended, tenants, pass >>
        /\ avail' = [avail EXCEPT ![c] = MaxGlobal - running]
    BY <1>5 DEF ScheduleLoad, ghosts
  <2>2. \A u \in Thread : /\ pc'[u] \in InPass <=> pc[u] \in InPass
                          /\ pc[u] \in InPass => u \in Scheduler /\ u # c
    BY <1>0, <2>1 DEF InPass, Locks, Scheduling
  <2>3. \A u \in Scheduler : u # c => avail'[u] = avail[u]
    BY <1>0, <2>1
  <2> QED
    BY <2>1, <2>2, <2>3, CreditsBeside
<1>6. ASSUME NEW c \in Scheduler, ScheduleLock(c) PROVE Credits'
  <2>1. /\ pc[c] = "tenants" /\ pc' = [pc EXCEPT ![c] = "items"]
        /\ UNCHANGED << drr, suspended, tenants, pass, avail >>
    BY <1>6 DEF ScheduleLock, ghosts, locals
  <2> QED
    BY <1>0, <2>1, CreditsBeside DEF InPass
<1>7. ASSUME NEW c \in Scheduler, ScheduleCredit(c) PROVE Credits'
  BY <1>7, CreditCredits
<1>8. ASSUME NEW c \in Scheduler, SchedulePick(c) PROVE Credits'
  BY <1>8, PickCredits
<1>9. ASSUME NEW c \in Scheduler, ScheduleTake(c) PROVE Credits'
  BY <1>9, TakeCredits
<1>10. ASSUME NEW c \in Scheduler, ScheduleReturn(c) PROVE Credits'
  BY <1>10, ReturnCredits
<1>11. ASSUME NEW r \in Runner, NEW k, CompleteLock(r, k) PROVE Credits'
  <2>1. /\ pc[r] = "idle" /\ pc' = [pc EXCEPT ![r] = "retain"]
        /\ UNCHANGED << drr, suspended, tenants, pass, avail >>
    BY <1>11 DEF CompleteLock
  <2> QED
    BY <1>0, <2>1, CreditsBeside DEF InPass
<1>12. ASSUME NEW r \in Runner, CompleteRetain(r) PROVE Credits'
  BY <1>12, RetainCredits
<1> QED
  BY <1>1, <1>2, <1>3, <1>4, <1>5, <1>6, <1>7, <1>8, <1>9, <1>10, <1>11, <1>12 DEF Next, Step

-----------------------------------------------------------------------------
(* The global limit *)

LEMMA RunningIs ==
  ASSUME Typed, Counted
  PROVE  running \in Nat
BY ActiveFinite DEF Counted

LEMMA GlobalKept ==
  ASSUME Typed, Locks, Global, drr' = drr, suspended => suspended',
         running \in Int, running' \in Int, running' <= running, pass'.count = pass.count,
         \A c \in Thread : pc'[c] \in Scheduling => pc[c] \in Scheduling /\ avail'[c] = avail[c]
  PROVE  Global'
<1>1. SUFFICES ASSUME Cardinality(Scheduler) = 1
               PROVE  /\ \A c \in Thread : pc'[c] \in Scheduling =>
                           running' + avail'[c] <= MaxGlobal + pass'.count
                      /\ (drr => ~suspended') =>
                           running' <= MaxGlobal + (IF drr THEN Cardinality(Tenant) - 1 ELSE 0)
  BY DEF Global
<1>2. MaxGlobal \in Nat /\ pass.count \in Nat /\ Cardinality(Tenant) \in Nat
  <2>1. pass \in Pass
    BY DEF Typed
  <2> QED
    BY <2>1, PassTypes, Constants
<1>3. ASSUME NEW c \in Thread, pc'[c] \in Scheduling
      PROVE  running' + avail'[c] <= MaxGlobal + pass'.count
  <2>1. running + avail[c] <= MaxGlobal + pass.count /\ avail'[c] = avail[c]
    BY <1>1, <1>3 DEF Global
  <2>2. c \in Scheduler
    BY <1>3 DEF Locks
  <2>3. avail[c] \in Nat
    BY <1>2, <2>2 DEF Typed
  <2> QED
    BY <1>2, <2>1, <2>3
<1>4. ASSUME drr => ~suspended'
      PROVE  running' <= MaxGlobal + (IF drr THEN Cardinality(Tenant) - 1 ELSE 0)
  <2>1. running <= MaxGlobal + (IF drr THEN Cardinality(Tenant) - 1 ELSE 0)
    BY <1>1, <1>4 DEF Global
  <2> QED
    BY <1>2, <2>1
<1> QED
  BY <1>3, <1>4

LEMMA OneScheduler ==
  ASSUME Locks, Cardinality(Scheduler) = 1, NEW c \in Scheduler
  PROVE  \A u \in Thread : pc[u] \in Scheduling => u = c
<1>1. IsFiniteSet(Scheduler)
  BY Constants
<1>2. PICK x : Scheduler = {x}
  BY <1>1, FS_Singleton
<1>3. Scheduler = {c}
  BY <1>2
<1> QED
  BY <1>3 DEF Locks

LEMMA TakeGlobal ==
  ASSUME Typed, Locks, Passing, Counted, Credits, Global, NEW c \in Scheduler, ScheduleTake(c)
  PROVE  Global'
<1>1. PICK t, x, k : t = pass.cur /\ x = tenants[t] /\ k = Head(x.queue)
  OBVIOUS
<1>2. /\ c \in Thread /\ pc[c] = "take" /\ t \in DOMAIN tenants /\ UNCHANGED << drr, avail, suspended >>
      /\ pc \in [Thread -> PCs] /\ (Taken(t, x, k) \/ TurnEnds(c))
  BY <1>1, TakeEffect DEF ghosts, Typed
<1>3. running \in Nat
  BY RunningIs
<1>4. CASE TurnEnds(c)
  <2>1. /\ pc' = [pc EXCEPT ![c] = "pick"] /\ running' = running /\ pass'.count = pass.count
    BY <1>4 DEF TurnEnds, PassOf
  <2>2. \A u \in Thread : pc'[u] \in Scheduling => pc[u] \in Scheduling
    BY <1>2, <2>1 DEF Scheduling
  <2> QED
    BY <1>2, <1>3, <2>1, <2>2, GlobalKept
<1>5. CASE Taken(t, x, k)
  <2>1. pc' = pc /\ running' = running + 1 /\ pass'.count = pass.count + 1
    BY <1>5 DEF Taken, PassOf
  <2>2. MaxGlobal \in Nat /\ pass.count \in Nat /\ Cardinality(Tenant) \in Nat /\ avail[c] \in Nat
    <3>1. pass \in Pass /\ MaxGlobal \in Nat
      BY OrchestratorAssumption DEF Typed
    <3> QED
      BY <3>1, PassTypes, Constants DEF Typed
  <2>3. SUFFICES ASSUME Cardinality(Scheduler) = 1
                 PROVE  /\ \A u \in Thread : pc'[u] \in Scheduling =>
                             running' + avail'[u] <= MaxGlobal + pass'.count
                        /\ (drr => ~suspended) =>
                             running' <= MaxGlobal + (IF drr THEN Cardinality(Tenant) - 1 ELSE 0)
    BY <1>2 DEF Global
  <2>4. running + avail[c] <= MaxGlobal + pass.count
    BY <1>2, <2>3 DEF Global, Scheduling
  <2>5. running' + avail'[c] <= MaxGlobal + pass'.count
    BY <1>2, <1>3, <2>1, <2>2, <2>4
  <2>6. \A u \in Thread : pc'[u] \in Scheduling => u = c
    BY <2>1, <2>3, OneScheduler
  <2>7. ASSUME drr => ~suspended
        PROVE  running' <= MaxGlobal + (IF drr THEN Cardinality(Tenant) - 1 ELSE 0)
    <3>1. t \in Tenant
      BY <1>2 DEF Typed
    <3>2. pass'.count + pass'.slots = pass.count + pass.slots /\ pass.slots >= 1 /\ pass.slots \in Nat
      <4>1. pass \in Pass /\ pass.slots > 0
        BY <1>5 DEF Taken, Typed
      <4>2. pass.slots \in Nat
        BY <4>1, PassTypes
      <4>3. pass'.slots = pass.slots - 1
        BY <1>5 DEF Taken, PassOf
      <4> QED
        BY <2>1, <2>2, <4>1, <4>2, <4>3
    <3>3. pass.count + 1 <= avail[c] + (IF drr THEN Cardinality(Tenant) - 1 ELSE 0)
      <4>1. /\ Scale \in Nat \ {0} /\ Owed \in Nat /\ Cardinality(Tenant) # 0
            /\ pass.slots - 1 \in Nat
        BY <3>1, <3>2, OrchestratorAssumption, OwedIs, FS_EmptySet
      <4>2. CASE drr
        <5>1. (pass.count + pass.slots) * Scale + Owed <= avail[c] * Scale + Rest
          BY <1>2, <2>7, <4>2 DEF Credits, InPass
        <5>2. ((pass.count + 1) + (pass.slots - 1)) * Scale + Owed <= avail[c] * Scale + Rest
          <6>1. (pass.count + 1) + (pass.slots - 1) = pass.count + pass.slots
            BY <2>2, <3>2
          <6> QED
            BY <5>1, <6>1
        <5>3. PICK n, s \in Nat : n = pass.count + 1 /\ s = pass.slots - 1
          BY <2>2, <4>1
        <5>4. n <= avail[c] + (Cardinality(Tenant) - 1)
          BY <2>2, <4>1, <5>2, <5>3, CountBudget DEF Rest
        <5> QED
          BY <4>2, <5>3, <5>4
      <4>3. CASE ~drr
        <5>1. pass.count + pass.slots <= avail[c]
          BY <1>2, <4>3 DEF Credits, InPass
        <5> QED
          BY <2>2, <3>2, <4>3, <5>1
      <4> QED
        BY <4>2, <4>3
    <3> QED
      BY <1>3, <2>1, <2>2, <2>4, <3>3
  <2> QED
    BY <2>5, <2>6, <2>7
<1> QED
  BY <1>2, <1>4, <1>5

LEMMA GlobalStep ==
  ASSUME Typed, Locks, Passing, Counted, Credits, Global, [Next]_vars
  PROVE  Global'
<1> USE DEF Goto
<1>0. /\ Submitter \subseteq Thread /\ Scheduler \subseteq Thread /\ Runner \subseteq Thread
      /\ pc \in [Thread -> PCs] /\ avail \in [Scheduler -> 0 .. MaxGlobal]
      /\ pass \in Pass /\ MaxGlobal \in Nat
  BY OrchestratorAssumption DEF Thread, Typed
<1>1. running \in Nat /\ pass.count \in Nat
  BY <1>0, RunningIs, PassTypes
<1>2. ASSUME NEW c \in Thread, NEW l,
             UNCHANGED << drr, suspended, running, avail >>, pass'.count = pass.count,
             pc' = pc \/ pc' = [pc EXCEPT ![c] = l],
             l \notin Scheduling \/ pc[c] \in Scheduling
      PROVE  Global'
  <2>1. \A u \in Thread : pc'[u] \in Scheduling => pc[u] \in Scheduling
    BY <1>0, <1>2
  <2> QED
    BY <1>1, <1>2, <2>1, GlobalKept
<1>3. CASE UNCHANGED vars
  <2>1. /\ UNCHANGED << drr, suspended, running, avail, pc >> /\ pass'.count = pass.count
    BY <1>3 DEF vars
  <2> QED
    BY <1>1, <2>1, GlobalKept
<1>4. ASSUME NEW t \in Tenant, Admin(t) PROVE Global'
  <2>1. UNCHANGED << drr, running, avail, pc, pass >> /\ (suspended => suspended')
    BY <1>4 DEF Admin, RegisterTenant, UpdateTenant, SuspendTenant, ResumeTenant, RemoveTenant,
                WithTenants, locals, Typed
  <2> QED
    BY <1>1, <2>1, GlobalKept
<1>5. ASSUME NEW s \in Submitter, NEW t \in Tenant, SubmitQueue(s, t) PROVE Global'
  <2>1. t \in DOMAIN tenants /\ UNCHANGED << drr, suspended, running, avail, pass >>
    BY <1>5 DEF SubmitQueue
  <2>2. pc' = pc \/ pc' = [pc EXCEPT ![s] = "insert"]
    BY <1>5, <2>1, SubmitBecomes, TenantsTyped
  <2> QED
    BY <1>0, <1>2, <2>1, <2>2 DEF Scheduling
<1>6. ASSUME NEW s \in Submitter, SubmitInsert(s) PROVE Global'
  <2>1. UNCHANGED << drr, suspended, running, avail, pass >> /\ pc' = [pc EXCEPT ![s] = "idle"]
    BY <1>6 DEF SubmitInsert, ghosts
  <2> QED
    BY <1>0, <1>2, <2>1 DEF Scheduling
<1>7. ASSUME NEW c \in Scheduler, ScheduleLoad(c) PROVE Global'
  <2>1. /\ avail' = [avail EXCEPT ![c] = MaxGlobal - running] /\ pc' = [pc EXCEPT ![c] = "tenants"]
        /\ UNCHANGED << drr, suspended, running, pass >>
    BY <1>7 DEF ScheduleLoad, ghosts
  <2>2. ASSUME Cardinality(Scheduler) = 1, NEW u \in Thread, pc'[u] \in Scheduling
        PROVE  running' + avail'[u] <= MaxGlobal + pass'.count
    <3>1. u = c
      <4>1. u # c => pc[u] \in Scheduling
        BY <1>0, <2>1, <2>2
      <4> QED
        BY <2>2, <4>1, OneScheduler
    <3>2. avail'[u] = MaxGlobal - running
      BY <1>0, <2>1, <3>1
    <3> QED
      BY <1>0, <1>1, <2>1, <3>2
  <2> QED
    BY <2>1, <2>2 DEF Global
<1>8. ASSUME NEW c \in Scheduler, ScheduleLock(c) PROVE Global'
  <2>1. /\ UNCHANGED << drr, suspended, running, avail, pass >> /\ pc' = [pc EXCEPT ![c] = "items"]
        /\ pc[c] \in Scheduling
    BY <1>8 DEF ScheduleLock, ghosts, locals, Scheduling
  <2> QED
    BY <1>0, <1>2, <2>1
<1>9. ASSUME NEW c \in Scheduler, ScheduleCredit(c) PROVE Global'
  <2>1. pc[c] = "items" /\ pc[c] \in Scheduling /\ UNCHANGED << drr, suspended, running >>
    BY <1>9 DEF ScheduleCredit, ghosts, Scheduling
  <2>2. CASE drr /\ TotalPriority = 0
    <3>1. /\ pc' = [pc EXCEPT ![c] = "idle"] /\ avail' = [avail EXCEPT ![c] = 0] /\ pass' = pass
      BY <1>9, <2>2 DEF ScheduleCredit
    <3>2. \A u \in Thread : pc'[u] \in Scheduling => pc[u] \in Scheduling /\ u # c
      BY <1>0, <3>1 DEF Scheduling
    <3>3. \A u \in Thread : pc'[u] \in Scheduling => u \in Scheduler
      BY <3>2 DEF Locks
    <3>4. \A u \in Thread : pc'[u] \in Scheduling => avail'[u] = avail[u]
      BY <1>0, <3>1, <3>2, <3>3
    <3> QED
      BY <1>1, <2>1, <3>1, <3>2, <3>4, GlobalKept
  <2>3. CASE ~(drr /\ TotalPriority = 0)
    <3>1. /\ pc' = [pc EXCEPT ![c] = "pick"] /\ avail' = avail
          /\ pass' = [NoPass EXCEPT !.todo = DOMAIN tenants]
      BY <1>9, <2>3 DEF ScheduleCredit
    <3>2. pass = NoPass
      BY <1>0, <2>1, OnePass DEF Passing
    <3>3. pass'.count = pass.count
      BY <3>1, <3>2 DEF NoPass
    <3> QED
      BY <1>0, <1>2, <2>1, <3>1, <3>3
  <2> QED
    BY <2>2, <2>3
<1>10. ASSUME NEW c \in Scheduler, SchedulePick(c) PROVE Global'
  <2>1. pc[c] \in Scheduling /\ UNCHANGED << drr, suspended, running, avail >>
    BY <1>10 DEF SchedulePick, ghosts, Scheduling
  <2>2. /\ pc' = pc \/ pc' = [pc EXCEPT ![c] = "take"]
        /\ \E td, cr, sl : pass' = PassOf(td, cr, sl, pass.count, pass.ready)
    BY <1>10, PickEffect
  <2>3. pass'.count = pass.count
    BY <2>2 DEF PassOf
  <2> QED
    BY <1>0, <1>2, <2>1, <2>2, <2>3
<1>11. ASSUME NEW c \in Scheduler, ScheduleTake(c) PROVE Global'
  BY <1>11, TakeGlobal
<1>12. ASSUME NEW c \in Scheduler, ScheduleReturn(c) PROVE Global'
  <2>1. /\ pc' = [pc EXCEPT ![c] = "idle"] /\ UNCHANGED << drr, suspended, running >>
    BY <1>12 DEF ScheduleReturn
  <2>2. ASSUME Cardinality(Scheduler) = 1, NEW u \in Thread, pc'[u] \in Scheduling
        PROVE  FALSE
    <3>1. pc[u] \in Scheduling /\ u # c
      BY <1>0, <2>1, <2>2 DEF Scheduling
    <3> QED
      BY <2>2, <3>1, OneScheduler
  <2> QED
    BY <2>1, <2>2 DEF Global
<1>13. ASSUME NEW r \in Runner, NEW k, CompleteLock(r, k) PROVE Global'
  <2>1. UNCHANGED << drr, suspended, running, avail, pass >> /\ pc' = [pc EXCEPT ![r] = "retain"]
    BY <1>13 DEF CompleteLock
  <2> QED
    BY <1>0, <1>2, <2>1 DEF Scheduling
<1>14. ASSUME NEW r \in Runner, CompleteRetain(r) PROVE Global'
  <2>1. /\ UNCHANGED << drr, suspended, avail, pass >> /\ pc' = [pc EXCEPT ![r] = "idle"]
        /\ running' = running - 1
    BY <1>14 DEF CompleteRetain, ghosts
  <2>2. \A u \in Thread : pc'[u] \in Scheduling => pc[u] \in Scheduling
    BY <1>0, <2>1 DEF Scheduling
  <2> QED
    BY <1>1, <2>1, <2>2, GlobalKept
<1> QED
  BY <1>3, <1>4, <1>5, <1>6, <1>7, <1>8, <1>9, <1>10, <1>11, <1>12, <1>13, <1>14 DEF Next, Step

-----------------------------------------------------------------------------
(* The theorems *)

LEMMA OrchestratorStart ==
  ASSUME Init
  PROVE  OrchestratorInv
<1>1. TicketInv
  BY TicketStart
<1>2. Owed = 0
  BY WeightEmpty DEF Init, Owed
<1>3. Rest \in Nat /\ Cardinality(Tenant) \in Nat /\ MaxGlobal \in Nat
      /\ Cardinality(Tenant) >= 1
  BY Constants
<1>4. Credits
  BY <1>2, <1>3 DEF Init, Credits, InPass
<1>5. Global
  BY <1>3 DEF Init, Global, Scheduling
<1> QED
  BY <1>1, <1>4, <1>5 DEF OrchestratorInv

LEMMA OrchestratorStep ==
  ASSUME OrchestratorInv, [Next]_vars
  PROVE  OrchestratorInv'
<1>1. TicketInv /\ Credits /\ Global
  BY DEF OrchestratorInv
<1>2. Typed /\ Locks /\ Passing /\ Counted
  BY <1>1 DEF TicketInv
<1>3. TicketInv'
  BY <1>1, TicketStep
<1>4. Credits'
  BY <1>1, <1>2, CreditsStep
<1>5. Global'
  BY <1>1, <1>2, GlobalStep
<1> QED
  BY <1>3, <1>4, <1>5 DEF OrchestratorInv

LEMMA OrchestratorInvariant == Spec => []OrchestratorInv
<1>1. Init => OrchestratorInv
  BY OrchestratorStart
<1>2. OrchestratorInv /\ [Next]_vars => OrchestratorInv'
  BY OrchestratorStep
<1> QED
  BY <1>1, <1>2, PTL DEF Spec

\* Every variable of the orchestrator keeps its type; in particular total_running,
\* which complete() takes one off, never becomes negative.
THEOREM OrchestratorIsTyped == Spec => []TypeOK
<1>1. ASSUME OrchestratorInv PROVE TypeOK
  <2>1. Typed /\ Counted
    BY <1>1 DEF OrchestratorInv, TicketInv
  <2>2. running \in Nat
    BY <2>1, RunningIs
  <2>3. pass \in Pass
    BY <2>1 DEF Typed
  <2>4. /\ pass.todo \subseteq Tenant /\ pass.cur \in Tenant \union {None}
        /\ pass.slots \in Nat /\ pass.count \in Nat /\ pass.ready \subseteq Tickets
    BY <2>3, PassTypes
  <2> QED
    BY <2>1, <2>2, <2>4 DEF Typed, TypeOK, ItemState
<1> QED
  BY <1>1, OrchestratorInvariant, PTL

LEMMA QueuedOnce ==
  ASSUME Typed, Once, NEW t \in DOMAIN tenants, NEW k
  PROVE  Cardinality({i \in DOMAIN tenants[t].queue : tenants[t].queue[i] = k})
           = (IF Queued(k, t) THEN 1 ELSE 0)
<1> DEFINE I == {i \in DOMAIN tenants[t].queue : tenants[t].queue[i] = k}
<1>1. PICK q : q = tenants[t].queue
  OBVIOUS
<1>2. q \in Seq(Tickets)
  BY <1>1, TenantsTyped, TypesOfFields
<1>3. DOMAIN q = 1 .. Len(q)
  BY <1>2
<1>4. CASE Queued(k, t)
  <2>1. PICK i \in 1 .. Len(q) : q[i] = k
    BY <1>1, <1>4 DEF Queued
  <2>2. \A j \in 1 .. Len(q) : q[j] = k => j = i
    BY <1>1, <2>1 DEF Once
  <2>3. I = {i}
    BY <1>1, <1>3, <2>1, <2>2
  <2> QED
    BY <1>4, <2>3, FS_Singleton
<1>5. CASE ~Queued(k, t)
  <2>1. I = {}
    BY <1>1, <1>3, <1>5 DEF Queued
  <2> QED
    BY <1>5, <2>1, FS_EmptySet
<1> QED
  BY <1>4, <1>5

\* In every interleaving of submit, schedule, complete and the administration a
\* ticket is in one place, its tenant's queue or active set or neither, as its
\* state says, and total_running is the number of active tickets.
THEOREM TicketsAreAccounted == Spec => []TicketsAccounted
<1>1. ASSUME OrchestratorInv PROVE TicketsAccounted
  <2>1. Typed /\ Once /\ Queues /\ Actives /\ Counted
    BY <1>1 DEF OrchestratorInv, TicketInv
  <2>2. DOMAIN items \subseteq Tickets
    BY <2>1 DEF Typed
  <2>3. ASSUME NEW k \in DOMAIN items, NEW t \in DOMAIN tenants
        PROVE  /\ k \in tenants[t].active <=> items[k].state = "Running" /\ items[k].tenant = t
               /\ Queued(k, t) <=> items[k].state = "Queued" /\ items[k].tenant = t
    <3>1. k \in Tickets
      BY <2>2
    <3>2. k \in tenants[t].active <=> items[k].state = "Running" /\ items[k].tenant = t
      BY <2>1, <3>1 DEF Actives
    <3>3. Queued(k, t) => items[k].state = "Queued" /\ items[k].tenant = t
      BY <2>1, <3>1 DEF Queues
    <3>4. items[k].state = "Queued" => Queued(k, items[k].tenant)
      BY <2>1 DEF Queues
    <3> QED
      BY <3>2, <3>3, <3>4
  <2>4. \A k \in DOMAIN items, t \in DOMAIN tenants :
          Cardinality({i \in DOMAIN tenants[t].queue : tenants[t].queue[i] = k})
            = (IF Queued(k, t) THEN 1 ELSE 0)
    BY <2>1, QueuedOnce
  <2>5. \A k \in DOMAIN items : items[k].state \in {"Queued", "Running"}
                                  => items[k].tenant \in DOMAIN tenants
    BY <2>1 DEF Queues, Actives
  <2>6. running = Cardinality(Active)
    BY <2>1 DEF Counted
  <2> QED
    BY <2>3, <2>4, <2>5, <2>6 DEF TicketsAccounted
<1> QED
  BY <1>1, OrchestratorInvariant, PTL

\* With one scheduler, max_global_concurrent is not exceeded without deficit
\* round-robin, and by less than the number of tenants with it as long as nobody
\* is suspended: a cycle gives out the slots it read and the credits that are
\* left of earlier cycles, which are less than a slot for each tenant.
THEOREM OvershootIsBounded == Spec => []OvershootBounded
<1>1. ASSUME OrchestratorInv PROVE OvershootBounded
  <2>1. Counted /\ Global
    BY <1>1 DEF OrchestratorInv, TicketInv
  <2> QED
    BY <2>1 DEF Counted, Global, OvershootBounded
<1> QED
  BY <1>1, OrchestratorInvariant, PTL
=============================================================================
