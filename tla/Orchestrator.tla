---------------------------- MODULE Orchestrator ----------------------------
(***************************************************************************)
(* The multi-tenant orchestrator of isolate-core/src/orchestrator/          *)
(* scheduler.rs.  Its tenants and its items are behind two locks: submit and *)
(* schedule take tenants and then items, complete takes items and then      *)
(* tenants.  total_running is an atomic that schedule reads before it takes *)
(* any lock.  Credits (f64 in the code) are counted in 1/Scale of a slot.   *)
(***************************************************************************)
EXTENDS Integers, Sequences, FiniteSets, FiniteSetsExt

CONSTANTS
  Tenant,        \* tenant ids
  Submitter,     \* threads that call submit
  Scheduler,     \* threads that call schedule
  Runner,        \* threads that run tickets and call complete
  MaxGlobal,     \* max_global_concurrent
  MaxQueue,      \* max_queue_depth
  MaxTickets,    \* bound on the submissions
  Limits,        \* the values of max_concurrent
  Priorities,    \* the values of priority
  RateLimit,     \* rate_limit
  Scale,         \* units of credit in one slot
  UsizeValues,   \* number of values of usize
  None           \* no thread, no tenant

Thread == Submitter \union Scheduler \union Runner

ASSUME OrchestratorAssumption ==
  /\ IsFiniteSet(Tenant) /\ Tenant # {} /\ IsFiniteSet(Thread)
  /\ MaxGlobal \in Nat /\ MaxQueue \in Nat /\ MaxTickets \in Nat
  /\ Limits \subseteq Nat /\ Priorities \subseteq Nat /\ RateLimit \in Nat
  /\ Scale \in Nat \ {0} /\ UsizeValues \in Nat \ {0}
  /\ None \notin Thread \union Tenant

VARIABLES
  drr,        \* config.deficit_round_robin
  tenants,    \* tenants: the registered tenants and their state
  items,      \* items: tenant and state of every submitted ticket
  running,    \* total_running
  lockT,      \* the thread that holds tenants across steps
  lockI,      \* the thread that holds items across steps
  pc,         \* pc[t]: what thread t does next
  ticket,     \* ticket[t]: the ticket t submits or completes
  avail,      \* avail[t]: available_slots of scheduler t
  pass,       \* the locals of the schedule() that holds both locks
  issued,     \* number of tickets created
  ready,      \* tickets schedule() has returned and nobody has completed
  suspended   \* history: has a tenant ever been suspended?

vars == << drr, tenants, items, running, lockT, lockI, pc, ticket, avail,
           pass, issued, ready, suspended >>
locals == << ticket, avail, pass >>
ghosts == << issued, ready, suspended >>

Tickets == 1 .. MaxTickets
NoPass == [todo |-> {}, cur |-> None, slots |-> 0, count |-> 0, ready |-> {}]

Goto(t, label) == pc' = [pc EXCEPT ![t] = label]

Init ==
  /\ drr \in BOOLEAN
  /\ tenants = << >> /\ items = << >>
  /\ running = 0
  /\ lockT = None /\ lockI = None
  /\ pc = [t \in Thread |-> "idle"]
  /\ ticket = [t \in Submitter \union Runner |-> 0]
  /\ avail = [t \in Scheduler |-> 0]
  /\ pass = NoPass
  /\ issued = 0 /\ ready = {} /\ suspended = FALSE

-----------------------------------------------------------------------------
(* Tenant administration: under the tenants lock only, by any thread. *)

\* tenants.write() and what is stored in it, in one step.
WithTenants(new) ==
  /\ lockT = None
  /\ tenants' = new
  /\ UNCHANGED << drr, items, running, lockT, lockI, pc, locals, issued, ready >>

RegisterTenant(t) ==
  \E max \in Limits, prio \in Priorities :
    /\ t \notin DOMAIN tenants
    /\ WithTenants([u \in DOMAIN tenants \union {t} |->
         IF u # t THEN tenants[u]
         ELSE [status |-> "Active", max |-> max, priority |-> prio,
               queue |-> << >>, active |-> {}, deficit |-> 0, recent |-> 0]])
    /\ UNCHANGED suspended

UpdateTenant(t) ==
  \E max \in Limits, prio \in Priorities :
    /\ t \in DOMAIN tenants
    /\ WithTenants([tenants EXCEPT ![t].max = max, ![t].priority = prio])
    /\ UNCHANGED suspended

SuspendTenant(t) ==
  /\ t \in DOMAIN tenants
  /\ WithTenants([tenants EXCEPT ![t].status = "Suspended"])
  /\ suspended' = TRUE

ResumeTenant(t) ==
  /\ t \in DOMAIN tenants
  /\ WithTenants([tenants EXCEPT ![t].status = "Active"])
  /\ UNCHANGED suspended

\* Refused while the tenant has queued or active tickets.
RemoveTenant(t) ==
  /\ t \in DOMAIN tenants
  /\ tenants[t].active = {} /\ tenants[t].queue = << >>
  /\ WithTenants([u \in DOMAIN tenants \ {t} |-> tenants[u]])
  /\ UNCHANGED suspended

-----------------------------------------------------------------------------
(* submit *)

\* check_rate_limit: the count starts anew only when the previous attempt is a
\* second old; it is counted up to a value that is refused whatever the limit.
Attempts(t, secondAgo) ==
  IF secondAgo \/ tenants[t].recent = 0 THEN 1
  ELSE Min({tenants[t].recent + 1, RateLimit + 2})

\* A ticket is queued with the tenants lock, which is kept while items is waited
\* for.  A refused submission leaves only the attempt counted.
SubmitQueue(s, t) ==
  /\ pc[s] = "idle" /\ lockT = None
  /\ t \in DOMAIN tenants /\ tenants[t].status = "Active"
  /\ \E secondAgo \in BOOLEAN :
       LET n == Attempts(t, secondAgo)
           accepted == /\ n <= RateLimit \/ n = 1
                       /\ Len(tenants[t].queue) < MaxQueue
       IN  IF accepted
           THEN /\ issued < MaxTickets
                /\ issued' = issued + 1
                /\ tenants' = [tenants EXCEPT
                     ![t].recent = n, ![t].queue = Append(@, issued + 1)]
                /\ ticket' = [ticket EXCEPT ![s] = issued + 1]
                /\ lockT' = s
                /\ Goto(s, "insert")
           ELSE /\ tenants' = [tenants EXCEPT ![t].recent = n]
                /\ UNCHANGED << issued, ticket, lockT, pc >>
  /\ UNCHANGED << drr, items, running, lockI, avail, pass, ready, suspended >>

\* The tenant whose queue the thread has just extended.
QueuedBy(k) == CHOOSE t \in DOMAIN tenants :
                 \E i \in 1 .. Len(tenants[t].queue) : tenants[t].queue[i] = k

SubmitInsert(s) ==
  /\ pc[s] = "insert" /\ lockI = None
  /\ items' = [k \in DOMAIN items \union {ticket[s]} |->
       IF k = ticket[s] THEN [tenant |-> QueuedBy(k), state |-> "Queued"]
       ELSE items[k]]
  /\ lockT' = None
  /\ ticket' = [ticket EXCEPT ![s] = 0]
  /\ Goto(s, "idle")
  /\ UNCHANGED << drr, tenants, running, lockI, avail, pass, ghosts >>

-----------------------------------------------------------------------------
(* schedule *)

\* Mutant: what runs already is not taken off.
ScheduleLoadAll(c) ==
  /\ pc[c] = "idle"
  /\ avail' = [avail EXCEPT ![c] = MaxGlobal]
  /\ Goto(c, "tenants")
  /\ UNCHANGED << drr, tenants, items, running, lockT, lockI, ticket, pass, ghosts >>

\* total_running is read before the locks; at the limit nothing is scheduled.
ScheduleLoad(c) ==
  /\ pc[c] = "idle" /\ running < MaxGlobal
  /\ avail' = [avail EXCEPT ![c] = MaxGlobal - running]
  /\ Goto(c, "tenants")
  /\ UNCHANGED << drr, tenants, items, running, lockT, lockI, ticket, pass, ghosts >>

ScheduleLock(c) ==
  /\ pc[c] = "tenants" /\ lockT = None
  /\ lockT' = c
  /\ Goto(c, "items")
  /\ UNCHANGED << drr, tenants, items, running, lockI, locals, ghosts >>

\* Tenants that take part in the round of credits.
Waiting == {t \in DOMAIN tenants :
              tenants[t].status = "Active" /\ tenants[t].queue # << >>}
\* The sum of their priorities, counted one by one.
TotalPriority == Cardinality(UNION {{t} \X (1 .. tenants[t].priority) : t \in Waiting})

\* The share of the available slots that a waiting tenant is credited with.
Credit(c, t) ==
  IF drr /\ t \in Waiting
  THEN (tenants[t].priority * avail[c] * Scale) \div TotalPriority ELSE 0

ScheduleCredit(c) ==
  /\ pc[c] = "items" /\ lockI = None
  /\ IF drr /\ TotalPriority = 0
     THEN /\ lockT' = None
          /\ avail' = [avail EXCEPT ![c] = 0]
          /\ Goto(c, "idle")
          /\ UNCHANGED << tenants, lockI, pass >>
     ELSE /\ lockI' = c
          /\ tenants' = [t \in DOMAIN tenants |->
               [tenants[t] EXCEPT !.deficit = @ + Credit(c, t)]]
          /\ pass' = [NoPass EXCEPT !.todo = DOMAIN tenants]
          /\ Goto(c, "pick")
          /\ UNCHANGED << lockT, avail >>
  /\ UNCHANGED << drr, items, running, ticket, ghosts >>

\* max_concurrent - active.len(), in usize: it wraps when update_tenant has
\* lowered max_concurrent below what is active.
Headroom(t) == (tenants[t].max - Cardinality(tenants[t].active)) % UsizeValues

Slots(c, t) ==
  IF drr THEN Min({tenants[t].deficit \div Scale, Headroom(t)})
  ELSE Min({Headroom(t), avail[c] - pass.count})

\* One turn of the loop over the tenants, in the map's order; the whole credits
\* of the tenant are spent whether or not its slots can be used.
SchedulePick(c) ==
  /\ pc[c] = "pick" /\ pass.count < avail[c]
  /\ \E t \in pass.todo :
       IF tenants[t].status = "Active"
       THEN /\ pass' = [pass EXCEPT !.todo = @ \ {t}, !.cur = t, !.slots = Slots(c, t)]
            /\ tenants' = [tenants EXCEPT ![t].deficit = IF drr THEN @ % Scale ELSE @]
            /\ Goto(c, "take")
       ELSE /\ pass' = [pass EXCEPT !.todo = @ \ {t}]
            /\ UNCHANGED << tenants, pc >>
  /\ UNCHANGED << drr, items, running, lockT, lockI, ticket, avail, ghosts >>

\* Mutants: total_running is not raised; the loop ends when the slots are used up
\* and not when the queue is empty.
ScheduleTakeUncounted(c) ==
  /\ pc[c] = "take"
  /\ LET t == pass.cur
         k == Head(tenants[t].queue)
     IN  IF pass.slots > 0 /\ tenants[t].queue # << >>
         THEN /\ tenants' = [tenants EXCEPT ![t].queue = Tail(@),
                                            ![t].active = @ \union {k}]
              /\ items' = [items EXCEPT ![k].state = "Running"]
              /\ pass' = [pass EXCEPT !.slots = @ - 1, !.count = @ + 1,
                                      !.ready = @ \union {k}]
              /\ UNCHANGED pc
         ELSE /\ Goto(c, "pick")
              /\ UNCHANGED << tenants, items, pass >>
  /\ UNCHANGED << drr, running, lockT, lockI, ticket, avail, ghosts >>
ScheduleTakeSpinning(c) ==
  /\ pc[c] = "take" /\ pass.slots = 0
  /\ Goto(c, "pick")
  /\ UNCHANGED << drr, tenants, items, running, lockT, lockI, ticket, avail, pass, ghosts >>

\* One turn of the loop over the slots of a tenant.
ScheduleTake(c) ==
  /\ pc[c] = "take"
  /\ LET t == pass.cur
         k == Head(tenants[t].queue)
     IN  IF pass.slots > 0 /\ tenants[t].queue # << >>
         THEN /\ tenants' = [tenants EXCEPT ![t].queue = Tail(@),
                                            ![t].active = @ \union {k}]
              /\ items' = [j \in DOMAIN items |->
                   IF j = k THEN [items[j] EXCEPT !.state = "Running"] ELSE items[j]]
              /\ running' = running + 1
              /\ pass' = [pass EXCEPT !.slots = @ - 1, !.count = @ + 1,
                                      !.ready = @ \union {k}]
              /\ UNCHANGED pc
         ELSE /\ Goto(c, "pick")
              /\ pass' = [pass EXCEPT !.cur = None, !.slots = 0]
              /\ UNCHANGED << tenants, items, running >>
  /\ UNCHANGED << drr, lockT, lockI, ticket, avail, ghosts >>

\* The pass over starving tickets that follows only logs.
ScheduleReturn(c) ==
  /\ pc[c] = "pick"
  /\ pass.count >= avail[c] \/ pass.todo = {}
  /\ lockT' = None /\ lockI' = None
  /\ ready' = ready \union pass.ready
  /\ pass' = NoPass
  /\ avail' = [avail EXCEPT ![c] = 0]
  /\ Goto(c, "idle")
  /\ UNCHANGED << drr, tenants, items, running, ticket, issued, suspended >>

-----------------------------------------------------------------------------
(* complete, which each ticket that schedule() returned gets once *)

CompleteLock(r, k) ==
  /\ pc[r] = "idle" /\ lockI = None
  /\ k \in ready
  /\ ready' = ready \ {k}
  /\ lockI' = r
  /\ ticket' = [ticket EXCEPT ![r] = k]
  /\ Goto(r, "retain")
  /\ UNCHANGED << drr, tenants, items, running, lockT, avail, pass, issued, suspended >>

\* Mutant: the ticket stays among the active ones.
CompleteWithoutRetain(r) ==
  /\ pc[r] = "retain" /\ lockT = None
  /\ items' = [items EXCEPT ![ticket[r]].state = "Done"]
  /\ running' = running - 1
  /\ lockI' = None
  /\ ticket' = [ticket EXCEPT ![r] = 0]
  /\ Goto(r, "idle")
  /\ UNCHANGED << drr, tenants, lockT, avail, pass, ghosts >>

\* Completed and Failed are both "Done": they differ in the statistics only.
CompleteRetain(r) ==
  /\ pc[r] = "retain" /\ lockT = None
  /\ LET k == ticket[r]
         t == items[k].tenant
     IN  /\ items' = [items EXCEPT ![k].state = "Done"]
         /\ tenants' = IF t \in DOMAIN tenants
                       THEN [tenants EXCEPT ![t].active = @ \ {k}] ELSE tenants
  /\ running' = running - 1
  /\ lockI' = None
  /\ ticket' = [ticket EXCEPT ![r] = 0]
  /\ Goto(r, "idle")
  /\ UNCHANGED << drr, lockT, avail, pass, ghosts >>

-----------------------------------------------------------------------------
Admin(t) == \/ RegisterTenant(t) \/ UpdateTenant(t) \/ RemoveTenant(t)
            \/ SuspendTenant(t) \/ ResumeTenant(t)

Step(t) == \/ t \in Submitter /\ (SubmitInsert(t) \/ \E u \in Tenant : SubmitQueue(t, u))
           \/ t \in Scheduler /\ \/ ScheduleLoad(t) \/ ScheduleLock(t)
                                 \/ ScheduleCredit(t) \/ SchedulePick(t)
                                 \/ ScheduleTake(t) \/ ScheduleReturn(t)
           \/ t \in Runner /\ (CompleteRetain(t) \/ \E k \in Tickets : CompleteLock(t, k))

Next == (\E t \in Tenant : Admin(t)) \/ (\E t \in Thread : Step(t))

Spec == Init /\ [][Next]_vars

\* A thread inside an operation keeps running, and the parking_lot locks it waits
\* for are handed over fairly: it is not overtaken for ever.
FairSpec == Spec /\ \A t \in Thread : SF_vars(pc[t] # "idle" /\ Step(t))

-----------------------------------------------------------------------------
Statuses == {"Active", "Suspended"}
PCs == {"idle", "insert", "tenants", "items", "pick", "take", "retain"}
TenantState ==
  [status : Statuses, max : Limits, priority : Priorities, queue : Seq(Tickets),
   active : SUBSET Tickets, deficit : Nat, recent : 0 .. RateLimit + 2]

TypeOK ==
  /\ drr \in BOOLEAN /\ suspended \in BOOLEAN
  /\ DOMAIN tenants \subseteq Tenant
  /\ \A t \in DOMAIN tenants : tenants[t] \in TenantState
  /\ DOMAIN items \subseteq Tickets
  /\ \A k \in DOMAIN items : items[k] \in
       [tenant : Tenant, state : {"Queued", "Running", "Done"}]
  /\ running \in Nat
  /\ lockT \in Thread \union {None} /\ lockI \in Thread \union {None}
  /\ pc \in [Thread -> PCs]
  /\ ticket \in [Submitter \union Runner -> 0 .. MaxTickets]
  /\ avail \in [Scheduler -> 0 .. MaxGlobal]
  /\ pass.todo \subseteq Tenant /\ pass.cur \in Tenant \union {None}
  /\ pass.slots \in Nat /\ pass.count \in Nat /\ pass.ready \subseteq Tickets
  /\ issued \in 0 .. MaxTickets /\ ready \subseteq Tickets

-----------------------------------------------------------------------------
(* Properties *)

Active == UNION {tenants[t].active : t \in DOMAIN tenants}

\* No ticket is lost, run twice or run for a tenant it was not submitted to,
\* whatever the order of submit, schedule, complete and the administration: in
\* every state a ticket of items is at one place, in the queue or among the
\* active of its own tenant or nowhere, exactly as its state says, and
\* total_running counts the active ones, which schedule() relies on.
TicketsAccounted ==
  /\ \A k \in DOMAIN items, t \in DOMAIN tenants :
       /\ k \in tenants[t].active <=> items[k].state = "Running" /\ items[k].tenant = t
       /\ Cardinality({i \in DOMAIN tenants[t].queue : tenants[t].queue[i] = k})
            = (IF items[k].state = "Queued" /\ items[k].tenant = t THEN 1 ELSE 0)
  /\ running = Cardinality(Active)
  /\ \A k \in DOMAIN items : items[k].state \in {"Queued", "Running"}
                               => items[k].tenant \in DOMAIN tenants

\* max_global_concurrent is exceeded by less than the number of tenants as long
\* as one thread schedules and no tenant is suspended, whose credits would be
\* kept: the credits left by a cycle are less than one slot per tenant.  Without
\* deficit round-robin it is not exceeded.
OvershootBounded ==
  Cardinality(Scheduler) = 1 /\ (drr => ~suspended) =>
    Cardinality(Active) <= MaxGlobal + (IF drr THEN Cardinality(Tenant) - 1 ELSE 0)

\* One thread holds tenants and waits for items, another the reverse.
Crossed == lockT # None /\ lockI # None /\ lockT # lockI

\* An operation returns unless a complete() has met a submit() or a schedule()
\* in the opposite order of the two locks, where both wait for ever.
ReturnsUnlessCrossed ==
  \A t \in Thread : pc[t] # "idle" ~> pc[t] = "idle" \/ Crossed
=============================================================================
