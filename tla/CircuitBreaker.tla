--------------------------- MODULE CircuitBreaker ---------------------------
(***************************************************************************)
(* The circuit breaker of isolate-core/src/ratelimit/circuit_breaker.rs,    *)
(* called by threads.  state, the counters and opened_at are separate locks *)
(* and atomics, so every access is a step of its own; allow_request alone   *)
(* keeps the lock of opened_at while it writes the state.                   *)
(***************************************************************************)
EXTENDS Naturals

CONSTANTS
  Thread,            \* callers
  FailureThreshold,  \* failure_threshold
  SuccessThreshold,  \* success_threshold
  MaxCount,          \* bound on failure_count and success_count
  MayReset,          \* is reset called?
  NoThread           \* no thread

ASSUME CircuitAssumption ==
  /\ FailureThreshold \in Nat /\ SuccessThreshold \in Nat
  /\ MaxCount \in Nat
  /\ MayReset \in BOOLEAN
  /\ NoThread \notin Thread

VARIABLES
  state,        \* state
  failures,     \* failure_count
  successes,    \* success_count
  lastFailure,  \* last_failure: "none", "recent", "old" (outside the window)
  openedAt,     \* opened_at: "none", "recent", "old" (open_duration ago)
  lock,         \* the thread that holds opened_at across steps
  pc,           \* pc[t]: the access t makes next
  young,        \* history: the state was set to Open less than open_duration ago
  overlapped    \* history: have two calls been in progress at the same time?

accessVars == << state, failures, successes, lastFailure, openedAt, lock, pc, young >>
breakerVars == << accessVars, overlapped >>
counters == << failures, successes >>
times == << lastFailure, openedAt >>

\* The access a thread makes next, named after the method it is in.
PCs == {"idle", "allow_check", "allow_write", "allow_store",
        "success_count", "success_write", "success_failures", "success_store",
        "success_window", "failure_count", "failure_last", "failure_last_trip",
        "failure_write", "failure_opened", "reopen_write", "reopen_opened",
        "reopen_store", "reset_failures", "reset_successes", "reset_opened"}

Goto(t, label) == pc' = [pc EXCEPT ![t] = label]

-----------------------------------------------------------------------------
BreakerInit ==
  /\ state = "Closed"
  /\ failures = 0 /\ successes = 0
  /\ lastFailure = "none" /\ openedAt = "none"
  /\ lock = NoThread
  /\ pc = [t \in Thread |-> "idle"]
  /\ young = FALSE
  /\ overlapped = FALSE

\* *self.state.write() = Open.
WriteOpen == state' = "Open" /\ young' = TRUE

-----------------------------------------------------------------------------
(* allow_request *)

\* In the other two states the request is let through and nothing changes.
AllowRead(t) ==
  /\ pc[t] = "idle" /\ state = "Open"
  /\ Goto(t, "allow_check")
  /\ UNCHANGED << state, counters, times, lock, young >>

\* The lock of opened_at is kept when open_duration has passed.
AllowCheck(t) ==
  /\ pc[t] = "allow_check" /\ lock = NoThread
  /\ IF openedAt = "old"
     THEN lock' = t /\ Goto(t, "allow_write")
     ELSE Goto(t, "idle") /\ UNCHANGED lock
  /\ UNCHANGED << state, counters, times, young >>

AllowWrite(t) ==
  /\ pc[t] = "allow_write"
  /\ state' = "HalfOpen"
  /\ Goto(t, "allow_store")
  /\ UNCHANGED << counters, times, lock, young >>

AllowStore(t) ==
  /\ pc[t] = "allow_store"
  /\ successes' = 0
  /\ lock' = NoThread
  /\ Goto(t, "idle")
  /\ UNCHANGED << state, failures, times, young >>

-----------------------------------------------------------------------------
(* record_success *)

SuccessRead(t) ==
  /\ pc[t] = "idle" /\ state # "Open"
  /\ Goto(t, IF state = "HalfOpen" THEN "success_count" ELSE "success_window")
  /\ UNCHANGED << state, counters, times, lock, young >>

\* Mutant: the first success closes the circuit.
SuccessCountFirst(t) ==
  /\ pc[t] = "success_count"
  /\ successes < MaxCount
  /\ successes' = successes + 1
  /\ Goto(t, "success_write")
  /\ UNCHANGED << state, failures, times, lock, young >>

SuccessCount(t) ==
  /\ pc[t] = "success_count"
  /\ successes < MaxCount
  /\ successes' = successes + 1
  /\ Goto(t, IF successes + 1 >= SuccessThreshold THEN "success_write" ELSE "idle")
  /\ UNCHANGED << state, failures, times, lock, young >>

SuccessWrite(t) ==
  /\ pc[t] = "success_write"
  /\ state' = "Closed"
  /\ Goto(t, "success_failures")
  /\ UNCHANGED << counters, times, lock, young >>

\* Mutant: the failures that tripped the breaker are subtracted.
SuccessFailuresSub(t) ==
  /\ pc[t] = "success_failures"
  /\ failures' = failures - FailureThreshold
  /\ Goto(t, "success_store")
  /\ UNCHANGED << state, successes, times, lock, young >>

SuccessFailures(t) ==
  /\ pc[t] = "success_failures"
  /\ failures' = 0
  /\ Goto(t, "success_store")
  /\ UNCHANGED << state, successes, times, lock, young >>

SuccessStore(t) ==
  /\ pc[t] = "success_store"
  /\ successes' = 0
  /\ Goto(t, "idle")
  /\ UNCHANGED << state, failures, times, lock, young >>

\* A success in the closed state clears failures older than the window.
SuccessWindow(t) ==
  /\ pc[t] = "success_window"
  /\ failures' = IF lastFailure = "old" THEN 0 ELSE failures
  /\ Goto(t, "idle")
  /\ UNCHANGED << state, successes, times, lock, young >>

-----------------------------------------------------------------------------
(* record_failure *)

FailureRead(t) ==
  /\ pc[t] = "idle" /\ state # "Open"
  /\ Goto(t, IF state = "HalfOpen" THEN "reopen_write" ELSE "failure_count")
  /\ UNCHANGED << state, counters, times, lock, young >>

\* Mutant: the threshold is passed, not reached.
FailureCountStrict(t) ==
  /\ pc[t] = "failure_count"
  /\ failures < MaxCount
  /\ failures' = failures + 1
  /\ Goto(t, IF failures + 1 > FailureThreshold THEN "failure_last_trip" ELSE "failure_last")
  /\ UNCHANGED << state, successes, times, lock, young >>

FailureCount(t) ==
  /\ pc[t] = "failure_count"
  /\ failures < MaxCount
  /\ failures' = failures + 1
  /\ Goto(t, IF failures + 1 >= FailureThreshold THEN "failure_last_trip" ELSE "failure_last")
  /\ UNCHANGED << state, successes, times, lock, young >>

FailureLast(t) ==
  /\ pc[t] \in {"failure_last", "failure_last_trip"}
  /\ lastFailure' = "recent"
  /\ Goto(t, IF pc[t] = "failure_last_trip" THEN "failure_write" ELSE "idle")
  /\ UNCHANGED << state, counters, openedAt, lock, young >>

FailureWrite(t) ==
  /\ pc[t] = "failure_write"
  /\ WriteOpen
  /\ Goto(t, "failure_opened")
  /\ UNCHANGED << counters, times, lock >>

\* Mutant: the time is not recorded.
FailureOpenedSkip(t) ==
  /\ pc[t] = "failure_opened" /\ lock = NoThread
  /\ Goto(t, "idle")
  /\ UNCHANGED << state, counters, times, lock, young >>

FailureOpened(t) ==
  /\ pc[t] = "failure_opened" /\ lock = NoThread
  /\ openedAt' = "recent"
  /\ Goto(t, "idle")
  /\ UNCHANGED << state, counters, lastFailure, lock, young >>

ReopenWrite(t) ==
  /\ pc[t] = "reopen_write"
  /\ WriteOpen
  /\ Goto(t, "reopen_opened")
  /\ UNCHANGED << counters, times, lock >>

ReopenOpened(t) ==
  /\ pc[t] = "reopen_opened" /\ lock = NoThread
  /\ openedAt' = "recent"
  /\ Goto(t, "reopen_store")
  /\ UNCHANGED << state, counters, lastFailure, lock, young >>

ReopenStore(t) ==
  /\ pc[t] = "reopen_store"
  /\ successes' = 0
  /\ Goto(t, "idle")
  /\ UNCHANGED << state, failures, times, lock, young >>

-----------------------------------------------------------------------------
(* reset *)

ResetWrite(t) ==
  /\ MayReset
  /\ pc[t] = "idle"
  /\ state' = "Closed"
  /\ Goto(t, "reset_failures")
  /\ UNCHANGED << counters, times, lock, young >>

ResetFailures(t) ==
  /\ pc[t] = "reset_failures"
  /\ failures' = 0
  /\ Goto(t, "reset_successes")
  /\ UNCHANGED << state, successes, times, lock, young >>

ResetSuccesses(t) ==
  /\ pc[t] = "reset_successes"
  /\ successes' = 0
  /\ Goto(t, "reset_opened")
  /\ UNCHANGED << state, failures, times, lock, young >>

ResetOpened(t) ==
  /\ pc[t] = "reset_opened" /\ lock = NoThread
  /\ openedAt' = "none"
  /\ Goto(t, "idle")
  /\ UNCHANGED << state, counters, lastFailure, lock, young >>

-----------------------------------------------------------------------------
\* open_duration passes.  A time recorded by an earlier trip is no younger than
\* the last one, so it becomes old with it at the latest.
OpenElapses ==
  /\ young' = FALSE
  /\ openedAt' = IF openedAt = "recent" THEN "old" ELSE openedAt
  /\ UNCHANGED << state, counters, lastFailure, lock, pc >>

\* window_duration passes.
WindowElapses ==
  /\ lastFailure = "recent" /\ lastFailure' = "old"
  /\ UNCHANGED << state, counters, openedAt, lock, pc, young >>

\* What a call does once it has read the state.
Continue(t) ==
  \/ AllowCheck(t) \/ AllowWrite(t) \/ AllowStore(t)
  \/ SuccessCount(t) \/ SuccessWrite(t) \/ SuccessFailures(t) \/ SuccessStore(t)
  \/ SuccessWindow(t)
  \/ FailureCount(t) \/ FailureLast(t) \/ FailureWrite(t) \/ FailureOpened(t)
  \/ ReopenWrite(t) \/ ReopenOpened(t) \/ ReopenStore(t)
  \/ ResetFailures(t) \/ ResetSuccesses(t) \/ ResetOpened(t)

BreakerStep ==
  \/ \E t \in Thread : AllowRead(t) \/ SuccessRead(t) \/ FailureRead(t) \/ ResetWrite(t)
                       \/ Continue(t)
  \/ OpenElapses
  \/ WindowElapses

\* At most one call is in progress, whichever thread makes it.
Serial == \A t, u \in Thread : pc[t] # "idle" /\ pc[u] # "idle" => t = u

BreakerNext == BreakerStep /\ overlapped' = (overlapped \/ ~Serial')

BreakerSpec == BreakerInit /\ [][BreakerNext]_breakerVars

\* Calls run to their end, time passes, and requests keep coming.
FairBreakerSpec ==
  /\ BreakerSpec
  /\ \A t \in Thread : WF_accessVars(Continue(t)) /\ SF_accessVars(AllowRead(t))
  /\ WF_accessVars(OpenElapses)

-----------------------------------------------------------------------------
(* Properties *)

BreakerTypeOK ==
  /\ state \in {"Closed", "Open", "HalfOpen"}
  /\ failures \in 0 .. MaxCount /\ successes \in 0 .. MaxCount
  /\ lastFailure \in {"none", "recent", "old"} /\ openedAt \in {"none", "recent", "old"}
  /\ lock \in Thread \cup {NoThread}
  /\ pc \in [Thread -> PCs]
  /\ young \in BOOLEAN /\ overlapped \in BOOLEAN

\* A count that a thread is about to clear is void.
Clearing == {"success_failures", "reset_failures"}

MachineCount ==
  IF state = "HalfOpen" THEN successes
  ELSE IF state = "Open" \/ \E t \in Thread : pc[t] \in Clearing THEN 0
  ELSE failures

InReset == \E t \in Thread : pc[t] \in {"reset_failures", "reset_successes", "reset_opened"}

Machine == INSTANCE CircuitMachine WITH count <- MachineCount, resetting <- InReset

\* As long as no two calls overlap, whichever threads make them, the breaker
\* implements the three-state machine: it trips at the threshold of failures or
\* on one while recovery is tested, tests recovery only from Open and after
\* open_duration, and closes only at the threshold of successes or once per
\* reset.  A call that overlaps another writes a state that it has not read.
ImplementsMachine ==
  Machine!MachineInit /\ [][~overlapped' => Machine!MachineNext]_(Machine!machineVars)

\* A threshold that is reached is acted upon, however calls and resets
\* overlap: a breaker that is Closed with its threshold of failures has a
\* thread about to open it or to clear the count, and a threshold of
\* successes has a thread about to close it or to clear the count.
CountsSettle ==
  /\ state = "Closed" /\ failures > 0 /\ failures >= FailureThreshold =>
       \E t \in Thread : pc[t] \in Clearing \cup {"failure_last_trip", "failure_write"}
  /\ successes > 0 /\ successes >= SuccessThreshold =>
       \E t \in Thread : pc[t] \in {"success_write", "success_failures", "success_store"}

\* "Automatic recovery": an open breaker tests recovery in the end, whatever
\* stale states the callers write over each other, unless a failure overtakes
\* a reset, which then takes away the time at which the breaker was opened.
Recovers ==
  [](state = "Open" => ~InReset) => ((state = "Open") ~> (state # "Open"))
=============================================================================
