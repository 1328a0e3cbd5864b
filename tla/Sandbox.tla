------------------------------ MODULE Sandbox ------------------------------
(***************************************************************************)
(* The lifecycle of one `Sandbox` (isolate-core/src/sandbox.rs): create,    *)
(* run, call, run_streaming, run_batch, terminate and reset, with the       *)
(* guest executions they start on the blocking pool, the rate limiter of    *)
(* ratelimit/ and the run counters of metrics.rs.                           *)
(*                                                                          *)
(* Every operation takes &mut self, so at most one of them is in progress:  *)
(* `method` is the operation whose future holds the borrow.  Guest code     *)
(* runs concurrently with it.  A caller may drop the future of run or       *)
(* run_batch at its await (a timeout or select! around it); the guest goes  *)
(* on running, because a blocking task cannot be cancelled.                 *)
(***************************************************************************)
EXTENDS Naturals, FiniteSets

CONSTANTS
  Exec,          \* identities of guest executions; bounds how many happen
  MaxResets,     \* bound: how often reset() may succeed
  MaxTicks,      \* bound: how often the clock may advance
  Limited,       \* config.rate_limit.is_enabled()
  QuotaMax,      \* max_executions_per_hour
  Burst,         \* capacity of the token bucket
  Rate,          \* tokens added per second
  HasFuel,       \* config.resources.cpu.fuel is set
  HasWallTime    \* config.resources.time.wall_time is set

ASSUME ConstantsAssumption ==
  /\ IsFiniteSet(Exec)
  /\ MaxResets \in Nat
  /\ MaxTicks \in Nat
  /\ Limited \in BOOLEAN
  /\ QuotaMax \in Nat
  /\ Burst \in Nat
  /\ Rate \in Nat
  /\ HasFuel \in BOOLEAN
  /\ HasWallTime \in BOOLEAN

VARIABLES
  state,         \* SandboxState; "Absent" until create() returns
  method,        \* operation whose future borrows the sandbox, or "idle"
  awaited,       \* executions whose handles that operation awaits
  phase,         \* phase[e]: where guest execution e is
  kind,          \* kind[e]: the operation that started e
  timed,         \* executions with an epoch deadline
  usesMeter,     \* usesMeter[e]: the ResourceMeter e reports to, 0 = its own
  usesLimiter,   \* usesLimiter[e]: the limiter handle e was given, 0 = none
  meter,         \* identity of self.meter
  limiter,       \* identity of self.rate_limiter
  instance,      \* meter of the instance call() keeps, 0 when there is none
  tokens,        \* tokens[l]: tokens left in limiter l's bucket
  executions,    \* executions[l]: executions recorded in l's quota window
  runCount,      \* metrics.run_count
  announced,     \* executions whose RunStarted hook ran
  concluded,     \* executions whose RunCompleted or RunFailed hook ran
  logged,        \* executions with a trace in execution_log
  ticks          \* how often the clock advanced

vars == << state, method, awaited, phase, kind, timed, usesMeter,
           usesLimiter, meter, limiter, instance, tokens, executions,
           runCount, announced, concluded, logged, ticks >>

guestVars == << kind, timed, usesMeter, usesLimiter >>
limitVars == << tokens, executions >>
handleVars == << meter, limiter, instance >>
recordVars == << runCount, announced, concluded, logged >>

-----------------------------------------------------------------------------
(* Shapes of the state *)

States  == {"Absent", "Ready", "Running", "Terminated"}
Methods == {"idle", "run", "call", "batch"}
Kinds   == {"none", "run", "call", "stream", "batch"}
Handles == 0 .. (MaxResets + 1)

\* queued: a spawned batch task that has not instantiated yet; live: guest
\* code runs; ok, err, panic: it returned and nobody has looked at it yet;
\* done: its operation has dealt with the result.
Phases == {"unused", "queued", "live", "ok", "err", "panic", "done"}
Returned == {"ok", "err", "panic"}

Live(e) == phase[e] = "live"

-----------------------------------------------------------------------------
(* The rate limiter (ratelimit/mod.rs, quota.rs, token_bucket.rs) *)

\* Mutant: the bucket is not asked.
MayAcquireQuotaOnly == Limited => executions[limiter] < QuotaMax

\* try_acquire: the quota is only checked, then one bucket token is taken.
MayAcquire == Limited => executions[limiter] < QuotaMax /\ tokens[limiter] >= 1

Acquire ==
  /\ MayAcquire
  /\ tokens' = IF Limited
               THEN [tokens EXCEPT ![limiter] = @ - 1]
               ELSE tokens
  /\ UNCHANGED executions

\* record_execution on the limiter handle l.
RecordExecution(l) ==
  executions' = IF Limited THEN [executions EXCEPT ![l] = @ + 1] ELSE executions

-----------------------------------------------------------------------------
(* create_with_engine *)

Init ==
  /\ state = "Absent"
  /\ method = "idle"
  /\ awaited = {}
  /\ phase = [e \in Exec |-> "unused"]
  /\ kind = [e \in Exec |-> "none"]
  /\ timed = {}
  /\ usesMeter = [e \in Exec |-> 0]
  /\ usesLimiter = [e \in Exec |-> 0]
  /\ meter = 0
  /\ limiter = 0
  /\ instance = 0
  /\ tokens = [l \in Handles |-> Burst]
  /\ executions = [l \in Handles |-> 0]
  /\ runCount = 0
  /\ announced = {}
  /\ concluded = {}
  /\ logged = {}
  /\ ticks = 0

\* The sandbox is handed out Ready; when compilation fails there is none.
Create ==
  /\ state = "Absent"
  /\ state' = "Ready"
  /\ meter' = 1
  /\ limiter' = 1
  /\ UNCHANGED << method, awaited, phase, instance, ticks >>
  /\ UNCHANGED << guestVars, limitVars, recordVars >>

-----------------------------------------------------------------------------
(* Starting guest code *)

\* The caller may start an operation that needs the sandbox Ready.
Callable == method = "idle" /\ state = "Ready"

\* Execution e starts in phase p, reporting to meter m, holding limiter l.
Start(e, k, p, dl, m, l) ==
  /\ phase[e] = "unused"
  /\ phase' = [phase EXCEPT ![e] = p]
  /\ kind' = [kind EXCEPT ![e] = k]
  /\ timed' = IF dl THEN timed \cup {e} ELSE timed
  /\ usesMeter' = [usesMeter EXCEPT ![e] = m]
  /\ usesLimiter' = [usesLimiter EXCEPT ![e] = l]

\* run() up to its await: instantiate, set the deadline, spawn the guest.
RunEnter(e) ==
  /\ Callable
  /\ Acquire
  /\ state' = "Running"
  /\ method' = "run"
  /\ awaited' = {e}
  /\ announced' = announced \cup {e}
  /\ Start(e, "run", "live", HasWallTime, meter, limiter)
  /\ UNCHANGED << handleVars, runCount, concluded, logged, ticks >>

\* run() or run_streaming() when instantiation fails: the `?` returns after
\* the state was set to Running and RunStarted was announced.
EnterFails(e, k) ==
  /\ Callable
  /\ Acquire
  /\ state' = "Running"
  /\ announced' = announced \cup {e}
  /\ Start(e, k, "done", FALSE, 0, 0)
  /\ UNCHANGED << method, awaited, handleVars, runCount, concluded, logged, ticks >>

RunEnterFails(e) == EnterFails(e, "run")

StreamEnterFails(e) == EnterFails(e, "stream")

\* call(): the instance is created once and kept; the guest runs inline.
CallEnter(e) ==
  /\ Callable
  /\ Acquire
  /\ state' = "Running"
  /\ method' = "call"
  /\ awaited' = {e}
  /\ instance' = IF instance = 0 THEN meter ELSE instance
  /\ Start(e, "call", "live", HasWallTime, instance', limiter)
  /\ UNCHANGED << meter, limiter, recordVars, ticks >>

\* call() when instantiation fails: Running is never undone.
CallEnterFails ==
  /\ Callable
  /\ instance = 0
  /\ Acquire
  /\ state' = "Running"
  /\ UNCHANGED << method, awaited, phase, guestVars, handleVars, recordVars, ticks >>

\* run_streaming(): the guest goes to the background with clones of the
\* meter and the limiter, and the sandbox is Terminated at once.
StreamEnter(e) ==
  /\ Callable
  /\ Acquire
  /\ state' = "Terminated"
  /\ announced' = announced \cup {e}
  /\ Start(e, "stream", "live", HasWallTime, meter, limiter)
  /\ UNCHANGED << method, awaited, handleVars, runCount, concluded, logged, ticks >>

\* run_batch(): one task per input, each with its own meter; no limiter, no
\* deadline and no hook.  An empty batch returns at once and changes nothing.
BatchEnter(S) ==
  /\ Callable
  /\ S # {}
  /\ \A e \in S : phase[e] = "unused"
  /\ state' = "Running"
  /\ method' = "batch"
  /\ awaited' = S
  /\ phase' = [e \in Exec |-> IF e \in S THEN "queued" ELSE phase[e]]
  /\ kind' = [e \in Exec |-> IF e \in S THEN "batch" ELSE kind[e]]
  /\ UNCHANGED << timed, usesMeter, usesLimiter >>
  /\ UNCHANGED << handleVars, limitVars, recordVars, ticks >>

\* A batch task instantiates its own instance, which may fail.
BatchTask(e) ==
  /\ phase[e] = "queued"
  /\ \E p \in {"live", "err"} : phase' = [phase EXCEPT ![e] = p]
  /\ UNCHANGED << state, method, awaited, guestVars, handleVars, limitVars,
                  recordVars, ticks >>

-----------------------------------------------------------------------------
(* Guest code ends *)

Returns(e, p) ==
  /\ Live(e)
  /\ phase' = [phase EXCEPT ![e] = p]
  /\ UNCHANGED << state, method, awaited, guestVars, handleVars, limitVars,
                  recordVars, ticks >>

\* The guest returns, traps, or a host function panics under it.  call()
\* runs on the caller's own stack, where a panic takes the caller with it.
GuestReturns(e) ==
  \E p \in Returned :
    /\ p = "panic" => kind[e] # "call"
    /\ Returns(e, p)

\* Mutant: the epoch deadline is never acted upon.
GuestInterruptedFuelOnly(e) == HasFuel /\ Returns(e, "err")

\* The limits of the configuration end the guest: it runs out of fuel, or
\* its epoch deadline passes.
GuestInterrupted(e) == (HasFuel \/ e \in timed) /\ Returns(e, "err")

-----------------------------------------------------------------------------
(* Operations resume *)

\* Mutant: a failed run is announced as failed but not counted.
RunResumeUncounted(e) ==
  /\ method = "run"
  /\ e \in awaited
  /\ phase[e] \in {"ok", "err"}
  /\ state' = "Terminated"
  /\ method' = "idle"
  /\ awaited' = {}
  /\ phase' = [phase EXCEPT ![e] = "done"]
  /\ concluded' = concluded \cup {e}
  /\ IF phase[e] = "ok"
     THEN /\ RecordExecution(limiter)
          /\ logged' = logged \cup {e}
          /\ runCount' = runCount + 1
     ELSE UNCHANGED << executions, logged, runCount >>
  /\ UNCHANGED << guestVars, handleVars, tokens, announced, ticks >>

\* run() after its await, when the blocking task delivered a result.
RunResume(e) ==
  /\ method = "run"
  /\ e \in awaited
  /\ phase[e] \in {"ok", "err"}
  /\ state' = "Terminated"
  /\ method' = "idle"
  /\ awaited' = {}
  /\ phase' = [phase EXCEPT ![e] = "done"]
  /\ runCount' = runCount + 1
  /\ concluded' = concluded \cup {e}
  /\ IF phase[e] = "ok"
     THEN RecordExecution(limiter) /\ logged' = logged \cup {e}
     ELSE UNCHANGED << executions, logged >>
  /\ UNCHANGED << guestVars, handleVars, tokens, announced, ticks >>

\* run() when the blocking task panicked: the join error is returned at once.
RunJoinFails(e) ==
  /\ method = "run"
  /\ e \in awaited
  /\ phase[e] = "panic"
  /\ method' = "idle"
  /\ awaited' = {}
  /\ phase' = [phase EXCEPT ![e] = "done"]
  /\ UNCHANGED << state, guestVars, handleVars, limitVars, recordVars, ticks >>

\* call() returns to Ready and records the execution whatever its outcome.
CallResume(e) ==
  /\ method = "call"
  /\ e \in awaited
  /\ phase[e] \in {"ok", "err"}
  /\ state' = "Ready"
  /\ method' = "idle"
  /\ awaited' = {}
  /\ phase' = [phase EXCEPT ![e] = "done"]
  /\ RecordExecution(limiter)
  /\ UNCHANGED << guestVars, handleVars, tokens, recordVars, ticks >>

\* Mutant: the background task handles success only.
StreamRecordOk(e) ==
  /\ kind[e] = "stream"
  /\ phase[e] = "ok"
  /\ phase' = [phase EXCEPT ![e] = "done"]
  /\ concluded' = concluded \cup {e}
  /\ RecordExecution(usesLimiter[e])
  /\ logged' = logged \cup {e}
  /\ UNCHANGED << state, method, awaited, guestVars, handleVars, tokens,
                  runCount, announced, ticks >>

\* The background task of run_streaming() after the guest ended.  It counts
\* the run in its own copy of the metrics.
StreamRecord(e) ==
  /\ kind[e] = "stream"
  /\ phase[e] \in {"ok", "err"}
  /\ phase' = [phase EXCEPT ![e] = "done"]
  /\ concluded' = concluded \cup {e}
  /\ IF phase[e] = "ok"
     THEN RecordExecution(usesLimiter[e]) /\ logged' = logged \cup {e}
     ELSE UNCHANGED << executions, logged >>
  /\ UNCHANGED << state, method, awaited, guestVars, handleVars, tokens,
                  runCount, announced, ticks >>

\* run_batch() once every handle has been joined, panicked tasks included.
BatchResume ==
  /\ method = "batch"
  /\ \A e \in awaited : phase[e] \in Returned
  /\ state' = "Terminated"
  /\ method' = "idle"
  /\ awaited' = {}
  /\ phase' = [e \in Exec |-> IF e \in awaited THEN "done" ELSE phase[e]]
  /\ UNCHANGED << guestVars, handleVars, limitVars, recordVars, ticks >>

\* The caller drops the future of run() or run_batch() at its await.
FutureDropped ==
  /\ method \in {"run", "batch"}
  /\ method' = "idle"
  /\ awaited' = {}
  /\ UNCHANGED << state, phase, guestVars, handleVars, limitVars, recordVars, ticks >>

-----------------------------------------------------------------------------
(* terminate, reset, time *)

\* terminate() on a Ready or an already Terminated sandbox.
Terminate ==
  /\ method = "idle"
  /\ state \in {"Ready", "Terminated"}
  /\ state' = "Terminated"
  /\ instance' = 0
  /\ UNCHANGED << method, awaited, phase, guestVars, meter, limiter, limitVars,
                  recordVars, ticks >>

\* Mutants: reset() forgets to replace the meter, the limiter, or to drop
\* the instance.
ResetKeeping(m, l, i) ==
  /\ method = "idle"
  /\ state = "Terminated"
  /\ limiter <= MaxResets /\ meter <= MaxResets
  /\ instance' = i
  /\ meter' = m
  /\ limiter' = l
  /\ state' = "Ready"
  /\ UNCHANGED << method, awaited, phase, guestVars, limitVars, recordVars, ticks >>

ResetKeepsMeter == ResetKeeping(meter, limiter + 1, 0)

ResetKeepsLimiter == ResetKeeping(meter + 1, limiter, 0)

ResetKeepsInstance == ResetKeeping(meter + 1, limiter + 1, instance)

\* reset(): drop the instance, replace the meter and the limiter.
Reset ==
  /\ method = "idle"
  /\ state = "Terminated"
  /\ meter <= MaxResets
  /\ instance' = 0
  /\ meter' = meter + 1
  /\ limiter' = limiter + 1
  /\ state' = "Ready"
  /\ UNCHANGED << method, awaited, phase, guestVars, limitVars, recordVars, ticks >>

\* refill: a second passes.
SecondPasses ==
  /\ ticks < MaxTicks
  /\ ticks' = ticks + 1
  /\ tokens' = [l \in Handles |->
                  IF tokens[l] + Rate <= Burst THEN tokens[l] + Rate ELSE Burst]
  /\ UNCHANGED << state, method, awaited, phase, guestVars, handleVars,
                  executions, recordVars >>

\* maybe_reset_window: limiter l's hour is over.  check_execution and
\* record_execution both test for it before they look at the counter.
WindowElapses(l) ==
  /\ ticks < MaxTicks
  /\ ticks' = ticks + 1
  /\ executions' = [executions EXCEPT ![l] = 0]
  /\ UNCHANGED << state, method, awaited, phase, guestVars, handleVars,
                  tokens, recordVars >>

-----------------------------------------------------------------------------
OnExec(e) ==
  \/ RunEnter(e) \/ RunEnterFails(e) \/ RunResume(e) \/ RunJoinFails(e)
  \/ CallEnter(e) \/ CallResume(e)
  \/ StreamEnter(e) \/ StreamEnterFails(e) \/ StreamRecord(e)
  \/ BatchTask(e)
  \/ GuestReturns(e) \/ GuestInterrupted(e)

Next ==
  \/ Create
  \/ \E e \in Exec : OnExec(e)
  \/ CallEnterFails
  \/ \E S \in SUBSET Exec : BatchEnter(S)
  \/ BatchResume
  \/ FutureDropped
  \/ Terminate
  \/ Reset
  \/ SecondPasses
  \/ \E l \in Handles : WindowElapses(l)

\* A guest with fuel or a deadline is interrupted in the end; tasks and
\* futures whose results are there are polled in the end.
Fairness ==
  /\ \A e \in Exec :
       /\ WF_vars(GuestInterrupted(e))
       /\ WF_vars(RunResume(e)) /\ WF_vars(RunJoinFails(e))
       /\ WF_vars(CallResume(e))
       /\ WF_vars(StreamRecord(e))
       /\ WF_vars(BatchTask(e))
  /\ WF_vars(BatchResume)

Spec == Init /\ [][Next]_vars

FairSpec == Spec /\ Fairness

-----------------------------------------------------------------------------
(* Properties *)

TypeOK ==
  /\ state \in States
  /\ method \in Methods
  /\ awaited \in SUBSET Exec
  /\ phase \in [Exec -> Phases]
  /\ kind \in [Exec -> Kinds]
  /\ timed \in SUBSET Exec
  /\ usesMeter \in [Exec -> Handles]
  /\ usesLimiter \in [Exec -> Handles]
  /\ meter \in Handles
  /\ limiter \in Handles
  /\ instance \in Handles
  /\ tokens \in [Handles -> 0 .. Burst]
  /\ executions \in [Handles -> Nat]
  /\ runCount \in Nat
  /\ announced \in SUBSET Exec
  /\ concluded \in SUBSET Exec
  /\ logged \in SUBSET Exec
  /\ ticks \in 0 .. MaxTicks

\* Two guests that run at the same time never report to the same resource
\* meter, even when a streaming run outlives the reset() of its sandbox:
\* one guest's fuel, memory and I/O are never charged to another.
NoSharedMeter ==
  \A e, f \in Exec :
    Live(e) /\ Live(f) /\ usesMeter[e] = usesMeter[f] /\ usesMeter[e] # 0
      => e = f

\* The instance call() keeps between calls reports to the current meter:
\* after a reset() no call can go on with the memory and fuel of before.
InstanceIsCurrent == instance \in {0, meter}

\* The quota is checked by try_acquire and counted only when the execution
\* is over; in between no second execution may slip past the check.  So a
\* limiter never counts more executions in its window than the quota.
QuotaKept == Limited => \A l \in Handles : executions[l] <= QuotaMax

\* A trace is logged only for a run whose completion was announced, and a
\* run is concluded only after it was announced; run() counts each of its
\* concluded runs exactly once.
RunsAccounted ==
  /\ logged \subseteq concluded
  /\ concluded \subseteq announced
  /\ runCount = Cardinality({e \in concluded : kind[e] = "run"})

\* "This method currently does not return errors" (terminate()): whoever can call
\* terminate() ends the sandbox.  The code does not keep it: a failed
\* instantiation, a panicked guest or a dropped future leaves the sandbox Running
\* with no operation in progress, and terminate() refuses a Running sandbox.
TerminateNeverRefuses == method = "idle" /\ state # "Absent" => ENABLED Terminate

\* run() returns in the end when fuel or a wall-time limit is configured.
RunReturns == (HasFuel \/ HasWallTime) => (method = "run" ~> method = "idle")

\* A background streaming run is concluded, or its task has panicked.
StreamsConclude ==
  (HasFuel \/ HasWallTime) =>
    \A e \in Exec :
      (kind[e] = "stream" /\ Live(e)) ~> (e \in concluded \/ phase[e] = "panic")

-----------------------------------------------------------------------------
(* The inductive invariant behind the properties above *)

\* Execution e holds its meter and limiter handles: its guest runs, or its
\* result has not been dealt with.
Active(e) == phase[e] \in {"live"} \cup Returned

\* reset() replaces meter and limiter together, and a handle belongs to at
\* most one execution that is still active; a Ready sandbox's to none.
Ownership ==
  /\ meter = limiter
  /\ state = "Absent" <=> meter = 0
  /\ InstanceIsCurrent
  /\ \A e \in Exec : usesMeter[e] <= meter /\ usesLimiter[e] = usesMeter[e]
  /\ \A e, f \in Exec :
       Active(e) /\ Active(f) /\ usesMeter[e] = usesMeter[f] /\ usesMeter[e] # 0
         => e = f
  /\ state = "Ready" => \A e \in Exec : Active(e) => usesMeter[e] # meter

\* What the operation in progress awaits.
Borrow ==
  /\ method # "idle" => state = "Running"
  /\ method = "idle" => awaited = {}
  /\ method \in {"run", "call"} =>
       \A e \in awaited : Active(e) /\ usesMeter[e] = meter /\ kind[e] = method

\* Batch guests have meters of their own, all other guests the sandbox's.
Kinded ==
  \A e \in Exec :
    /\ phase[e] \in {"unused", "queued"} => usesMeter[e] = 0
    /\ phase[e] = "queued" => kind[e] = "batch"
    /\ Active(e) /\ kind[e] # "batch" => usesMeter[e] # 0

\* Runs are counted once: a concluded run is done.
Recorded ==
  /\ \A e \in concluded : phase[e] = "done"
  /\ \A e \in Exec : Active(e) /\ kind[e] \in {"run", "stream"} => e \in announced
  /\ RunsAccounted

\* While an execution that was let in is still to be counted, there is room
\* for it in the quota of its limiter.
QuotaRoom ==
  Limited =>
    \A l \in Handles :
      /\ executions[l] <= QuotaMax
      /\ \A e \in Exec :
           Active(e) /\ usesMeter[e] = l /\ l # 0 => executions[l] < QuotaMax

IndInv ==
  /\ TypeOK
  /\ Ownership
  /\ Borrow
  /\ Kinded
  /\ Recorded
  /\ QuotaRoom
=============================================================================
