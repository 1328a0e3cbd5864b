----------------------------- MODULE EpochTicker -----------------------------
(***************************************************************************)
(* Wall-time limits: the engine's epoch ticker (ensure_epoch_ticker and     *)
(* shutdown_epoch_ticker, isolate-core/src/engine/wasm.rs) and the epoch    *)
(* deadlines that run(), run_streaming() and call() of a sandbox set        *)
(* (isolate-core/src/sandbox.rs).                                           *)
(*                                                                          *)
(* run() and run_streaming() hand their guest to the blocking pool; call()  *)
(* executes it on the worker thread that polls it.  The ticker is a task of *)
(* the same runtime, so a tick needs a worker no guest occupies.  Ticks     *)
(* that come due meanwhile are made up for later (tokio's interval bursts). *)
(*                                                                          *)
(* WallTime, Interval and TickMs are durations in one and the same unit.    *)
(***************************************************************************)
EXTENDS Naturals, FiniteSets

CONSTANTS
  Exec,          \* callers; each executes one guest after another
  Kinds,         \* the methods in use: "run" (or run_streaming), "call"
  Workers,       \* worker threads of the runtime
  WallTime,      \* resources.time.wall_time
  Interval,      \* EPOCH_TICK_INTERVAL, the unit the sandbox counts epochs in
  TickMs,        \* epoch_tick_ms, the ticker's period; 0 is accepted
  MayShutdown,   \* is shutdown_epoch_ticker called?
  MaxOwed        \* the ticks due and not delivered are counted up to it

ASSUME EpochAssumption ==
  /\ IsFiniteSet(Exec)
  /\ Kinds \subseteq {"run", "call"}
  /\ Workers \in Nat \ {0}
  /\ WallTime \in Nat
  /\ Interval \in Nat \ {0}
  /\ TickMs \in Nat
  /\ MayShutdown \in BOOLEAN
  /\ MaxOwed \in Nat

VARIABLES
  status,    \* status[e]: "idle" (also after a return), "guest" or "timeout"
  kind,      \* kind[e]: the method of e's latest execution
  limited,   \* limited[e]: has it a wall_time limit?
  left,      \* left[e]: epochs until its deadline
  armed,     \* armed[e]: can the epoch reach that deadline at all?
  started,   \* epoch_ticker_started
  shutdown,  \* epoch_ticker_shutdown
  tickers,   \* ticker tasks alive
  ticked,    \* has the epoch been incremented?
  owed,      \* ticks that are due and not delivered
  phase,     \* time since the latest tick came due
  age,       \* history: how long e's limited guest has run, up to AgeBound
  backlog    \* history: the ticks that were owed when it started

storeVars == << limited, left, armed >>
tickerVars == << started, shutdown, tickers, ticked, owed, phase >>
historyVars == << age, backlog >>
vars == << status, kind, storeVars, tickerVars, historyVars >>

Guests == {e \in Exec : status[e] = "guest"}

\* A worker that no call() occupies: there the ticker can be polled.
FreeWorker == Cardinality({e \in Guests : kind[e] = "call"}) < Workers

\* The whole epochs of a wall-time limit, and the age beyond which none differ.
WholeEpochs == WallTime \div Interval
AgeBound == IF WholeEpochs * TickMs > WallTime THEN WholeEpochs * TickMs ELSE WallTime

-----------------------------------------------------------------------------
Init ==
  /\ status = [e \in Exec |-> "idle"]
  /\ kind = [e \in Exec |-> "run"]
  /\ limited = [e \in Exec |-> FALSE]
  /\ left = [e \in Exec |-> 0]
  /\ armed = [e \in Exec |-> FALSE]
  /\ started = FALSE
  /\ shutdown = FALSE
  /\ tickers = 0
  /\ ticked = FALSE
  /\ owed = 0
  /\ phase = 0
  /\ age = [e \in Exec |-> 0]
  /\ backlog = [e \in Exec |-> 0]

\* Mutant: the ticker is spawned without asking whether it was before.
EnsureTickerAgain ==
  /\ started' = TRUE
  /\ tickers' = tickers + 1
  /\ owed' = owed + 1
  /\ UNCHANGED << shutdown, ticked, phase >>

\* Mutant: a failed spawn goes unnoticed, the flag says the ticker runs.
EnsureTickerFlagOnly ==
  /\ started' = TRUE
  /\ UNCHANGED << shutdown, tickers, ticked, owed, phase >>

\* ensure_epoch_ticker: only the first caller spawns.  The interval's first
\* tick is due at once; an interval of 0 panics, and the task with it.
EnsureTicker ==
  /\ started' = TRUE
  /\ IF started \/ TickMs = 0
     THEN UNCHANGED << tickers, owed >>
     ELSE tickers' = 1 /\ owed' = 1
  /\ UNCHANGED << shutdown, ticked, phase >>

\* Mutant: the deadline is one epoch short.
DeadlineShort == IF WholeEpochs > 1 THEN WholeEpochs - 1 ELSE 1

\* epochs_until_timeout: the division truncates, and gives at least 1.
Deadline == IF WholeEpochs > 1 THEN WholeEpochs ELSE 1

\* A guest starts on a polled worker.  A limit's deadline is counted from the
\* current epoch.  Without one the store has u64::MAX added to the epoch of
\* its instantiation: out of reach at epoch 0, and later wrapped round to the
\* epoch before.  A call() may use the instance of an earlier call().
Start(e, k, lim, kept) ==
  /\ status[e] # "guest"
  /\ FreeWorker
  /\ kept => k = "call" /\ kind[e] = "call" /\ ~limited[e] /\ ~lim
  /\ status' = [status EXCEPT ![e] = "guest"]
  /\ kind' = [kind EXCEPT ![e] = k]
  /\ limited' = [limited EXCEPT ![e] = lim]
  /\ left' = [left EXCEPT ![e] = IF lim THEN Deadline ELSE 0]
  /\ armed' = [armed EXCEPT ![e] = lim \/ IF kept THEN armed[e] ELSE ticked]
  /\ IF lim THEN EnsureTicker ELSE UNCHANGED tickerVars
  /\ age' = [age EXCEPT ![e] = 0]
  /\ backlog' = [backlog EXCEPT ![e] = IF lim THEN owed' ELSE 0]

Return(e) ==
  /\ e \in Guests
  /\ status' = [status EXCEPT ![e] = "idle"]
  /\ age' = [age EXCEPT ![e] = 0]
  /\ backlog' = [backlog EXCEPT ![e] = 0]
  /\ UNCHANGED << kind, storeVars, tickerVars >>

\* The guest finds its deadline reached: epoch_deadline_trap.
Interrupt(e) ==
  /\ e \in Guests /\ armed[e] /\ left[e] = 0
  /\ status' = [status EXCEPT ![e] = "timeout"]
  /\ UNCHANGED << kind, storeVars, tickerVars, historyVars >>

\* The ticker is polled with a tick due: it stops, or increments the epoch.
Tick ==
  /\ tickers > 0 /\ owed > 0 /\ FreeWorker
  /\ owed' = owed - 1
  /\ IF shutdown
     THEN tickers' = tickers - 1 /\ UNCHANGED << left, ticked >>
     ELSE /\ left' = [e \in Exec |-> IF left[e] > 0 THEN left[e] - 1 ELSE 0]
          /\ ticked' = TRUE
          /\ UNCHANGED tickers
  /\ UNCHANGED << status, kind, limited, armed, started, shutdown, phase, historyVars >>

\* shutdown_epoch_ticker.
Shutdown ==
  /\ MayShutdown
  /\ shutdown' = TRUE
  /\ UNCHANGED << status, kind, storeVars, started, tickers, ticked, owed, phase, historyVars >>

\* A unit of time passes; after TickMs of them the ticker owes one tick more,
\* counted up to the bound.
TimePasses ==
  /\ age' = [e \in Exec |-> IF e \in Guests /\ limited[e] /\ age[e] < AgeBound THEN age[e] + 1 ELSE age[e]]
  /\ \/ /\ tickers = 0
        /\ UNCHANGED << owed, phase >>
     \/ /\ tickers > 0 /\ phase + 1 < TickMs
        /\ phase' = phase + 1
        /\ UNCHANGED owed
     \/ /\ tickers > 0 /\ phase + 1 = TickMs
        /\ phase' = 0
        /\ owed' = IF owed < MaxOwed THEN owed + 1 ELSE owed
  /\ UNCHANGED << status, kind, storeVars, started, shutdown, tickers, ticked, backlog >>

-----------------------------------------------------------------------------
Next ==
  \/ \E e \in Exec : \/ \E k \in Kinds, lim, kept \in BOOLEAN : Start(e, k, lim, kept)
                     \/ Return(e)
                     \/ Interrupt(e)
  \/ Tick
  \/ Shutdown
  \/ TimePasses

\* Time goes on and a trap is taken.  Tokio polls its tasks in turn, so the
\* ticker gets a worker when one is free again and again.  A guest need never
\* return by itself.
Fairness == SF_vars(Tick) /\ WF_vars(TimePasses) /\ \A e \in Exec : WF_vars(Interrupt(e))

Spec == Init /\ [][Next]_vars

FairSpec == Spec /\ Fairness

-----------------------------------------------------------------------------
(* Properties *)

TypeOK ==
  /\ status \in [Exec -> {"idle", "guest", "timeout"}]
  /\ kind \in [Exec -> {"run", "call"}]
  /\ limited \in [Exec -> BOOLEAN]
  /\ left \in [Exec -> Nat]
  /\ armed \in [Exec -> BOOLEAN]
  /\ started \in BOOLEAN
  /\ shutdown \in BOOLEAN
  /\ tickers \in 0 .. 1
  /\ ticked \in BOOLEAN
  /\ owed \in Nat
  /\ phase \in Nat
  /\ age \in [Exec -> 0 .. AgeBound]
  /\ backlog \in [Exec -> Nat]

\* A wall-time limit is not reported before its whole epochs have passed at
\* the ticker's rate, but for one tick (the deadline's phase against the
\* ticker) and the ticks that were overdue when the guest started, which a
\* burst delivers to it.  The truncation, the tick rate, starved workers and
\* the ticker's own start are all inside this bound.
NoEarlyTimeout ==
  \A e \in Exec :
    status[e] = "timeout" /\ limited[e]
      => WholeEpochs * TickMs < (backlog[e] + 1) * TickMs + age[e]

\* A guest with a wall-time limit is interrupted if it does not return,
\* provided a worker is free again and again and the ticker has a period and
\* is not shut down: no execution starts it a second time.
TimeoutEnforced ==
  TickMs > 0 /\ []<>FreeWorker => \A e \in Exec :
    (status[e] = "guest" /\ limited[e]) ~> (status[e] # "guest" \/ shutdown)
=============================================================================
