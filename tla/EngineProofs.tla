---------------------------- MODULE EngineProofs ----------------------------
(***************************************************************************)
(* The two shared parts of WasmEngine (isolate-core/src/engine/wasm.rs):    *)
(* its epoch ticker and its cache of compiled modules.                       *)
(*                                                                           *)
(* No wall-time limit is reported earlier than the ticker's period and the  *)
(* ticks it was late with explain, for any number of executions and workers, *)
(* any limit and any tick rate.                                              *)
(* The cache is within its capacity up to the threads that are evicting,    *)
(* for any number of threads and modules.                                    *)
(***************************************************************************)
EXTENDS EpochTicker, ModuleCache, FiniteSetTheorems, TLAPS

-----------------------------------------------------------------------------
(* The epoch ticker *)

\* There is at most one ticker, none with an interval of 0, and it is within
\* its period.
TickerClock ==
  /\ started = FALSE => tickers = 0
  /\ TickMs = 0 => tickers = 0
  /\ phase = 0 \/ phase < TickMs

\* A deadline is armed only when the ticker was asked for.
DeadlineHasTicker ==
  \A e \in Exec : status[e] = "guest" /\ limited[e] => started

\* The epochs e's deadline has lost since it was set, the ticks still owed
\* included, are worth at most the time the guest has run, the ticks owed at
\* its start and the rest of a period; or it has run long enough.
Tracks(e) ==
  \/ WholeEpochs * TickMs <= age[e]
  \/ WholeEpochs * TickMs + owed * TickMs + phase + 1
       <= left[e] * TickMs + backlog[e] * TickMs + age[e] + TickMs

\* Without a ticker a deadline stays where it was set.
DeadlineTracksTime ==
  \A e \in Exec : status[e] = "guest" /\ limited[e]
    => IF TickMs = 0 THEN left[e] > 0 ELSE Tracks(e)

EpochInv ==
  /\ TypeOK
  /\ TickerClock
  /\ DeadlineHasTicker
  /\ DeadlineTracksTime
  /\ NoEarlyTimeout

-----------------------------------------------------------------------------
\* The conversions of wall_time: a natural number of whole epochs, a deadline of
\* at least that many and at least 1, and the age they are compared at.
LEMMA Conversions ==
  /\ WholeEpochs \in Nat
  /\ Deadline \in Nat /\ Deadline >= WholeEpochs /\ Deadline > 0
  /\ WholeEpochs * TickMs \in Nat
  /\ AgeBound \in Nat /\ AgeBound >= WholeEpochs * TickMs
<1>1. WholeEpochs \in Nat
  BY EpochAssumption DEF WholeEpochs
<1>2. Deadline \in Nat /\ Deadline >= WholeEpochs /\ Deadline > 0
  BY <1>1 DEF Deadline
<1>3. WholeEpochs * TickMs \in Nat
  BY <1>1, EpochAssumption
<1>4. AgeBound \in Nat /\ AgeBound >= WholeEpochs * TickMs
  BY <1>3, EpochAssumption DEF AgeBound
<1> QED
  BY <1>1, <1>2, <1>3, <1>4

\* A product with the period grows and shrinks by whole periods.
LEMMA Periods ==
  ASSUME NEW n \in Nat, NEW m \in Nat
  PROVE  /\ n * TickMs \in Nat
         /\ (n + 1) * TickMs = n * TickMs + TickMs
         /\ n > 0 => (n - 1) * TickMs = n * TickMs - TickMs
         /\ n >= m => n * TickMs >= m * TickMs
<1>1. n * TickMs \in Nat /\ (n + 1) * TickMs = n * TickMs + TickMs
  BY EpochAssumption
<1>2. n > 0 => (n - 1) * TickMs = n * TickMs - TickMs
  BY EpochAssumption
<1>3. ASSUME n >= m
      PROVE  n * TickMs >= m * TickMs
  <2>1. n - m \in Nat /\ (n - m) * TickMs \in Nat
    BY <1>3, EpochAssumption
  <2>2. n * TickMs = m * TickMs + (n - m) * TickMs
    BY EpochAssumption
  <2>3. m * TickMs \in Nat /\ n * TickMs \in Nat
    BY EpochAssumption
  <2> QED
    BY <2>1, <2>2, <2>3
<1> QED
  BY <1>1, <1>2, <1>3

LEMMA EpochInit == Init => EpochInv
<1> SUFFICES ASSUME Init PROVE EpochInv
  OBVIOUS
<1>1. TypeOK
  <2>1. /\ limited \in [Exec -> BOOLEAN] /\ armed \in [Exec -> BOOLEAN]
        /\ started \in BOOLEAN /\ shutdown \in BOOLEAN /\ ticked \in BOOLEAN
    BY Zenon DEF Init
  <2>2. /\ status \in [Exec -> {"idle", "guest", "timeout"}]
        /\ kind \in [Exec -> {"run", "call"}]
        /\ left \in [Exec -> Nat] /\ backlog \in [Exec -> Nat]
        /\ tickers \in 0 .. 1 /\ owed \in Nat /\ phase \in Nat
    BY DEF Init
  <2>3. age \in [Exec -> 0 .. AgeBound]
    BY Conversions DEF Init
  <2> QED
    BY <2>1, <2>2, <2>3 DEF TypeOK
<1>2. \A e \in Exec : status[e] = "idle"
  BY DEF Init
<1>3. TickerClock
  BY DEF Init, TickerClock
<1> QED
  BY <1>1, <1>2, <1>3 DEF EpochInv, DeadlineHasTicker, DeadlineTracksTime, NoEarlyTimeout

\* Every step keeps the types and the ticker's clock.
LEMMA EpochTypes ==
  ASSUME TypeOK, TickerClock, DeadlineHasTicker, [Next]_vars
  PROVE  TypeOK' /\ TickerClock' /\ DeadlineHasTicker'
<1> USE EpochAssumption, Conversions DEF TypeOK, TickerClock, DeadlineHasTicker
<1>1. ASSUME NEW e \in Exec, NEW k \in Kinds, NEW lim \in BOOLEAN, NEW kept \in BOOLEAN,
             Start(e, k, lim, kept)
      PROVE  TypeOK' /\ TickerClock' /\ DeadlineHasTicker'
  <2>1. armed' \in [Exec -> BOOLEAN] /\ limited' \in [Exec -> BOOLEAN]
    <3>1. (lim \/ IF kept THEN armed[e] ELSE ticked) \in BOOLEAN
      OBVIOUS
    <3> QED
      BY <1>1, <3>1, Zenon DEF Start
  <2>2. CASE lim
    BY <1>1, <2>1, <2>2 DEF Start, EnsureTicker
  <2>3. CASE ~lim
    BY <1>1, <2>1, <2>3 DEF Start, tickerVars
  <2> QED
    BY <2>2, <2>3
<1>2. ASSUME NEW e \in Exec, Return(e)
      PROVE  TypeOK' /\ TickerClock' /\ DeadlineHasTicker'
  BY <1>2 DEF Return, tickerVars, storeVars, Guests
<1>3. ASSUME NEW e \in Exec, Interrupt(e)
      PROVE  TypeOK' /\ TickerClock' /\ DeadlineHasTicker'
  BY <1>3 DEF Interrupt, tickerVars, storeVars, historyVars, Guests
<1>4. CASE Tick
  <2>1. left' \in [Exec -> Nat] /\ owed' \in Nat
    BY <1>4 DEF Tick
  <2>2. tickers' \in 0 .. 1 /\ (tickers = 0 => tickers' = 0) /\ started' = started
    BY <1>4 DEF Tick
  <2>3. ticked' \in BOOLEAN
    BY <1>4 DEF Tick
  <2>4. << status, kind, limited, armed, started, shutdown, phase, age, backlog >>'
          = << status, kind, limited, armed, started, shutdown, phase, age, backlog >>
    BY <1>4 DEF Tick, historyVars
  <2> QED
    BY <1>4, <2>1, <2>2, <2>3, <2>4 DEF Tick
<1>5. CASE Shutdown
  BY <1>5 DEF Shutdown, storeVars, historyVars
<1>6. CASE TimePasses
  <2>1. age' \in [Exec -> 0 .. AgeBound]
    BY <1>6 DEF TimePasses
  <2>2. owed' \in Nat /\ phase' \in Nat /\ (phase' = 0 \/ phase' < TickMs)
    BY <1>6 DEF TimePasses
  <2> QED
    BY <1>6, <2>1, <2>2 DEF TimePasses, storeVars
<1>7. CASE UNCHANGED vars
  BY <1>7 DEF vars, storeVars, tickerVars, historyVars
<1> HIDE DEF TypeOK, TickerClock, DeadlineHasTicker
<1> QED
  BY <1>1, <1>2, <1>3, <1>4, <1>5, <1>6, <1>7, Zenon DEF Next

\* The deadline of a limited guest x loses an epoch only when the ticker pays
\* a tick it owes, and the ticker owes one more only after a period.
LEMMA EpochTracks ==
  ASSUME EpochInv, TypeOK', [Next]_vars,
         NEW x \in Exec, status'[x] = "guest", limited'[x]
  PROVE  IF TickMs = 0 THEN left'[x] > 0 ELSE Tracks(x)'
<1> DEFINE Goal == IF TickMs = 0 THEN left'[x] > 0 ELSE Tracks(x)'
<1> SUFFICES Goal
  OBVIOUS
<1> USE EpochAssumption
<1>0. /\ owed \in Nat /\ phase \in Nat /\ left[x] \in Nat /\ age[x] \in Nat /\ backlog[x] \in Nat
      /\ owed' \in Nat /\ phase' \in Nat /\ left'[x] \in Nat /\ age'[x] \in Nat
      /\ backlog'[x] \in Nat /\ tickers \in 0 .. 1 /\ tickers' \in 0 .. 1
      /\ WholeEpochs * TickMs \in Nat
  BY Conversions DEF EpochInv, TypeOK
<1>1. ASSUME status[x] = "guest", limited[x]
      PROVE  IF TickMs = 0 THEN left[x] > 0 ELSE Tracks(x)
  BY <1>1 DEF EpochInv, DeadlineTracksTime
\* A step that leaves the guest, the ticks owed and the clock alone.
<1>2. ASSUME status[x] = "guest", limited[x],
             left'[x] = left[x], age'[x] = age[x], backlog'[x] = backlog[x],
             owed' = owed, phase' = phase
      PROVE  Goal
  BY <1>1, <1>2 DEF Tracks
<1>3. ASSUME NEW e \in Exec, NEW k \in Kinds, NEW lim \in BOOLEAN, NEW kept \in BOOLEAN,
             Start(e, k, lim, kept)
      PROVE  Goal
  <2>1. CASE x = e
    <3>1. lim /\ left'[x] = Deadline /\ age'[x] = 0 /\ backlog'[x] = owed' /\ phase' = phase
      BY <1>3, <2>1 DEF Start, EnsureTicker, EpochInv, TypeOK
    <3>2. TickMs # 0 => phase + 1 <= TickMs
      BY <1>0 DEF EpochInv, TickerClock
    <3>3. Deadline * TickMs >= WholeEpochs * TickMs /\ Deadline * TickMs \in Nat
      BY Periods, Conversions
    <3>4. owed' * TickMs \in Nat
      BY Periods, <1>0
    <3>5. Deadline > 0
      BY Conversions
    <3> QED
      BY <1>0, <3>1, <3>2, <3>3, <3>4, <3>5 DEF Tracks
  <2>2. CASE x # e
    <3>1. /\ status[x] = "guest" /\ limited[x]
          /\ left'[x] = left[x] /\ age'[x] = age[x] /\ backlog'[x] = backlog[x]
      BY <1>3, <2>2 DEF Start, EpochInv, TypeOK
    <3>2. started
      BY <3>1 DEF EpochInv, DeadlineHasTicker
    <3>3. owed' = owed /\ phase' = phase
      BY <1>3, <3>2 DEF Start, EnsureTicker, tickerVars
    <3> QED
      BY <1>2, <3>1, <3>3
  <2> QED
    BY <2>1, <2>2
<1>4. ASSUME NEW e \in Exec, Return(e) \/ Interrupt(e)
      PROVE  Goal
  <2>1. x # e
    BY <1>4 DEF Return, Interrupt, EpochInv, TypeOK
  <2>2. /\ status[x] = "guest" /\ limited[x]
        /\ left'[x] = left[x] /\ age'[x] = age[x] /\ backlog'[x] = backlog[x]
        /\ owed' = owed /\ phase' = phase
    BY <1>4, <2>1
    DEF Return, Interrupt, tickerVars, storeVars, historyVars, EpochInv, TypeOK
  <2> QED
    BY <1>2, <2>2
<1>5. CASE Tick
  <2>1. /\ status[x] = "guest" /\ limited[x]
        /\ age'[x] = age[x] /\ backlog'[x] = backlog[x] /\ phase' = phase
        /\ tickers > 0 /\ owed > 0 /\ owed' = owed - 1
    BY <1>5 DEF Tick, historyVars
  <2>2. left'[x] = left[x] \/ (left[x] > 0 /\ left'[x] = left[x] - 1)
    <3>1. left' = left \/ left' = [e \in Exec |-> IF left[e] > 0 THEN left[e] - 1 ELSE 0]
      BY <1>5 DEF Tick
    <3> QED
      BY <1>0, <3>1
  <2>3. TickMs # 0
    BY <2>1 DEF EpochInv, TickerClock
  <2>4. owed' * TickMs = owed * TickMs - TickMs /\ owed * TickMs \in Nat
    BY <1>0, <2>1, Periods
  <2>5. /\ left[x] * TickMs \in Nat /\ left'[x] * TickMs \in Nat
        /\ left'[x] * TickMs = left[x] * TickMs
             \/ left'[x] * TickMs = left[x] * TickMs - TickMs
    BY <1>0, <2>2, Periods
  <2>6. Tracks(x)
    BY <1>1, <2>1, <2>3
  <2>7. backlog[x] * TickMs \in Nat
    BY <1>0, Periods
  <2> QED
    BY <1>0, <2>1, <2>3, <2>4, <2>5, <2>6, <2>7 DEF Tracks
<1>6. CASE Shutdown
  <2>1. /\ status[x] = "guest" /\ limited[x]
        /\ left'[x] = left[x] /\ age'[x] = age[x] /\ backlog'[x] = backlog[x]
        /\ owed' = owed /\ phase' = phase
    BY <1>6 DEF Shutdown, storeVars, historyVars
  <2> QED
    BY <1>2, <2>1
<1>7. CASE TimePasses
  <2>1. /\ status[x] = "guest" /\ limited[x]
        /\ left'[x] = left[x] /\ backlog'[x] = backlog[x]
    BY <1>7 DEF TimePasses, storeVars
  <2>2. CASE TickMs = 0
    BY <1>1, <2>1, <2>2
  <2>3. CASE TickMs # 0
    <3>1. Tracks(x)
      BY <1>1, <2>1, <2>3
    <3>2. \/ age'[x] = age[x] + 1
          \/ age[x] >= AgeBound /\ age'[x] = age[x]
      BY <1>0, <1>7, <2>1, Conversions DEF TimePasses, Guests
    <3>3. \/ owed' = owed /\ phase' = phase
          \/ owed' = owed /\ phase' = phase + 1
          \/ owed' = owed /\ phase' = 0
          \/ owed' = owed + 1 /\ phase' = 0 /\ phase + 1 = TickMs
      BY <1>7 DEF TimePasses
    <3>4. /\ owed * TickMs \in Nat /\ left[x] * TickMs \in Nat /\ backlog[x] * TickMs \in Nat
          /\ owed' = owed + 1 => owed' * TickMs = owed * TickMs + TickMs
      BY <1>0, Periods
    <3>5. AgeBound >= WholeEpochs * TickMs /\ AgeBound \in Nat
      BY Conversions
    <3>6. CASE WholeEpochs * TickMs <= age[x]
      BY <1>0, <2>3, <3>2, <3>6 DEF Tracks
    <3>7. CASE ~(WholeEpochs * TickMs <= age[x])
      <4>1. age'[x] = age[x] + 1
        BY <1>0, <3>2, <3>5, <3>7
      <4> QED
        BY <1>0, <2>1, <2>3, <3>1, <3>3, <3>4, <3>7, <4>1 DEF Tracks
    <3> QED
      BY <3>6, <3>7
  <2> QED
    BY <2>2, <2>3
<1>8. CASE UNCHANGED vars
  BY <1>2, <1>8 DEF vars, storeVars, tickerVars, historyVars
<1> HIDE DEF Goal
<1> QED
  BY <1>3, <1>4, <1>5, <1>6, <1>7, <1>8, Zenon DEF Next

\* A deadline that is reached has used up the whole epochs of its limit.
LEMMA EpochOnTime ==
  ASSUME EpochInv, [Next]_vars, NEW x \in Exec, status'[x] = "timeout", limited'[x]
  PROVE  WholeEpochs * TickMs < (backlog'[x] + 1) * TickMs + age'[x]
<1> DEFINE Goal == WholeEpochs * TickMs < (backlog'[x] + 1) * TickMs + age'[x]
<1> SUFFICES Goal
  OBVIOUS
<1> USE EpochAssumption
<1>1. ASSUME status[x] = "timeout", limited[x], age'[x] = age[x], backlog'[x] = backlog[x]
      PROVE  Goal
  BY <1>1 DEF EpochInv, NoEarlyTimeout
<1>2. ASSUME NEW e \in Exec, NEW k \in Kinds, NEW lim \in BOOLEAN, NEW kept \in BOOLEAN,
             Start(e, k, lim, kept)
      PROVE  Goal
  BY <1>1, <1>2 DEF Start, EpochInv, TypeOK
<1>3. ASSUME NEW e \in Exec, Return(e)
      PROVE  Goal
  BY <1>1, <1>3 DEF Return, storeVars, EpochInv, TypeOK
<1>4. ASSUME NEW e \in Exec, Interrupt(e)
      PROVE  Goal
  <2>1. age' = age /\ backlog' = backlog /\ limited' = limited
    BY <1>4 DEF Interrupt, storeVars, historyVars
  <2>2. CASE x # e
    BY <1>1, <1>4, <2>1, <2>2 DEF Interrupt, EpochInv, TypeOK
  <2>3. CASE x = e
    <3>1. status[x] = "guest" /\ limited[x] /\ left[x] = 0
      BY <1>4, <2>1, <2>3 DEF Interrupt, Guests
    <3>2. TickMs # 0 /\ Tracks(x)
      BY <3>1 DEF EpochInv, DeadlineTracksTime
    <3>3. owed \in Nat /\ phase \in Nat /\ age[x] \in Nat /\ backlog[x] \in Nat
      BY Conversions DEF EpochInv, TypeOK
    <3>4. /\ owed * TickMs \in Nat /\ backlog[x] * TickMs \in Nat
          /\ (backlog[x] + 1) * TickMs = backlog[x] * TickMs + TickMs
      BY <3>3, Periods
    <3>5. WholeEpochs * TickMs \in Nat /\ left[x] * TickMs = 0
      BY <3>1, Conversions
    <3> QED
      BY <2>1, <3>2, <3>3, <3>4, <3>5 DEF Tracks
  <2> QED
    BY <2>2, <2>3
<1>5. CASE Tick
  BY <1>1, <1>5 DEF Tick, historyVars
<1>6. CASE Shutdown
  BY <1>1, <1>6 DEF Shutdown, storeVars, historyVars
<1>7. CASE TimePasses
  <2>1. status[x] = "timeout" /\ limited[x] /\ backlog'[x] = backlog[x]
    BY <1>7 DEF TimePasses, storeVars
  <2>2. age'[x] = age[x]
    BY <1>7, <2>1 DEF TimePasses, Guests
  <2> QED
    BY <1>1, <2>1, <2>2
<1>8. CASE UNCHANGED vars
  BY <1>1, <1>8 DEF vars, storeVars, historyVars
<1> HIDE DEF Goal
<1> QED
  BY <1>2, <1>3, <1>4, <1>5, <1>6, <1>7, <1>8, Zenon DEF Next

LEMMA EpochStep ==
  ASSUME EpochInv, [Next]_vars
  PROVE  EpochInv'
<1>1. TypeOK' /\ TickerClock' /\ DeadlineHasTicker'
  BY EpochTypes DEF EpochInv
<1>2. DeadlineTracksTime'
  BY <1>1, EpochTracks DEF DeadlineTracksTime
<1>3. NoEarlyTimeout'
  BY EpochOnTime DEF NoEarlyTimeout, WholeEpochs
<1> QED
  BY <1>1, <1>2, <1>3 DEF EpochInv

\* Whatever the limit, the tick rate and the number of workers, however
\* executions start, return, are interrupted or see the ticker shut down, and
\* however late ticks are delivered, no timeout is reported earlier than
\* NoEarlyTimeout allows.
THEOREM NoTimeoutIsEarly == Spec => []NoEarlyTimeout
<1>1. EpochInv => NoEarlyTimeout
  BY DEF EpochInv
<1> QED
  BY EpochInit, EpochStep, <1>1, PTL DEF Spec

\* The swap of the started flag in ensure_epoch_ticker lets one ticker be
\* spawned, and a deadline never counts below zero.
THEOREM EpochIsTyped == Spec => []TypeOK
<1>1. EpochInv => TypeOK
  BY DEF EpochInv
<1> QED
  BY EpochInit, EpochStep, <1>1, PTL DEF Spec

-----------------------------------------------------------------------------
(* The module cache *)

\* A thread that is about to insert, or is evicting, has a module.
OwnsModule == \A t \in Thread : pc[t] \in {"compile", "insert"} => own[t] \in Hash

CacheInv == CacheTypeOK /\ OwnsModule /\ CacheBounded

-----------------------------------------------------------------------------
\* Threads and modules are finitely many, so both sides of the bound count.
LEMMA Counts ==
  ASSUME cached \in SUBSET Hash, max \in MaxCached
  PROVE  /\ IsFiniteSet(cached) /\ Cardinality(cached) \in Nat
         /\ IsFiniteSet(Evicting) /\ Cardinality(Evicting) \in Nat
         /\ max \in Nat /\ Capacity \in Nat \ {0} /\ max <= Capacity
<1>1. IsFiniteSet(cached)
  BY CacheAssumption, FS_Subset
<1>2. Evicting \in SUBSET Thread
  BY DEF Evicting
<1>3. IsFiniteSet(Evicting)
  BY <1>2, CacheAssumption, FS_Subset
<1>4. max \in Nat /\ Capacity \in Nat \ {0} /\ max <= Capacity
  BY CacheAssumption DEF Capacity
<1> QED
  BY <1>1, <1>3, <1>4, FS_CardinalityType

\* Fewer entries and no thread gone from the loop keep the bound.
LEMMA Shrink ==
  ASSUME CacheBounded, cached \in SUBSET Hash, max \in MaxCached,
         cached' \in SUBSET cached, Evicting' = Evicting, max' = max
  PROVE  CacheBounded'
<1>1. Cardinality(cached') <= Cardinality(cached) /\ IsFiniteSet(cached')
  BY Counts, FS_Subset
<1>2. Cardinality(cached') \in Nat
  BY <1>1, FS_CardinalityType
<1>3. Capacity' = Capacity
  BY DEF Capacity
<1> QED
  BY <1>1, <1>2, <1>3, Counts DEF CacheBounded

\* A thread leaves the loop only when the entries are within the capacity.
LEMMA Leave ==
  ASSUME CacheTypeOK, cached' = cached, max' = max, Cardinality(cached) <= Capacity
  PROVE  CacheBounded'
<1>1. Evicting' \in SUBSET Thread
  BY DEF Evicting
<1>2. IsFiniteSet(Evicting')
  BY <1>1, CacheAssumption, FS_Subset
<1>3. Cardinality(Evicting') \in Nat
  BY <1>2, FS_CardinalityType
<1>4. Capacity' = Capacity
  BY DEF Capacity
<1>5. Cardinality(cached) \in Nat /\ Capacity \in Nat
  BY Counts DEF CacheTypeOK
<1> QED
  BY <1>3, <1>4, <1>5 DEF CacheBounded

LEMMA CacheStarts == CacheInit => CacheInv
<1> SUFFICES ASSUME CacheInit PROVE CacheInv
  OBVIOUS
<1>1. CacheTypeOK
  BY CacheAssumption DEF CacheInit, CacheTypeOK
<1>2. OwnsModule
  BY DEF CacheInit, OwnsModule
<1>3. Cardinality(cached) = 0
  BY FS_EmptySet DEF CacheInit
<1> QED
  BY <1>1, <1>2, <1>3, Counts DEF CacheInv, CacheBounded, CacheTypeOK

\* Drawing, handing over and dropping access numbers keeps the order between
\* entries and threads.
LEMMA OrderTyped ==
  ASSUME cached \in SUBSET Hash, older \subseteq (Hash \cup Thread) \X (Hash \cup Thread)
  PROVE  /\ \A S : Without(S) \subseteq (Hash \cup Thread) \X (Hash \cup Thread)
         /\ \A x \in Hash \cup Thread : Newest(x) \subseteq (Hash \cup Thread) \X (Hash \cup Thread)
         /\ \A t \in Thread, h \in Hash :
              Handed(t, h) \subseteq (Hash \cup Thread) \X (Hash \cup Thread)
<1>1. \A S : Without(S) \subseteq (Hash \cup Thread) \X (Hash \cup Thread)
  BY DEF Without
<1>2. Stamped \subseteq Hash \cup Thread
  BY DEF Stamped
<1>3. \A x \in Hash \cup Thread : Newest(x) \subseteq (Hash \cup Thread) \X (Hash \cup Thread)
  BY <1>1, <1>2 DEF Newest
<1>4. ASSUME NEW t \in Thread, NEW h \in Hash
      PROVE  Handed(t, h) \subseteq (Hash \cup Thread) \X (Hash \cup Thread)
  <2>1. \A p \in Without({h}) : p[1] \in Hash \cup Thread /\ p[2] \in Hash \cup Thread
    BY <1>1
  <2>2. SUFFICES ASSUME NEW q \in Handed(t, h)
                 PROVE  q \in (Hash \cup Thread) \X (Hash \cup Thread)
    OBVIOUS
  <2>3. PICK p \in Without({h}) :
          q = << IF p[1] = t THEN h ELSE p[1], IF p[2] = t THEN h ELSE p[2] >>
    BY <2>2 DEF Handed
  <2>4. /\ (IF p[1] = t THEN h ELSE p[1]) \in Hash \cup Thread
        /\ (IF p[2] = t THEN h ELSE p[2]) \in Hash \cup Thread
    BY <2>1
  <2> QED
    BY <2>3, <2>4
<1> QED
  BY <1>1, <1>3, <1>4

\* Every step keeps the types and the owned modules.
LEMMA CacheTypes ==
  ASSUME CacheTypeOK, OwnsModule, [CacheNext]_cacheVars
  PROVE  CacheTypeOK' /\ OwnsModule'
<1>0. max' = max
  BY DEF CacheNext, cacheVars
<1> USE <1>0, CacheAssumption, OrderTyped DEF CacheTypeOK, OwnsModule, Goto
<1>1. ASSUME NEW t \in Thread, NEW h \in Hash, Hit(t, h)
      PROVE  CacheTypeOK' /\ OwnsModule'
  BY <1>1 DEF Hit
<1>2. ASSUME NEW t \in Thread, NEW h \in Hash, Miss(t, h)
      PROVE  CacheTypeOK' /\ OwnsModule'
  BY <1>2 DEF Miss
<1>3. ASSUME NEW t \in Thread, CompileFails(t)
      PROVE  CacheTypeOK' /\ OwnsModule'
  BY <1>3 DEF CompileFails
<1>4. ASSUME NEW t \in Thread, Compiled(t)
      PROVE  CacheTypeOK' /\ OwnsModule'
  BY <1>4 DEF Compiled
<1>5. ASSUME NEW t \in Thread, Insert(t)
      PROVE  CacheTypeOK' /\ OwnsModule'
  BY <1>5 DEF Insert
<1>6. ASSUME NEW t \in Thread, Check(t)
      PROVE  CacheTypeOK' /\ OwnsModule'
  BY <1>6 DEF Check
<1>7. ASSUME NEW t \in Thread, NEW h \in Hash, Pick(t, h)
      PROVE  CacheTypeOK' /\ OwnsModule'
  BY <1>7 DEF Pick
<1>8. ASSUME NEW t \in Thread, NothingToEvict(t)
      PROVE  CacheTypeOK' /\ OwnsModule'
  BY <1>8 DEF NothingToEvict
<1>9. ASSUME NEW t \in Thread, Remove(t)
      PROVE  CacheTypeOK' /\ OwnsModule'
  BY <1>9 DEF Remove
<1>10. CASE Clear
  BY <1>10 DEF Clear
<1>11. CASE UNCHANGED cacheVars
  BY <1>11 DEF cacheVars, threadVars
<1> QED
  BY <1>1, <1>2, <1>3, <1>4, <1>5, <1>6, <1>7, <1>8, <1>9, <1>10, <1>11 DEF CacheNext, Step

\* Every step keeps the bound.
LEMMA CacheBoundStep ==
  ASSUME CacheInv, [CacheNext]_cacheVars
  PROVE  CacheBounded'
<1> USE DEF CacheInv, CacheTypeOK
<1>0. max' = max
  BY DEF CacheNext, cacheVars
<1> USE <1>0
<1>1. ASSUME NEW t \in Thread, Insert(t)
      PROVE  CacheBounded'
  <2>1. own[t] \in Hash
    BY <1>1 DEF Insert, OwnsModule
  <2>2. /\ IsFiniteSet(cached')
        /\ Cardinality(cached') <= Cardinality(cached) + 1
    <3>1. cached' = cached \cup {own[t]}
      BY <1>1 DEF Insert
    <3>2. IsFiniteSet(cached)
      BY Counts
    <3>3. Cardinality(cached) \in Nat
      BY Counts
    <3>4. /\ IsFiniteSet(cached \cup {own[t]})
          /\ \/ Cardinality(cached \cup {own[t]}) = Cardinality(cached)
             \/ Cardinality(cached \cup {own[t]}) = Cardinality(cached) + 1
      BY <3>2, FS_AddElement
    <3> QED
      BY <3>1, <3>3, <3>4
  <2>3. Evicting' = Evicting \cup {t} /\ t \notin Evicting
    BY <1>1 DEF Insert, Goto, Evicting
  <2>4. Cardinality(Evicting') = Cardinality(Evicting) + 1
    BY <2>3, Counts, FS_AddElement
  <2>5. Capacity' = Capacity
    BY DEF Capacity
  <2>6. Cardinality(cached') \in Nat
    BY <2>2, FS_CardinalityType
  <2> QED
    BY <2>2, <2>4, <2>5, <2>6, Counts DEF CacheBounded
<1>2. ASSUME NEW t \in Thread, Check(t)
      PROVE  CacheBounded'
  <2>1. CASE Cardinality(cached) > max
    <3>1. Evicting' = Evicting /\ cached' = cached
      BY <1>2, <2>1 DEF Check, Goto, Evicting
    <3> QED
      BY <3>1, Shrink
  <2>2. CASE ~(Cardinality(cached) > max)
    <3>1. cached' = cached
      BY <1>2 DEF Check, Goto
    <3>2. Cardinality(cached) <= Capacity
      BY <2>2, Counts, CacheAssumption
    <3> QED
      BY <3>1, <3>2, Leave
  <2> QED
    BY <2>1, <2>2
<1>3. ASSUME NEW t \in Thread, NothingToEvict(t)
      PROVE  CacheBounded'
  <2>1. cached' = cached
    BY <1>3 DEF NothingToEvict, Goto
  <2>2. cached \in SUBSET {own[t]}
    BY <1>3 DEF NothingToEvict, Others
  <2>3. Cardinality(cached) <= 1
    <3>1. IsFiniteSet({own[t]}) /\ Cardinality({own[t]}) = 1
      BY FS_Singleton
    <3> QED
      BY <2>2, <3>1, FS_Subset
  <2> QED
    BY <2>1, <2>3, Counts, Leave
<1>4. ASSUME NEW t \in Thread, Remove(t)
      PROVE  CacheBounded'
  <2>1. Evicting' = Evicting /\ cached' \in SUBSET cached
    BY <1>4 DEF Remove, Goto, Evicting
  <2> QED
    BY <2>1, Shrink
<1>5. ASSUME NEW t \in Thread, NEW h \in Hash, Pick(t, h)
      PROVE  CacheBounded'
  <2>1. Evicting' = Evicting /\ cached' = cached
    BY <1>5 DEF Pick, Goto, Evicting
  <2> QED
    BY <2>1, Shrink
<1>6. ASSUME NEW t \in Thread,
             CompileFails(t) \/ Compiled(t) \/ \E h \in Hash : Hit(t, h) \/ Miss(t, h)
      PROVE  CacheBounded'
  <2>1. Evicting' = Evicting /\ cached' = cached
    BY <1>6 DEF CompileFails, Compiled, Hit, Miss, Goto, Evicting
  <2> QED
    BY <2>1, Shrink
<1>7. CASE Clear
  <2>1. Evicting' = Evicting /\ cached' \in SUBSET cached
    BY <1>7 DEF Clear, Evicting
  <2> QED
    BY <2>1, Shrink
<1>8. CASE UNCHANGED cacheVars
  <2>1. Evicting' = Evicting /\ cached' = cached
    BY <1>8 DEF cacheVars, threadVars, Evicting
  <2> QED
    BY <2>1, Shrink
<1> QED
  BY <1>1, <1>2, <1>3, <1>4, <1>5, <1>6, <1>7, <1>8 DEF CacheNext, Step

\* However many threads compile, hit, evict and clear at once, the entries
\* above the capacity never outnumber the threads still in the eviction loop.
THEOREM CacheIsBounded == CacheSpec => []CacheBounded
<1>1. CacheInv /\ [CacheNext]_cacheVars => CacheInv'
  BY CacheTypes, CacheBoundStep DEF CacheInv
<1>2. CacheInv => CacheBounded
  BY DEF CacheInv
<1> QED
  BY CacheStarts, <1>1, <1>2, PTL DEF CacheSpec

\* Entries, access numbers and the victims that threads have picked keep their
\* shape, for any number of threads and modules and any capacity.
THEOREM CacheIsTyped == CacheSpec => []CacheTypeOK
<1>1. CacheInv /\ [CacheNext]_cacheVars => CacheInv'
  BY CacheTypes, CacheBoundStep DEF CacheInv
<1>2. CacheInv => CacheTypeOK
  BY DEF CacheInv
<1> QED
  BY CacheStarts, <1>1, <1>2, PTL DEF CacheSpec
=============================================================================
