----------------------------- MODULE ModuleCache -----------------------------
(***************************************************************************)
(* The engine's cache of compiled modules (WasmEngine::compile and          *)
(* clear_cache, isolate-core/src/engine/wasm.rs).  Threads share a DashMap   *)
(* and a counter; each map operation is one step, and other threads act     *)
(* between the lookup, the compilation, the insertion and every round of    *)
(* the eviction loop.                                                       *)
(*                                                                          *)
(* Of the access numbers only the order matters: `older' relates the        *)
(* entries, and the threads that have drawn a number and not yet inserted.  *)
(***************************************************************************)
EXTENDS Naturals, FiniteSets

CONSTANTS
  Thread,       \* threads that call compile
  Hash,         \* module hashes
  MaxCached,    \* the values that max_cached_modules may have
  None          \* no hash

ASSUME CacheAssumption ==
  /\ IsFiniteSet(Thread) /\ IsFiniteSet(Hash)
  /\ MaxCached \subseteq Nat
  /\ None \notin Hash
  /\ Thread \cap Hash = {}

VARIABLES
  pc,       \* pc[t]: "idle", "compile", "insert", "check", "pick" or "remove"
  own,      \* own[t]: the hash t compiles
  victim,   \* victim[t]: oldest_key
  cached,   \* keys of module_cache
  older,    \* <<x, y>>: the access_seq of x was drawn before that of y
  max       \* max_cached_modules, fixed when the engine is made

threadVars == << pc, own, victim, cached, older >>
cacheVars == << threadVars, max >>

\* Threads in the eviction loop.
Evicting == {t \in Thread : pc[t] \in {"check", "pick", "remove"}}

Goto(t, label) == pc' = [pc EXCEPT ![t] = label]

-----------------------------------------------------------------------------
CacheInit ==
  /\ pc = [t \in Thread |-> "idle"]
  /\ own = [t \in Thread |-> None]
  /\ victim = [t \in Thread |-> None]
  /\ cached = {}
  /\ older = {}
  /\ max \in MaxCached

\* What has an access number: the entries, and the threads about to insert.
Stamped == cached \cup {t \in Thread : pc[t] = "insert"}

Without(S) == {p \in older : p[1] \notin S /\ p[2] \notin S}

\* access_counter.fetch_add: x gets a number above all others.
Newest(x) == Without({x}) \cup ((Stamped \ {x}) \X {x})

\* The entry for h gets the number that t has drawn.
Handed(t, h) ==
  LET to(x) == IF x = t THEN h ELSE x
  IN  {<< to(p[1]), to(p[2]) >> : p \in Without({h})}

\* A cache hit refreshes the entry under its shard lock and returns.
Hit(t, h) ==
  /\ pc[t] = "idle"
  /\ h \in cached
  /\ older' = Newest(h)
  /\ UNCHANGED << pc, own, victim, cached >>

Miss(t, h) ==
  /\ pc[t] = "idle"
  /\ h \notin cached
  /\ own' = [own EXCEPT ![t] = h]
  /\ Goto(t, "compile")
  /\ UNCHANGED << victim, cached, older >>

\* Module::new rejects the module.
CompileFails(t) ==
  /\ pc[t] = "compile"
  /\ Goto(t, "idle")
  /\ UNCHANGED << own, victim, cached, older >>

\* The module is compiled and an access number drawn for it.
Compiled(t) ==
  /\ pc[t] = "compile"
  /\ older' = Newest(t)
  /\ Goto(t, "insert")
  /\ UNCHANGED << own, victim, cached >>

\* Replaces the entry another thread may have inserted meanwhile.
Insert(t) ==
  /\ pc[t] = "insert"
  /\ cached' = cached \cup {own[t]}
  /\ older' = Handed(t, own[t])
  /\ Goto(t, "check")
  /\ UNCHANGED << own, victim >>

\* while module_cache.len() > max_cached_modules; compile returns otherwise.
Check(t) ==
  /\ pc[t] = "check"
  /\ Goto(t, IF Cardinality(cached) > max THEN "pick" ELSE "idle")
  /\ UNCHANGED << own, victim, cached, older >>

\* The candidates for eviction.
Others(t) == cached \ {own[t]}

Oldest(t, h) == h \in Others(t) /\ \A g \in Others(t) : << g, h >> \notin older

Pick(t, h) ==
  /\ pc[t] = "pick"
  /\ Oldest(t, h)
  /\ victim' = [victim EXCEPT ![t] = h]
  /\ Goto(t, "remove")
  /\ UNCHANGED << own, cached, older >>

\* Nothing but the entry just inserted is left: break.
NothingToEvict(t) ==
  /\ pc[t] = "pick"
  /\ Others(t) = {}
  /\ Goto(t, "idle")
  /\ UNCHANGED << own, victim, cached, older >>

\* Mutant: a single check instead of the loop.
RemoveOnce(t) ==
  /\ pc[t] = "remove"
  /\ cached' = cached \ {victim[t]}
  /\ older' = Without({victim[t]})
  /\ Goto(t, "idle")
  /\ UNCHANGED << own, victim >>

\* Mutant: the loop goes on with the key it has, which is gone by then.
RemoveKeepsKey(t) ==
  /\ pc[t] = "remove"
  /\ cached' = cached \ {victim[t]}
  /\ older' = Without({victim[t]})
  /\ IF Cardinality(cached') > max THEN UNCHANGED pc ELSE Goto(t, "idle")
  /\ UNCHANGED << own, victim >>

\* The victim may be gone, replaced or refreshed since it was picked.
Remove(t) ==
  /\ pc[t] = "remove"
  /\ cached' = cached \ {victim[t]}
  /\ older' = Without({victim[t]})
  /\ Goto(t, "check")
  /\ UNCHANGED << own, victim >>

\* clear_cache.
Clear ==
  /\ cached' = {}
  /\ older' = Without(cached)
  /\ UNCHANGED << pc, own, victim >>

-----------------------------------------------------------------------------
Step(t) ==
  \/ CompileFails(t) \/ Compiled(t) \/ Insert(t) \/ Check(t)
  \/ (\E h \in Hash : Pick(t, h)) \/ NothingToEvict(t) \/ Remove(t)

CacheNext ==
  /\ \/ \E t \in Thread : Step(t) \/ \E h \in Hash : Hit(t, h) \/ Miss(t, h)
     \/ Clear
  /\ UNCHANGED max

CacheSpec == CacheInit /\ [][CacheNext]_cacheVars

\* Every thread that is in compile() is scheduled.
FairCacheSpec == CacheSpec /\ \A t \in Thread : WF_threadVars(Step(t))

-----------------------------------------------------------------------------
(* Properties *)

CacheTypeOK ==
  /\ pc \in [Thread -> {"idle", "compile", "insert", "check", "pick", "remove"}]
  /\ own \in [Thread -> Hash \cup {None}]
  /\ victim \in [Thread -> Hash \cup {None}]
  /\ cached \in SUBSET Hash
  /\ older \subseteq (Hash \cup Thread) \X (Hash \cup Thread)
  /\ max \in MaxCached

\* What the loop leaves behind: max_cached_modules, or the one entry that a
\* thread does not evict because it has just inserted it.
Capacity == IF max = 0 THEN 1 ELSE max

\* "Using a while loop instead of a single check handles the case where
\* multiple concurrent compilers insert simultaneously": each entry above the
\* capacity is the business of a thread that is still in the eviction loop,
\* so the cache is within its capacity whenever no compile() is in progress.
CacheBounded == Cardinality(cached) <= Capacity + Cardinality(Evicting)

\* compile() returns, unless other threads insert for ever: the eviction loop
\* ends although victims may be gone before it removes them, entries are hit or
\* cleared meanwhile, and nothing may be left that it can evict.
CompileReturns ==
  \A t \in Thread :
    <>[](\A u \in Thread \ {t} : pc[u] # "insert")
      => ((pc[t] # "idle") ~> (pc[t] = "idle"))
=============================================================================
