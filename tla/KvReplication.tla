--------------------------- MODULE KvReplication ----------------------------
(***************************************************************************)
(* The replicated data types of isolate-core/src/kv/replication.rs: a        *)
(* last-writer-wins register with its vector clock, an observed-remove set   *)
(* and a positive-negative counter, one of each on every node.  A node       *)
(* changes its own copy and ships its state; the other nodes merge what      *)
(* arrives.  The transport is outside the code: a state can arrive late,     *)
(* after newer ones, several times or never.                                 *)
(***************************************************************************)
EXTENDS Naturals, FiniteSets

CONSTANTS
  Site,        \* node ids; numbers, for the code compares them
  Element,     \* elements of the sets
  MaxTime,     \* bound on the clock readings
  MaxUpdates,  \* bound on the updates
  MaxNet       \* bound on the states in transit

ASSUME ReplicationAssumption ==
  /\ Site \subseteq Nat
  /\ MaxTime \in Nat /\ MaxUpdates \in Nat /\ MaxNet \in Nat

VARIABLES
  rep,      \* rep[n]: the objects of node n and the updates they have seen
  net,      \* states in transit
  updates,  \* number of updates made
  skewed    \* history: has a write been stamped before what it replaced?

replicaVars == << rep, net, updates, skewed >>

Zero == [m \in Site |-> 0]
PointwiseMax(f, g) == [m \in Site |-> IF f[m] >= g[m] THEN f[m] ELSE g[m]]

-----------------------------------------------------------------------------
(* VectorClock: a node without an entry has the value 0 *)

Entries(vc) == {m \in Site : vc[m] > 0}

\* Mutant: nodes that only the other clock knows are left out.
HappenedBeforeOwnNodes(a, b) ==
  (\A m \in Entries(a) : a[m] <= b[m]) /\ \E m \in Entries(a) : a[m] < b[m]

HappenedBefore(a, b) ==
  /\ \A m \in Entries(a) : a[m] <= b[m]
  /\ \/ \E m \in Entries(a) : a[m] < b[m]
     \/ Entries(b) \ Entries(a) # {}

Concurrent(a, b) == ~HappenedBefore(a, b) /\ ~HappenedBefore(b, a) /\ a # b

-----------------------------------------------------------------------------
(* LwwRegister: the value is identified by the write, node and vclock entry *)

\* The order of two registers: by timestamp, then by node id.
Older(a, b) == a.ts < b.ts \/ (a.ts = b.ts /\ a.node < b.node)

\* LwwRegister::new
NewRegister(n) == [ts |-> 0, node |-> n, write |-> 1, vclock |-> [Zero EXCEPT ![n] = 1]]

SetRegister(r, n, ts) ==
  [ts |-> ts, node |-> n, write |-> r.vclock[n] + 1,
   vclock |-> [r.vclock EXCEPT ![n] = @ + 1]]

\* Mutant: the register that arrives wins a tie.
MergeRegisterTie(r, o) ==
  LET winner == IF r.ts <= o.ts THEN o ELSE r
  IN  [winner EXCEPT !.vclock = PointwiseMax(r.vclock, o.vclock)]

MergeRegister(r, o) ==
  LET winner == IF Older(r, o) THEN o ELSE r
  IN  [winner EXCEPT !.vclock = PointwiseMax(r.vclock, o.vclock)]

-----------------------------------------------------------------------------
(* OrSet: elements as pairs of an element and one of its tags *)

NewSet == [elements |-> {}, tombs |-> {}, counter |-> 0]

\* A tag is the node and its counter.
AddElement(s, n, e) ==
  [s EXCEPT !.counter = @ + 1,
            !.elements = @ \union {<< e, << n, s.counter + 1 >> >>}]

TagsOf(s, e) == {p[2] : p \in {q \in s.elements : q[1] = e}}

\* Mutant: the element is remembered as removed, not its tags.
RemoveByElement(s, e) ==
  [s EXCEPT !.elements = {p \in @ : p[1] # e}, !.tombs = @ \union {e}]

RemoveElement(s, e) ==
  [s EXCEPT !.elements = {p \in @ : p[1] # e}, !.tombs = @ \union TagsOf(s, e)]

\* Mutant: what arrives is not compared with the tombstones.
MergeSetUnfiltered(s, o) ==
  LET tombs == s.tombs \union o.tombs
  IN  [s EXCEPT !.tombs = tombs,
                !.elements = {p \in @ : p[2] \notin tombs} \union o.elements]

MergeSet(s, o) ==
  LET tombs == s.tombs \union o.tombs
  IN  [s EXCEPT !.tombs = tombs,
                !.elements = {p \in s.elements \union o.elements : p[2] \notin tombs}]

-----------------------------------------------------------------------------
(* PnCounter: two GCounters *)

NewCounter == [positive |-> Zero, negative |-> Zero]

\* Mutant: the counts are added.
MergeCounterSum(c, o) ==
  [positive |-> [m \in Site |-> c.positive[m] + o.positive[m]],
   negative |-> [m \in Site |-> c.negative[m] + o.negative[m]]]

MergeCounter(c, o) ==
  [positive |-> PointwiseMax(c.positive, o.positive),
   negative |-> PointwiseMax(c.negative, o.negative)]

-----------------------------------------------------------------------------
(* An update as history: what was done and, for the node, the how-manieth.  *)
Update(op, n, i, x) == [op |-> op, node |-> n, i |-> i, x |-> x]

ReplicaInit ==
  /\ rep = [n \in Site |-> [reg |-> NewRegister(n), set |-> NewSet, cnt |-> NewCounter,
                            seen |-> {Update("set", n, 1, 0)}]]
  /\ net = {} /\ updates = 0 /\ skewed = FALSE

\* Node n replaces its objects by those of r, having made update u.
Become(n, r, u) ==
  /\ updates < MaxUpdates
  /\ updates' = updates + 1
  /\ rep' = [rep EXCEPT ![n] = [r EXCEPT !.seen = @ \union {u}]]
  /\ UNCHANGED net

\* LwwRegister::set, at whatever the wall clock of the node reads.
Set(n) ==
  \E ts \in 1 .. MaxTime :
    LET r == SetRegister(rep[n].reg, n, ts)
    IN  /\ Become(n, [rep[n] EXCEPT !.reg = r], Update("set", n, r.write, ts))
        /\ skewed' = (skewed \/ ~Older(rep[n].reg, r))

Add(n, e) ==
  LET s == AddElement(rep[n].set, n, e)
  IN  /\ Become(n, [rep[n] EXCEPT !.set = s], Update("add", n, s.counter, e))
      /\ UNCHANGED skewed

\* Removes the tags that this node has observed.
Remove(n, e) ==
  /\ TagsOf(rep[n].set, e) # {}
  /\ Become(n, [rep[n] EXCEPT !.set = RemoveElement(@, e)],
            Update("remove", n, 0, TagsOf(rep[n].set, e)))
  /\ UNCHANGED skewed

Increment(n) ==
  /\ Become(n, [rep[n] EXCEPT !.cnt.positive[n] = @ + 1],
            Update("inc", n, rep[n].cnt.positive[n] + 1, 0))
  /\ UNCHANGED skewed

Decrement(n) ==
  /\ Become(n, [rep[n] EXCEPT !.cnt.negative[n] = @ + 1],
            Update("dec", n, rep[n].cnt.negative[n] + 1, 0))
  /\ UNCHANGED skewed

Ship(n) ==
  /\ Cardinality(net) < MaxNet
  /\ net' = net \union {rep[n]}
  /\ UNCHANGED << rep, updates, skewed >>

Lose(s) == net' = net \ {s} /\ UNCHANGED << rep, updates, skewed >>

\* A state arrives, and may arrive again.
Merge(n, s) ==
  /\ rep' = [rep EXCEPT ![n] =
       [reg |-> MergeRegister(@.reg, s.reg), set |-> MergeSet(@.set, s.set),
        cnt |-> MergeCounter(@.cnt, s.cnt), seen |-> @.seen \union s.seen]]
  /\ UNCHANGED << net, updates, skewed >>

ReplicaNext ==
  \/ \E n \in Site : \/ Set(n) \/ Increment(n) \/ Decrement(n) \/ Ship(n)
                     \/ \E e \in Element : Add(n, e) \/ Remove(n, e)
                     \/ \E s \in net : Merge(n, s)
  \/ \E s \in net : Lose(s)

ReplicaSpec == ReplicaInit /\ [][ReplicaNext]_replicaVars

-----------------------------------------------------------------------------
Tags == Site \X Nat
Register == [ts : Nat, node : Site, write : Nat, vclock : [Site -> Nat]]
Counter == [positive : [Site -> Nat], negative : [Site -> Nat]]
UpdateType(u) ==
  /\ u.node \in Site /\ u.i \in Nat
  /\ \/ u.op = "set" /\ u.x \in Nat
     \/ u.op = "add" /\ u.x \in Element
     \/ u.op = "remove" /\ u.x \subseteq Tags
     \/ u.op \in {"inc", "dec"}
Replica(r) ==
  /\ DOMAIN r = {"reg", "set", "cnt", "seen"}
  /\ r.reg \in Register /\ r.cnt \in Counter
  /\ DOMAIN r.set = {"elements", "tombs", "counter"}
  /\ r.set.elements \subseteq Element \X Tags
  /\ r.set.tombs \subseteq Tags /\ r.set.counter \in Nat
  /\ \A u \in r.seen : UpdateType(u)

ReplicaTypeOK ==
  /\ DOMAIN rep = Site
  /\ \A n \in Site : Replica(rep[n])
  /\ \A s \in net : Replica(s)
  /\ updates \in 0 .. MaxUpdates /\ skewed \in BOOLEAN

-----------------------------------------------------------------------------
(* Properties: what a replica holds is what its updates amount to, whatever  *)
(* the order, the repetition and the loss of the states that brought them.   *)

Seen(r, op) == {u \in r.seen : u.op = op}
Tag(u) == << u.node, u.i >>

Removed(r) == UNION {u.x : u \in Seen(r, "remove")}
SetMeans(r) ==
  /\ r.set.tombs = Removed(r)
  /\ r.set.elements =
       {<< u.x, Tag(u) >> : u \in {v \in Seen(r, "add") : Tag(v) \notin Removed(r)}}

\* OR-Set: an element is in the set iff some addition of it that the replica has
\* seen was observed by no removal it has seen.  An addition that is concurrent
\* with a removal wins, and a removed tag never comes back with an old state.
SetReflectsSeen == \A n \in Site : SetMeans(rep[n])

\* The numbers of the updates of a kind that node m made and r has seen.
Numbers(r, op, m) == {u.i : u \in {v \in Seen(r, op) : v.node = m}}

CounterMeans(r) ==
  \A m \in Site : /\ Numbers(r, "inc", m) = 1 .. r.cnt.positive[m]
                  /\ Numbers(r, "dec", m) = 1 .. r.cnt.negative[m]

\* PN-Counter: an increment or a decrement is counted once, however often the
\* states that contain it are merged.
CounterReflectsSeen == \A n \in Site : CounterMeans(rep[n])

\* Vector clock: one register happened before another exactly when the writes it
\* has seen are a proper part of those the other has seen, and the two are
\* concurrent exactly when each has seen a write that the other has not.
ClockIsCausal ==
  \A n, m \in Site :
    LET a == Seen(rep[n], "set")
        b == Seen(rep[m], "set")
    IN  /\ HappenedBefore(rep[n].reg.vclock, rep[m].reg.vclock) <=> a \subseteq b /\ a # b
        /\ Concurrent(rep[n].reg.vclock, rep[m].reg.vclock)
             <=> ~(a \subseteq b) /\ ~(b \subseteq a)

LatestWins(r) ==
  \A u \in Seen(r, "set") :
    \/ u.node = r.reg.node /\ u.i = r.reg.write
    \/ Older([ts |-> u.x, node |-> u.node], r.reg)

\* LWW-Register: as long as no node has stamped a write before the one it
\* replaced, replicas that have seen the same writes hold the same value, the one
\* with the last stamp.  A clock that lags behind a stamp that was merged, or two
\* writes of a node at one clock reading, break this.
LastWriterWins == ~skewed => \A n \in Site : LatestWins(rep[n])
=============================================================================
