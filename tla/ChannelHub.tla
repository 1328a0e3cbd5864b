----------------------------- MODULE ChannelHub -----------------------------
(***************************************************************************)
(* The inter-sandbox channels of isolate-core/src/ipc: a hub, which is a     *)
(* concurrent map from names to channels, and the channels, each a bounded   *)
(* queue behind one lock.  A hub operation looks the channel up, clones the  *)
(* handle and then uses it: in between, the name can be removed or given to  *)
(* another channel.  broadcast, clear_all and remove_all are these steps for *)
(* one channel after the other.                                              *)
(***************************************************************************)
EXTENDS Naturals, Sequences, FiniteSets

CONSTANTS
  Thread,         \* callers
  Name,           \* channel ids
  MaxChannels,    \* max_channels
  Capacities,     \* the capacities create_channel is called with
  DefaultCapacity,\* default_capacity
  AllowDynamic,   \* allow_dynamic_creation
  Senders,        \* threads in allowed_senders of a channel made by create_channel
  Receivers,      \* threads in its allowed_receivers
  MaxCreated,     \* bound on the channels created
  MaxMessages,    \* bound on the messages accepted
  None            \* no name

ASSUME HubAssumption ==
  /\ IsFiniteSet(Thread) /\ Thread # {} /\ IsFiniteSet(Name)
  /\ MaxChannels \in Nat
  /\ Capacities \subseteq Nat /\ DefaultCapacity \in Nat
  /\ AllowDynamic \in BOOLEAN
  /\ Senders \subseteq Thread /\ Receivers \subseteq Thread
  /\ MaxCreated \in Nat /\ MaxMessages \in Nat
  /\ None \notin Name

Ids == 1 .. MaxCreated
Messages == 1 .. MaxMessages

VARIABLES
  hub,       \* channels: the channel of every registered name
  chans,     \* the configuration, queue and statistics of every channel
  created,   \* number of channels created
  accepted,  \* number of messages accepted by a channel
  expired,   \* messages that have outlived their ttl
  pc,        \* pc[t]: what thread t does next
  name,      \* name[t]: the name t creates
  handle,    \* handle[t]: the channel t holds a clone of
  lastIn,    \* history: the newest message that each channel accepted
  lastOut    \* history: the newest message that each channel delivered

vars == << hub, chans, created, accepted, expired, pc, name, handle, lastIn, lastOut >>
threads == << pc, name, handle >>
messages == << accepted, expired, lastIn, lastOut >>

\* Channel::new; the capacity is that of the configuration it is given.  behind is
\* history: since queue_depth was last written, receive has removed messages.
NewChannel(cap, drop, open) ==
  [cap |-> cap, drop |-> drop, open |-> open, queue |-> << >>,
   sent |-> 0, received |-> 0, dropped |-> 0, depth |-> 0, behind |-> FALSE]
NoChannel == NewChannel(0, FALSE, TRUE)

Init ==
  /\ hub = << >> /\ chans = [c \in Ids |-> NoChannel] /\ created = 0
  /\ accepted = 0 /\ expired = {}
  /\ pc = [t \in Thread |-> "idle"]
  /\ name = [t \in Thread |-> None]
  /\ handle = [t \in Thread |-> 0]
  /\ lastIn = [c \in Ids |-> 0] /\ lastOut = [c \in Ids |-> 0]

-----------------------------------------------------------------------------
(* The hub *)

\* get: the caller holds a clone of the channel from now on.
Get(t, n) ==
  /\ pc[t] = "idle" /\ n \in DOMAIN hub
  /\ handle' = [handle EXCEPT ![t] = hub[n]]
  /\ pc' = [pc EXCEPT ![t] = "have"]
  /\ UNCHANGED << hub, chans, created, name, messages >>

\* get_or_create that does not find the name goes on as create_channel.
GetOrCreate(t, n) ==
  /\ pc[t] = "idle" /\ AllowDynamic /\ n \notin DOMAIN hub
  /\ pc' = [pc EXCEPT ![t] = "goc_len"]
  /\ name' = [name EXCEPT ![t] = n]
  /\ UNCHANGED << hub, chans, created, handle, messages >>

Creating(t, n) == pc[t] = "idle" \/ (pc[t] = "goc_len" /\ name[t] = n)

\* Mutant: the limit is not looked at.
CreateUnbounded(t, n) ==
  /\ Creating(t, n)
  /\ pc' = [pc EXCEPT ![t] = IF @ = "idle" THEN "create_contains" ELSE "goc_contains"]
  /\ name' = [name EXCEPT ![t] = n]
  /\ UNCHANGED << hub, chans, created, handle, messages >>

\* create_channel: the number of channels is compared with the limit ...
CreateLen(t, n) ==
  /\ Creating(t, n)
  /\ IF Cardinality(DOMAIN hub) < MaxChannels
     THEN /\ pc' = [pc EXCEPT ![t] =
               IF @ = "idle" THEN "create_contains" ELSE "goc_contains"]
          /\ name' = [name EXCEPT ![t] = n]
     ELSE /\ pc' = [pc EXCEPT ![t] = "idle"]
          /\ name' = [name EXCEPT ![t] = None]
  /\ UNCHANGED << hub, chans, created, handle, messages >>

\* ... then the name is looked up ...
CreateContains(t) ==
  /\ pc[t] \in {"create_contains", "goc_contains"}
  /\ IF name[t] \in DOMAIN hub
     THEN /\ pc' = [pc EXCEPT ![t] = "idle"]
          /\ name' = [name EXCEPT ![t] = None]
     ELSE /\ pc' = [pc EXCEPT ![t] =
               IF @ = "goc_contains" THEN "goc_insert" ELSE "create_insert"]
          /\ UNCHANGED name
  /\ UNCHANGED << hub, chans, created, handle, messages >>

\* hub.insert: a channel that has the name already is replaced.
Insert(n, c) == hub' = [m \in DOMAIN hub \union {n} |-> IF m = n THEN c ELSE hub[m]]

\* ... and the new channel is inserted.
CreateInsert(t) ==
  /\ pc[t] \in {"create_insert", "goc_insert"} /\ created < MaxCreated
  /\ \E cap \in Capacities, drop \in BOOLEAN :
       chans' = [chans EXCEPT ![created + 1] =
         IF pc[t] = "goc_insert" THEN NewChannel(DefaultCapacity, TRUE, TRUE)
         ELSE NewChannel(cap, drop, FALSE)]
  /\ created' = created + 1
  /\ Insert(name[t], created + 1)
  /\ IF pc[t] = "goc_insert"
     THEN pc' = [pc EXCEPT ![t] = "goc_get"] /\ UNCHANGED name
     ELSE pc' = [pc EXCEPT ![t] = "idle"] /\ name' = [name EXCEPT ![t] = None]
  /\ UNCHANGED << handle, messages >>

\* Mutant: the missing channel goes unnoticed.
GetCreatedUnchecked(t) ==
  /\ pc[t] = "goc_get"
  /\ pc' = [pc EXCEPT ![t] = "have"]
  /\ name' = [name EXCEPT ![t] = None]
  /\ handle' = [handle EXCEPT ![t] = IF name[t] \in DOMAIN hub THEN hub[name[t]] ELSE 0]
  /\ UNCHANGED << hub, chans, created, messages >>

\* get_or_create returns what the name stands for now; when the name has been
\* removed since, the expect() panics.
GetCreated(t) ==
  /\ pc[t] = "goc_get"
  /\ IF name[t] \in DOMAIN hub
     THEN /\ handle' = [handle EXCEPT ![t] = hub[name[t]]]
          /\ pc' = [pc EXCEPT ![t] = "have"]
     ELSE /\ pc' = [pc EXCEPT ![t] = "panicked"]
          /\ UNCHANGED handle
  /\ name' = [name EXCEPT ![t] = None]
  /\ UNCHANGED << hub, chans, created, messages >>

\* remove, remove_all.
Remove(n) ==
  /\ n \in DOMAIN hub
  /\ hub' = [m \in DOMAIN hub \ {n} |-> hub[m]]
  /\ UNCHANGED << chans, created, threads, messages >>

-----------------------------------------------------------------------------
(* A channel, through a handle *)

SenderAllowed(t, c) == chans[c].open \/ Senders = {} \/ t \in Senders
ReceiverAllowed(t, c) == chans[c].open \/ Receivers = {} \/ t \in Receivers

\* send: a full channel gives up its oldest message or refuses.  A channel of
\* capacity 0 is full when it is empty: it counts a drop and has nothing to drop.
Send(t) ==
  LET c == handle[t]
      ch == chans[c]
      full == Len(ch.queue) >= ch.cap
      kept == IF full /\ ch.queue # << >> THEN Tail(ch.queue) ELSE ch.queue
  IN  /\ pc[t] = "have" /\ SenderAllowed(t, c)
      /\ full => ch.drop
      /\ accepted < MaxMessages
      /\ accepted' = accepted + 1
      /\ chans' = [chans EXCEPT ![c] = [ch EXCEPT
           !.queue = Append(kept, accepted + 1),
           !.dropped = IF full THEN @ + 1 ELSE @,
           !.sent = @ + 1,
           !.depth = Len(kept) + 1, !.behind = FALSE]]
      /\ lastIn' = [lastIn EXCEPT ![c] = accepted + 1]
      /\ UNCHANGED << hub, created, threads, expired, lastOut >>

\* The number of messages that receive() removes from the front as expired.
Stale(queue) ==
  CHOOSE n \in 0 .. Len(queue) :
    /\ \A i \in 1 .. n : queue[i] \in expired
    /\ n < Len(queue) => queue[n + 1] \notin expired

\* Mutant: the newest message is taken (pop_back).
ReceiveNewest(t) ==
  LET c == handle[t]
      queue == chans[c].queue
  IN  /\ pc[t] = "have" /\ ReceiverAllowed(t, c) /\ queue # << >>
      /\ chans' = [chans EXCEPT ![c].queue = SubSeq(queue, 1, Len(queue) - 1),
                                ![c].received = @ + 1, ![c].depth = Len(queue) - 1,
                                ![c].behind = FALSE]
      /\ lastOut' = [lastOut EXCEPT ![c] = queue[Len(queue)]]
      /\ UNCHANGED << hub, created, threads, accepted, expired, lastIn >>

\* receive: the messages in front that have expired go first.  When no other is
\* left it returns, and queue_depth stays as it is.
Receive(t) ==
  LET c == handle[t]
      ch == chans[c]
      n == Stale(ch.queue)
      fresh == SubSeq(ch.queue, n + 1, Len(ch.queue))
  IN  /\ pc[t] = "have" /\ ReceiverAllowed(t, c)
      /\ IF n < Len(ch.queue)
         THEN /\ chans' = [chans EXCEPT ![c] = [ch EXCEPT
                   !.queue = Tail(fresh), !.dropped = @ + n,
                   !.received = @ + 1, !.depth = Len(fresh) - 1, !.behind = FALSE]]
              /\ lastOut' = [lastOut EXCEPT ![c] = ch.queue[n + 1]]
         ELSE /\ chans' = [chans EXCEPT ![c] = [ch EXCEPT
                   !.queue = << >>, !.dropped = @ + n, !.behind = @ \/ n > 0]]
              /\ UNCHANGED lastOut
      /\ UNCHANGED << hub, created, threads, accepted, expired, lastIn >>

\* Mutant: the depth of the queue is forgotten.
ClearForgetsDepth(t) ==
  /\ pc[t] = "have"
  /\ chans' = [chans EXCEPT ![handle[t]].queue = << >>,
                            ![handle[t]].dropped = @ + Len(chans[handle[t]].queue)]
  /\ UNCHANGED << hub, created, threads, messages >>

\* clear, clear_all.
Clear(t) ==
  LET c == handle[t]
      ch == chans[c]
  IN  /\ pc[t] = "have"
      /\ chans' = [chans EXCEPT ![c] = [ch EXCEPT
           !.queue = << >>, !.dropped = @ + Len(ch.queue), !.depth = 0, !.behind = FALSE]]
      /\ UNCHANGED << hub, created, threads, messages >>

\* The caller's clone goes out of scope.
Release(t) ==
  /\ pc[t] = "have"
  /\ pc' = [pc EXCEPT ![t] = "idle"]
  /\ handle' = [handle EXCEPT ![t] = 0]
  /\ UNCHANGED << hub, chans, created, name, messages >>

\* The ttl of a message runs out.
Expire(m) ==
  /\ m <= accepted /\ m \notin expired
  /\ expired' = expired \union {m}
  /\ UNCHANGED << hub, chans, created, threads, accepted, lastIn, lastOut >>

-----------------------------------------------------------------------------
Step(t) == \/ \E n \in Name : Get(t, n) \/ GetOrCreate(t, n) \/ CreateLen(t, n)
           \/ CreateContains(t) \/ CreateInsert(t) \/ GetCreated(t)
           \/ Send(t) \/ Receive(t) \/ Clear(t) \/ Release(t)

Next == \/ \E t \in Thread : Step(t)
        \/ \E n \in Name : Remove(n)
        \/ \E m \in Messages : Expire(m)

Spec == Init /\ [][Next]_vars

-----------------------------------------------------------------------------
Channel == [cap : Nat, drop : BOOLEAN, open : BOOLEAN, queue : Seq(Messages),
            sent : Nat, received : Nat, dropped : Nat, depth : Nat, behind : BOOLEAN]
PCs == {"idle", "have", "create_contains", "goc_len", "goc_contains", "create_insert",
        "goc_insert", "goc_get", "panicked"}

TypeOK ==
  /\ DOMAIN hub \subseteq Name /\ \A n \in DOMAIN hub : hub[n] \in 1 .. created
  /\ chans \in [Ids -> Channel]
  /\ created \in 0 .. MaxCreated /\ accepted \in 0 .. MaxMessages
  /\ expired \subseteq Messages
  /\ pc \in [Thread -> PCs] /\ name \in [Thread -> Name \union {None}]
  /\ handle \in [Thread -> 0 .. created]
  /\ \A t \in Thread : pc[t] = "have" => handle[t] # 0
  /\ lastIn \in [Ids -> 0 .. accepted] /\ lastOut \in [Ids -> 0 .. accepted]

-----------------------------------------------------------------------------
(* Properties *)

\* Whatever mix of overflow, expiry, clear and receive empties a channel, its
\* statistics add up.  Of a channel that can hold something, every message counted
\* as sent is received, dropped or still queued, and the queue keeps within the
\* capacity.  A channel of capacity 0 holds a message all the same, and counts a
\* drop for every message that it accepts.  queue_depth is the length of the
\* queue, except after a receive that found expired messages only.
StatsAddUp ==
  \A c \in 1 .. created :
    LET ch == chans[c]
        l == Len(ch.queue)
    IN  /\ ch.cap > 0 => ch.sent = ch.received + ch.dropped + l /\ l <= ch.cap
        /\ ch.cap = 0 => /\ l <= 1 /\ ch.sent <= ch.dropped
                         /\ ch.received + ch.dropped + l <= 2 * ch.sent
        /\ IF ch.behind THEN l = 0 ELSE ch.depth = l

\* Threads between the check of max_channels and the insertion.
Creators ==
  {t \in Thread : pc[t] \in {"create_contains", "goc_contains", "create_insert", "goc_insert"}}

\* max_channels is checked before the insertion that it bounds: callers that
\* pass the check together exceed it, by less than their number.  The channels
\* that are on their way into the hub are counted with those that are in it.
HubBounded ==
  Cardinality(DOMAIN hub) + Cardinality(Creators) < MaxChannels + Cardinality(Thread)

\* A channel delivers in order and at most once, and gives up only its oldest
\* messages, also for those who hold on to a handle while its name is removed or
\* given to another channel.
Fifo == INSTANCE FifoWithLoss WITH
  Channels <- Ids,
  top <- lastIn,
  pending <- [c \in Ids |-> {chans[c].queue[i] : i \in DOMAIN chans[c].queue}],
  last <- lastOut
ImplementsFifo == Fifo!Spec
=============================================================================
