-------------------------- MODULE ChannelHubProofs --------------------------
(***************************************************************************)
(* For any number of threads, names, channels and messages: the statistics  *)
(* of a channel add up, the hub exceeds its limit by less than the number   *)
(* of threads, and every channel is a first-in first-out queue that loses   *)
(* only its oldest messages.                                                *)
(***************************************************************************)
EXTENDS ChannelHub, FiniteSetTheorems, SequenceTheorems, WellFoundedInduction, TLAPS

\* The messages of a queue; they are in the order in which they were accepted,
\* and top is the newest.
Elems(queue) == {queue[i] : i \in DOMAIN queue}
Increasing(queue, top) ==
  /\ \A i \in 1 .. Len(queue) : queue[i] <= top
  /\ \A i, j \in 1 .. Len(queue) : i < j => queue[i] < queue[j]

\* The numbers of a channel: its capacity, the length of its queue, and the
\* messages counted as sent, received and dropped.
Counts(cap, l, sent, received, dropped) ==
  /\ cap > 0 => sent = received + dropped + l /\ l <= cap
  /\ cap = 0 => l <= 1 /\ sent <= dropped /\ received + dropped + l <= 2 * sent

\* The statistics of one channel.
AddsUp(ch) ==
  /\ Counts(ch.cap, Len(ch.queue), ch.sent, ch.received, ch.dropped)
  /\ IF ch.behind THEN Len(ch.queue) = 0 ELSE ch.depth = Len(ch.queue)

\* What holds of every channel that has been created.
Good(ch, top) ==
  /\ ch \in Channel
  /\ Increasing(ch.queue, top)
  /\ AddsUp(ch)

-----------------------------------------------------------------------------
(* Queues *)

LEMMA LeastNumber ==
  ASSUME NEW T, T \subseteq Nat, T # {}
  PROVE  \E x \in T : \A y \in T : ~(y < x)
<1>1. PICK x \in T : \A y \in T : << y, x >> \notin OpToRel(<, Nat)
  BY WFMin, NatLessThanWellFounded
<1>2. ASSUME NEW y \in T, y < x PROVE FALSE
  <2>1. << y, x >> \in OpToRel(<, Nat)
    BY <1>2 DEF OpToRel
  <2> QED
    BY <1>1, <2>1
<1> QED
  BY <1>2

\* receive() stops at the first message that has not expired, if there is one.
LEMMA StaleCounts ==
  ASSUME NEW queue \in Seq(Messages)
  PROVE  Stale(queue) \in 0 .. Len(queue)
<1> DEFINE Fresh == {i \in 1 .. Len(queue) : queue[i] \notin expired}
           Q(n) == /\ \A i \in 1 .. n : queue[i] \in expired
                   /\ n < Len(queue) => queue[n + 1] \notin expired
<1>1. Len(queue) \in Nat
  BY LenProperties
<1>2. \E n \in 0 .. Len(queue) : Q(n)
  <2>1. CASE Fresh = {}
    BY <1>1, <2>1
  <2>2. CASE Fresh # {}
    <3>0. \E x \in Fresh : \A y \in Fresh : ~(y < x)
      <4>1. Fresh \subseteq Nat
        BY <1>1
      <4> HIDE DEF Fresh
      <4> QED
        BY <2>2, <4>1, LeastNumber
    <3>1. PICK x \in Fresh : \A y \in Fresh : ~(y < x)
      BY <3>0
    <3>2. x \in 1 .. Len(queue) /\ queue[x] \notin expired
      BY <3>1
    <3>3. \A i \in 1 .. (x - 1) : queue[i] \in expired
      BY <1>1, <3>1, <3>2
    <3>4. x - 1 \in 0 .. Len(queue) /\ (x - 1) + 1 = x
      BY <1>1, <3>2
    <3> QED
      BY <3>2, <3>3, <3>4
  <2> QED
    BY <2>1, <2>2
<1>3. Stale(queue) = CHOOSE n \in 0 .. Len(queue) : Q(n)
  BY DEF Stale
<1> HIDE DEF Q
<1> QED
  BY <1>2, <1>3

\* What a queue is without its first n messages.
LEMMA Suffix ==
  ASSUME NEW queue \in Seq(Messages), NEW n \in 0 .. Len(queue)
  PROVE  /\ SubSeq(queue, n + 1, Len(queue)) \in Seq(Messages)
         /\ Len(SubSeq(queue, n + 1, Len(queue))) = Len(queue) - n
         /\ \A i \in 1 .. (Len(queue) - n) :
              SubSeq(queue, n + 1, Len(queue))[i] = queue[n + i]
<1>1. Len(queue) \in Nat /\ \A i \in 1 .. Len(queue) : queue[i] \in Messages
  BY LenProperties
<1>2. n + 1 \in Int /\ Len(queue) \in Int /\ \A i \in (n + 1) .. Len(queue) : queue[i] \in Messages
  BY <1>1
<1>3. /\ SubSeq(queue, n + 1, Len(queue)) \in Seq(Messages)
      /\ Len(SubSeq(queue, n + 1, Len(queue))) =
           IF n + 1 <= Len(queue) THEN Len(queue) - (n + 1) + 1 ELSE 0
      /\ \A i \in 1 .. (Len(queue) - (n + 1) + 1) :
           SubSeq(queue, n + 1, Len(queue))[i] = queue[(n + 1) + i - 1]
  BY <1>2, SubSeqProperties
<1>4. Len(queue) - (n + 1) + 1 = Len(queue) - n /\ (n + 1 > Len(queue) => Len(queue) - n = 0)
  BY <1>1
<1>5. \A i \in 1 .. (Len(queue) - n) : (n + 1) + i - 1 = n + i
  BY <1>1
<1>6. Len(SubSeq(queue, n + 1, Len(queue))) = Len(queue) - n
  <2> DEFINE l == Len(queue)
             k == Len(SubSeq(queue, n + 1, l))
  <2>1. k = IF n + 1 <= l THEN l - (n + 1) + 1 ELSE 0
    BY <1>3, Zenon
  <2>2. l \in Nat /\ n \in 0 .. l
    BY <1>1, Zenon
  <2> HIDE DEF k, l
  <2>3. k = l - n
    BY <2>1, <2>2
  <2> QED
    BY <2>3, Zenon DEF k, l
<1>7. ASSUME NEW i \in 1 .. (Len(queue) - n)
      PROVE  SubSeq(queue, n + 1, Len(queue))[i] = queue[n + i]
  <2>1. i \in 1 .. (Len(queue) - (n + 1) + 1)
    BY <1>4, Zenon
  <2>2. SubSeq(queue, n + 1, Len(queue))[i] = queue[(n + 1) + i - 1]
    BY <1>3, <2>1, Zenon
  <2>3. (n + 1) + i - 1 = n + i
    BY <1>5, Zenon
  <2> QED
    BY <2>2, <2>3, Zenon
<1> QED
  BY <1>3, <1>6, <1>7, Zenon

LEMMA TailIs ==
  ASSUME NEW queue \in Seq(Messages), Len(queue) > 0
  PROVE  /\ Tail(queue) \in Seq(Messages) /\ Len(Tail(queue)) = Len(queue) - 1
         /\ \A i \in 1 .. (Len(queue) - 1) : Tail(queue)[i] = queue[i + 1]
<1>1. queue # << >>
  BY EmptySeq
<1> QED
  BY <1>1, HeadTailProperties

\* The newest of the first k messages.
Upto(queue, k) == IF k = 0 THEN 0 ELSE queue[k]

\* To give up the first k messages is to give up everything up to the k-th.
LEMMA Drops ==
  ASSUME NEW queue \in Seq(Messages), NEW s \in Seq(Messages), NEW top \in Nat,
         NEW k \in 0 .. Len(queue), Len(s) = Len(queue) - k,
         \A i \in 1 .. (Len(queue) - k) : s[i] = queue[k + i],
         Increasing(queue, top)
  PROVE  /\ Increasing(s, top)
         /\ Elems(s) = {x \in Elems(queue) : x > Upto(queue, k)}
         /\ Upto(queue, k) \in 0 .. top
<1> DEFINE l == Len(queue)
<1>1. /\ l \in Nat /\ k \in 0 .. l /\ DOMAIN queue = 1 .. l /\ DOMAIN s = 1 .. (l - k)
      /\ \A i \in 1 .. l : queue[i] \in Nat \ {0} /\ queue[i] <= top
      /\ \A i, j \in 1 .. l : i < j => queue[i] < queue[j]
      /\ Len(s) = l - k
  <2>1. l \in Nat /\ DOMAIN queue = 1 .. l /\ \A i \in 1 .. l : queue[i] \in Messages
    BY LenProperties
  <2>2. DOMAIN s = 1 .. Len(s)
    BY LenProperties
  <2>3. \A x \in Messages : x \in Nat \ {0}
    BY HubAssumption DEF Messages
  <2> QED
    BY <2>1, <2>2, <2>3, Zenon DEF Increasing
<1>2. \A i \in 1 .. (l - k) : s[i] = queue[k + i]
  OBVIOUS
<1> HIDE DEF l
<1>3. \A i \in 1 .. (l - k) : k + i \in 1 .. l
  BY <1>1
<1>4. Increasing(s, top)
  <2>1. ASSUME NEW i \in 1 .. Len(s) PROVE s[i] <= top
    BY <1>1, <1>2, <1>3, <2>1
  <2>2. ASSUME NEW i \in 1 .. Len(s), NEW j \in 1 .. Len(s), i < j PROVE s[i] < s[j]
    <3>1. k + i \in 1 .. l /\ k + j \in 1 .. l /\ k + i < k + j
      BY <1>1, <2>2
    <3>2. queue[k + i] < queue[k + j]
      BY <1>1, <3>1
    <3>3. s[i] = queue[k + i] /\ s[j] = queue[k + j]
      BY <1>1, <1>2, <2>2
    <3> QED
      BY <3>2, <3>3
  <2> QED
    BY <2>1, <2>2 DEF Increasing
<1>5. Upto(queue, k) \in 0 .. top
  BY <1>1 DEF Upto
<1>6. ASSUME NEW x \in Elems(s) PROVE x \in Elems(queue) /\ x > Upto(queue, k)
  <2>1. PICK i \in 1 .. (l - k) : x = s[i]
    BY <1>1, <1>6 DEF Elems
  <2>2. k + i \in 1 .. l /\ x = queue[k + i]
    BY <1>2, <1>3, <2>1
  <2>3. x \in Elems(queue)
    BY <1>1, <2>2 DEF Elems
  <2>4. x > Upto(queue, k)
    <3>1. CASE k = 0
      BY <1>1, <2>2, <3>1 DEF Upto
    <3>2. CASE k # 0
      <4>1. k \in 1 .. l /\ k < k + i
        BY <1>1, <2>1, <3>2
      <4>2. queue[k] < queue[k + i] /\ queue[k] \in Nat /\ queue[k + i] \in Nat
        BY <1>1, <2>2, <4>1
      <4> QED
        BY <2>2, <3>2, <4>2 DEF Upto
    <3> QED
      BY <3>1, <3>2
  <2> QED
    BY <2>3, <2>4
<1>7. ASSUME NEW x \in Elems(queue), x > Upto(queue, k) PROVE x \in Elems(s)
  <2>1. PICK j \in 1 .. l : x = queue[j]
    BY <1>1, <1>7 DEF Elems
  <2>2. j > k
    <3>1. CASE k = 0
      BY <2>1, <3>1
    <3>2. CASE k # 0
      <4>1. k \in 1 .. l /\ queue[j] > queue[k] /\ queue[k] \in Nat /\ queue[j] \in Nat
        BY <1>1, <1>7, <2>1, <3>2 DEF Upto
      <4>2. ~(j = k) /\ ~(j < k)
        BY <1>1, <2>1, <4>1
      <4> QED
        BY <1>1, <2>1, <4>1, <4>2
    <3> QED
      BY <3>1, <3>2
  <2>3. j - k \in 1 .. (l - k) /\ k + (j - k) = j
    BY <1>1, <2>1, <2>2
  <2>4. s[j - k] = x
    BY <1>2, <2>1, <2>3
  <2> QED
    BY <1>1, <2>3, <2>4 DEF Elems
<1> QED
  BY <1>4, <1>5, <1>6, <1>7

\* A message that is accepted is newer than what is in the queue.
LEMMA Appends ==
  ASSUME NEW s \in Seq(Messages), NEW top \in Nat, NEW m \in Messages, m > top,
         Increasing(s, top)
  PROVE  /\ Append(s, m) \in Seq(Messages) /\ Len(Append(s, m)) = Len(s) + 1
         /\ Increasing(Append(s, m), m)
         /\ Elems(Append(s, m)) = Elems(s) \union {m}
<1> DEFINE r == Append(s, m)
           l == Len(s)
<1>1. /\ r \in Seq(Messages) /\ Len(r) = l + 1 /\ r[l + 1] = m
      /\ \A i \in 1 .. l : r[i] = s[i]
  BY AppendProperties
<1>2. /\ l \in Nat /\ DOMAIN s = 1 .. l /\ DOMAIN r = 1 .. (l + 1)
      /\ \A i \in 1 .. l : s[i] \in Nat /\ s[i] <= top
      /\ \A i, j \in 1 .. l : i < j => s[i] < s[j]
      /\ m \in Nat
  <2>1. /\ l \in Nat /\ DOMAIN s = 1 .. l /\ DOMAIN r = 1 .. Len(r)
        /\ \A i \in 1 .. l : s[i] \in Messages
    BY <1>1, LenProperties
  <2>2. \A x \in Messages : x \in Nat
    BY HubAssumption DEF Messages
  <2> QED
    BY <1>1, <2>1, <2>2, Zenon DEF Increasing
<1> HIDE DEF r, l
<1>3. ASSUME NEW i \in 1 .. (l + 1) PROVE r[i] <= m /\ (i <= l => r[i] < m)
  BY <1>1, <1>2, <1>3
<1>4. ASSUME NEW i \in 1 .. (l + 1), NEW j \in 1 .. (l + 1), i < j PROVE r[i] < r[j]
  <2>1. i \in 1 .. l
    BY <1>2, <1>4
  <2>2. CASE j = l + 1
    BY <1>1, <1>3, <2>1, <2>2
  <2>3. CASE j # l + 1
    <3>1. j \in 1 .. l
      BY <1>2, <2>3
    <3> QED
      BY <1>1, <1>2, <1>4, <2>1, <3>1
  <2> QED
    BY <2>2, <2>3
<1>5. Increasing(r, m)
  BY <1>1, <1>3, <1>4 DEF Increasing
<1>6. Elems(r) = Elems(s) \union {m}
  <2>1. ASSUME NEW x \in Elems(r) PROVE x \in Elems(s) \union {m}
    <3>1. PICK i \in 1 .. (l + 1) : x = r[i]
      BY <1>2, <2>1 DEF Elems
    <3>2. i = l + 1 \/ i \in 1 .. l
      BY <1>2, <3>1
    <3> QED
      BY <1>1, <1>2, <3>1, <3>2 DEF Elems
  <2>2. ASSUME NEW x \in Elems(s) PROVE x \in Elems(r)
    <3>1. PICK i \in 1 .. l : x = s[i]
      BY <1>2, <2>2 DEF Elems
    <3>2. i \in 1 .. (l + 1) /\ x = r[i]
      BY <1>1, <1>2, <3>1
    <3> QED
      BY <1>2, <3>2 DEF Elems
  <2>3. m \in Elems(r)
    <3>1. l + 1 \in 1 .. (l + 1)
      BY <1>2
    <3> QED
      BY <1>1, <1>2, <3>1 DEF Elems
  <2> QED
    BY <2>1, <2>2, <2>3
<1> QED
  BY <1>1, <1>5, <1>6 DEF r, l

-----------------------------------------------------------------------------
(* Counting *)

\* send counts the message, and a drop when the channel is full.
LEMMA CountSent ==
  ASSUME NEW cap \in Nat, NEW l \in Nat, NEW s \in Nat, NEW r \in Nat, NEW d \in Nat,
         Counts(cap, l, s, r, d),
         NEW k \in 0 .. 1, k = 1 <=> (l >= cap /\ l > 0),
         NEW e \in Nat, e = IF l >= cap THEN d + 1 ELSE d
  PROVE  Counts(cap, l - k + 1, s + 1, r, e)
<1>1. CASE cap > 0
  BY <1>1 DEF Counts
<1>2. CASE cap = 0
  BY <1>2 DEF Counts
<1> QED
  BY <1>1, <1>2

\* receive counts what it removes as dropped, and what it returns as received.
LEMMA CountReceived ==
  ASSUME NEW cap \in Nat, NEW l \in Nat, NEW s \in Nat, NEW r \in Nat, NEW d \in Nat,
         Counts(cap, l, s, r, d), NEW n \in Nat
  PROVE  /\ n < l => Counts(cap, l - (n + 1), s, r + 1, d + n)
         /\ n = l => Counts(cap, 0, s, r, d + n)
<1>1. CASE cap > 0
  BY <1>1 DEF Counts
<1>2. CASE cap = 0
  BY <1>2 DEF Counts
<1> QED
  BY <1>1, <1>2

-----------------------------------------------------------------------------
(* Channels *)

\* The records of channels, for any sets of numbers, flags and queues.
Rec(A, B, S) == [cap : A, drop : B, open : B, queue : S,
                 sent : A, received : A, dropped : A, depth : A, behind : B]

LEMMA Updates ==
  ASSUME NEW A, NEW B, NEW S, NEW c \in Rec(A, B, S), NEW x \in S, NEW y \in A, NEW z \in A,
         NEW b \in B
  PROVE  /\ [c EXCEPT !.queue = x, !.dropped = y] \in Rec(A, B, S)
         /\ [c EXCEPT !.sent = y, !.depth = z] \in Rec(A, B, S)
         /\ [c EXCEPT !.received = y, !.depth = z] \in Rec(A, B, S)
         /\ [c EXCEPT !.depth = y] \in Rec(A, B, S)
         /\ [c EXCEPT !.behind = b] \in Rec(A, B, S)
<1>1. [c EXCEPT !.queue = x, !.dropped = y] \in Rec(A, B, S)
  BY DEF Rec
<1>2. [c EXCEPT !.sent = y, !.depth = z] \in Rec(A, B, S)
  BY DEF Rec
<1>3. [c EXCEPT !.received = y, !.depth = z] \in Rec(A, B, S)
  BY DEF Rec
<1>4. [c EXCEPT !.depth = y] \in Rec(A, B, S) /\ [c EXCEPT !.behind = b] \in Rec(A, B, S)
  BY DEF Rec
<1> QED
  BY <1>1, <1>2, <1>3, <1>4

LEMMA ChannelRecord == Channel = Rec(Nat, BOOLEAN, Seq(Messages))
  BY DEF Channel, Rec

LEMMA ChannelFields ==
  ASSUME NEW ch \in Channel
  PROVE  /\ ch.queue \in Seq(Messages) /\ Len(ch.queue) \in Nat /\ ch.cap \in Nat
         /\ ch.sent \in Nat /\ ch.received \in Nat /\ ch.dropped \in Nat /\ ch.depth \in Nat
         /\ ch.behind \in BOOLEAN
<1>1. /\ ch.queue \in Seq(Messages) /\ ch.cap \in Nat
      /\ ch.sent \in Nat /\ ch.received \in Nat /\ ch.dropped \in Nat /\ ch.depth \in Nat
      /\ ch.behind \in BOOLEAN
  BY Zenon DEF Channel
<1> QED
  BY <1>1, LenProperties

\* What the operations of a channel write is a channel.
LEMMA Written ==
  ASSUME NEW ch \in Channel, NEW q \in Seq(Messages), NEW d \in Nat, NEW s \in Nat, NEW e \in Nat,
         NEW b \in BOOLEAN
  PROVE  /\ [ch EXCEPT !.queue = q, !.dropped = d, !.behind = b] \in Channel
         /\ [ch EXCEPT !.queue = q, !.dropped = d, !.depth = e, !.behind = b] \in Channel
         /\ [ch EXCEPT !.queue = q, !.dropped = d, !.sent = s, !.depth = e, !.behind = b] \in Channel
         /\ [ch EXCEPT !.queue = q, !.dropped = d, !.received = s, !.depth = e, !.behind = b] \in Channel
<1> DEFINE R == Rec(Nat, BOOLEAN, Seq(Messages))
           n == [ch EXCEPT !.queue = q, !.dropped = d]
           u == [n EXCEPT !.depth = e]
           v == [n EXCEPT !.sent = s, !.depth = e]
           w == [n EXCEPT !.received = s, !.depth = e]
<1>1. ch \in R
  BY ChannelRecord, Zenon
<1>2. n \in R
  BY <1>1, Updates, Zenon
<1>3. /\ [ch EXCEPT !.queue = q, !.dropped = d, !.behind = b] = [n EXCEPT !.behind = b]
      /\ [ch EXCEPT !.queue = q, !.dropped = d, !.depth = e, !.behind = b] = [u EXCEPT !.behind = b]
      /\ [ch EXCEPT !.queue = q, !.dropped = d, !.sent = s, !.depth = e, !.behind = b] =
           [v EXCEPT !.behind = b]
      /\ [ch EXCEPT !.queue = q, !.dropped = d, !.received = s, !.depth = e, !.behind = b] =
           [w EXCEPT !.behind = b]
  BY Zenon
<1> HIDE DEF n
<1>4. u \in R /\ v \in R /\ w \in R
  BY <1>2, Updates, Zenon
<1> HIDE DEF u, v, w
<1>5. /\ [n EXCEPT !.behind = b] \in R /\ [u EXCEPT !.behind = b] \in R
      /\ [v EXCEPT !.behind = b] \in R /\ [w EXCEPT !.behind = b] \in R
  BY <1>2, <1>4, Updates, Zenon
<1> QED
  BY <1>3, <1>5, ChannelRecord, Zenon

\* send, as a function of the channel and the message.
Sent(ch, m) ==
  LET full == Len(ch.queue) >= ch.cap
      kept == IF full /\ ch.queue # << >> THEN Tail(ch.queue) ELSE ch.queue
  IN  [ch EXCEPT !.queue = Append(kept, m), !.dropped = IF full THEN @ + 1 ELSE @,
                 !.sent = @ + 1, !.depth = Len(kept) + 1, !.behind = FALSE]

\* It keeps the channel in order, makes room by giving up the oldest message and
\* counts what it does.
LEMMA SendKeeps ==
  ASSUME NEW ch, NEW top \in Nat, NEW m \in Messages, m > top, Good(ch, top)
  PROVE  /\ Good(Sent(ch, m), m)
         /\ \E x \in 0 .. top :
              Elems(Sent(ch, m).queue) = {y \in Elems(ch.queue) : y > x} \union {m}
<1> DEFINE q == ch.queue
           l == Len(q)
           full == l >= ch.cap
           over == full /\ q # << >>
           k == IF over THEN 1 ELSE 0
           kept == IF over THEN Tail(q) ELSE q
<1>1. /\ ch \in Channel /\ q \in Seq(Messages) /\ ch.cap \in Nat
      /\ ch.sent \in Nat /\ ch.received \in Nat /\ ch.dropped \in Nat
      /\ Increasing(q, top) /\ Counts(ch.cap, l, ch.sent, ch.received, ch.dropped)
  BY ChannelFields, Zenon DEF Good, AddsUp
<1>2. l \in Nat /\ (q # << >> <=> l > 0)
  <2>1. l \in Nat /\ (q = << >> <=> l = 0)
    BY <1>1, LenProperties, EmptySeq
  <2> HIDE DEF l, q
  <2> QED
    BY <2>1
<1>3. /\ kept \in Seq(Messages) /\ k \in 0 .. l /\ Len(kept) = l - k
      /\ \A i \in 1 .. (l - k) : kept[i] = q[k + i]
  <2>1. CASE over
    <3>1. l > 0
      BY <1>1, <1>2, <2>1
    <3>2. /\ Tail(q) \in Seq(Messages) /\ Len(Tail(q)) = l - 1
          /\ \A i \in 1 .. (l - 1) : Tail(q)[i] = q[i + 1]
      BY <1>1, <3>1, TailIs
    <3>3. kept = Tail(q) /\ k = 1
      BY <2>1
    <3>4. \A i \in 1 .. (l - 1) : i + 1 = 1 + i
      BY <1>2
    <3> HIDE DEF kept, k, q, l
    <3> QED
      BY <1>2, <3>1, <3>2, <3>3, <3>4
  <2>2. CASE ~over
    <3>1. kept = q /\ k = 0
      BY <2>2
    <3>2. Len(q) = l
      OBVIOUS
    <3> HIDE DEF kept, k, q, l
    <3>3. \A i \in 1 .. (l - 0) : 0 + i = i
      BY <1>2
    <3> QED
      BY <1>1, <1>2, <3>1, <3>2, <3>3
  <2> QED
    BY <2>1, <2>2
<1>4. /\ Increasing(kept, top)
      /\ Elems(kept) = {x \in Elems(q) : x > Upto(q, k)}
      /\ Upto(q, k) \in 0 .. top
  <2> HIDE DEF kept, k, q
  <2> QED
    BY <1>1, <1>3, Drops
<1>5. /\ Append(kept, m) \in Seq(Messages) /\ Len(Append(kept, m)) = Len(kept) + 1
      /\ Increasing(Append(kept, m), m)
      /\ Elems(Append(kept, m)) = Elems(kept) \union {m}
  <2> HIDE DEF kept
  <2> QED
    BY <1>3, <1>4, Appends
<1> DEFINE d == IF full THEN ch.dropped + 1 ELSE ch.dropped
           a == Append(kept, m)
           e == Len(kept) + 1
           n == [ch EXCEPT !.queue = a, !.dropped = d, !.sent = @ + 1, !.depth = e, !.behind = FALSE]
<1>6. Sent(ch, m) = n
  BY DEF Sent
<1>7. d \in Nat /\ e \in Nat /\ e = Len(a)
  <2> DEFINE g == Len(kept)
  <2>1. g = l - k /\ e = g + 1 /\ Len(a) = g + 1 /\ k \in 0 .. l
    BY <1>3, <1>5
  <2>2. d \in Nat
    BY <1>1
  <2> HIDE DEF g, k, l, a, e, d
  <2> QED
    BY <1>2, <2>1, <2>2
<1>8. Counts(ch.cap, Len(a), ch.sent + 1, ch.received, d)
  <2>1. Len(a) = l - k + 1 /\ k \in 0 .. 1 /\ (k = 1 <=> (full /\ l > 0))
    BY <1>2, <1>3, <1>5
  <2>2. d = IF l >= ch.cap THEN ch.dropped + 1 ELSE ch.dropped
    OBVIOUS
  <2>3. l >= ch.cap <=> full
    OBVIOUS
  <2> HIDE DEF k, l, a, d, full
  <2>4. Counts(ch.cap, l - k + 1, ch.sent + 1, ch.received, d)
    BY <1>1, <1>2, <1>7, <2>1, <2>2, <2>3, CountSent
  <2> QED
    BY <2>1, <2>4, Zenon
<1>9. Good(n, m)
  <2>1. a \in Seq(Messages) /\ Increasing(a, m)
    BY <1>5
  <2> HIDE DEF a, d, e
  <2>2. n \in Channel
    <3>1. ch.sent + 1 \in Nat
      BY <1>1
    <3> QED
      BY <1>1, <1>7, <2>1, <3>1, Written, Zenon
  <2>3. /\ n.queue = a /\ n.cap = ch.cap /\ n.sent = ch.sent + 1 /\ n.received = ch.received
        /\ n.dropped = d /\ n.depth = e /\ n.behind = FALSE
    BY <1>1 DEF Channel
  <2> HIDE DEF n
  <2> QED
    BY <1>1, <1>7, <1>8, <2>1, <2>2, <2>3, Zenon DEF Good, AddsUp
<1>10. Sent(ch, m).queue = a
  <2> HIDE DEF a, d, e
  <2> QED
    BY <1>1, <1>6 DEF Channel
<1>11. \E x \in 0 .. top : Elems(a) = {y \in Elems(q) : y > x} \union {m}
  BY <1>4, <1>5, Zenon
<1> QED
  BY <1>6, <1>9, <1>10, <1>11, Zenon

\* receive, when n messages have expired and the next one has not.
Delivered(ch, n) ==
  LET fresh == SubSeq(ch.queue, n + 1, Len(ch.queue))
  IN  [ch EXCEPT !.queue = Tail(fresh), !.dropped = @ + n,
                 !.received = @ + 1, !.depth = Len(fresh) - 1, !.behind = FALSE]

LEMMA DeliverKeeps ==
  ASSUME NEW ch, NEW top \in Nat, Good(ch, top), NEW n \in 0 .. Len(ch.queue), n < Len(ch.queue)
  PROVE  /\ Good(Delivered(ch, n), top)
         /\ ch.queue[n + 1] \in Elems(ch.queue) /\ ch.queue[n + 1] <= top
         /\ Elems(Delivered(ch, n).queue) = {y \in Elems(ch.queue) : y > ch.queue[n + 1]}
<1> DEFINE q == ch.queue
           l == Len(q)
           fresh == SubSeq(q, n + 1, Len(q))
           a == Tail(fresh)
           d == ch.dropped + n
           e == Len(fresh) - 1
           r == [ch EXCEPT !.queue = a, !.dropped = d, !.received = @ + 1, !.depth = e, !.behind = FALSE]
<1>1. /\ ch \in Channel /\ q \in Seq(Messages) /\ ch.cap \in Nat
      /\ ch.sent \in Nat /\ ch.received \in Nat /\ ch.dropped \in Nat /\ l \in Nat
      /\ Increasing(q, top) /\ Counts(ch.cap, l, ch.sent, ch.received, ch.dropped)
  BY ChannelFields, Zenon DEF Good, AddsUp
<1>2. n \in 0 .. l /\ n < l /\ n \in Nat /\ n + 1 \in 1 .. l /\ n + 1 \in 0 .. l
  BY <1>1
<1>3. /\ fresh \in Seq(Messages) /\ Len(fresh) = l - n
      /\ \A i \in 1 .. (l - n) : fresh[i] = q[n + i]
  <2> HIDE DEF q
  <2> QED
    BY <1>1, <1>2, Suffix
<1>4. /\ a \in Seq(Messages) /\ Len(a) = l - (n + 1)
      /\ \A i \in 1 .. (l - (n + 1)) : a[i] = q[(n + 1) + i]
  <2> HIDE DEF q, l, fresh
  <2>1. Len(fresh) > 0
    BY <1>1, <1>2, <1>3
  <2>2. /\ a \in Seq(Messages) /\ Len(a) = Len(fresh) - 1
        /\ \A i \in 1 .. (Len(fresh) - 1) : a[i] = fresh[i + 1]
    BY <1>3, <2>1, TailIs
  <2>3. l - n - 1 = l - (n + 1)
    BY <1>1, <1>2
  <2>4. \A i \in 1 .. (l - (n + 1)) : i + 1 \in 1 .. (l - n) /\ n + (i + 1) = (n + 1) + i
    BY <1>1, <1>2
  <2> HIDE DEF a
  <2>5. Len(a) = l - (n + 1)
    BY <1>3, <2>2, <2>3, Zenon
  <2>6. ASSUME NEW i \in 1 .. (l - (n + 1)) PROVE a[i] = q[(n + 1) + i]
    <3>1. a[i] = fresh[i + 1]
      BY <1>3, <2>2, <2>3, Zenon
    <3>2. fresh[i + 1] = q[n + (i + 1)]
      BY <1>3, <2>4, Zenon
    <3>3. n + (i + 1) = (n + 1) + i
      BY <2>4, Zenon
    <3> QED
      BY <3>1, <3>2, <3>3, Zenon
  <2> QED
    BY <2>2, <2>5, <2>6, Zenon
<1>5. Delivered(ch, n) = r
  BY Zenon DEF Delivered
<1>6. /\ Increasing(a, top)
      /\ Elems(a) = {x \in Elems(q) : x > Upto(q, n + 1)}
      /\ Upto(q, n + 1) \in 0 .. top
  <2> DEFINE k == n + 1
  <2>1. k \in 0 .. Len(q) /\ Len(a) = Len(q) - k
    BY <1>2, <1>4
  <2>2. \A i \in 1 .. (Len(q) - k) : a[i] = q[k + i]
    BY <1>4, Zenon
  <2> HIDE DEF a, q, k
  <2>3. /\ Increasing(a, top)
        /\ Elems(a) = {x \in Elems(q) : x > Upto(q, k)}
        /\ Upto(q, k) \in 0 .. top
    BY <1>1, <1>4, <2>1, <2>2, Drops
  <2> QED
    BY <2>3, Zenon DEF k
<1>7. Upto(q, n + 1) = q[n + 1]
  <2>1. n + 1 # 0
    BY <1>2
  <2> QED
    BY <2>1, Zenon DEF Upto
<1>8. q[n + 1] \in Elems(q)
  <2>1. DOMAIN q = 1 .. l
    BY <1>1, LenProperties
  <2> QED
    BY <1>2, <2>1, Zenon DEF Elems
<1>9. q[n + 1] <= top
  BY <1>1, <1>2, Zenon DEF Increasing
<1>10. /\ d \in Nat /\ e \in Nat /\ ch.received + 1 \in Nat /\ e = Len(a)
       /\ Counts(ch.cap, Len(a), ch.sent, ch.received + 1, d)
  <2> DEFINE w == Len(a)
             f == Len(fresh)
  <2>1. w = l - (n + 1) /\ f = l - n /\ e = f - 1
    BY <1>3, <1>4
  <2>2. l \in Nat /\ n \in Nat /\ n < l
    BY <1>1, <1>2, Zenon
  <2>3. Counts(ch.cap, l - (n + 1), ch.sent, ch.received + 1, d)
    BY <1>1, <2>2, CountReceived
  <2>4. Counts(ch.cap, w, ch.sent, ch.received + 1, d)
    BY <2>1, <2>3, Zenon
  <2> HIDE DEF l, f, w, e
  <2>5. e \in Nat /\ e = w /\ d \in Nat /\ ch.received + 1 \in Nat
    BY <1>1, <2>1, <2>2
  <2> QED
    BY <2>4, <2>5, Zenon DEF w
<1>11. r \in Channel /\ r.queue = a /\ r.cap = ch.cap /\ r.sent = ch.sent
       /\ r.received = ch.received + 1 /\ r.dropped = d /\ r.depth = e /\ r.behind = FALSE
  <2>1. a \in Seq(Messages)
    BY <1>4, Zenon
  <2> HIDE DEF a, d, e
  <2>2. r \in Channel
    BY <1>1, <1>10, <2>1, Written, Zenon
  <2>3. /\ r.queue = a /\ r.cap = ch.cap /\ r.sent = ch.sent
        /\ r.received = ch.received + 1 /\ r.dropped = d /\ r.depth = e /\ r.behind = FALSE
    BY <1>1 DEF Channel
  <2> QED
    BY <2>2, <2>3, Zenon
<1>12. Good(r, top)
  <2> HIDE DEF r, a, d, e
  <2> QED
    BY <1>1, <1>6, <1>10, <1>11, Zenon DEF Good, AddsUp
<1> QED
  BY <1>5, <1>6, <1>7, <1>8, <1>9, <1>11, <1>12, Zenon

\* A channel that gives up everything, in receive or in clear.
LEMMA EmptyKeeps ==
  ASSUME NEW ch, NEW top \in Nat, Good(ch, top), NEW r \in Channel,
         r.queue = << >>, r.cap = ch.cap, r.sent = ch.sent, r.received = ch.received,
         r.dropped = ch.dropped + Len(ch.queue), r.behind \/ r.depth = 0
  PROVE  /\ Good(r, top)
         /\ Elems(r.queue) = {y \in Elems(ch.queue) : y > top}
<1>1. /\ ch \in Channel /\ ch.queue \in Seq(Messages) /\ Len(ch.queue) \in Nat
      /\ ch.cap \in Nat /\ ch.sent \in Nat /\ ch.received \in Nat
      /\ ch.dropped \in Nat /\ Increasing(ch.queue, top)
      /\ Counts(ch.cap, Len(ch.queue), ch.sent, ch.received, ch.dropped)
  BY ChannelFields, Zenon DEF Good, AddsUp
<1>2. Len(r.queue) = 0
  BY EmptySeq
<1>3. Counts(r.cap, Len(r.queue), r.sent, r.received, r.dropped)
  <2> DEFINE l == Len(ch.queue)
  <2>1. l \in Nat /\ Counts(ch.cap, l, ch.sent, ch.received, ch.dropped)
    BY <1>1, Zenon
  <2> HIDE DEF l
  <2>2. Counts(ch.cap, 0, ch.sent, ch.received, ch.dropped + l)
    BY <1>1, <2>1, CountReceived
  <2> QED
    BY <1>2, <2>2, Zenon DEF l
<1>4. Increasing(r.queue, top)
  <2>1. \A i \in 1 .. 0 : FALSE
    OBVIOUS
  <2> QED
    BY <1>2, <2>1, Zenon DEF Increasing
<1>5. Good(r, top)
  BY <1>1, <1>2, <1>3, <1>4, Zenon DEF Good, AddsUp
<1>6. Elems(r.queue) = {}
  <2>1. DOMAIN r.queue = {}
    OBVIOUS
  <2> QED
    BY <2>1, Zenon DEF Elems
<1>7. ASSUME NEW y \in Elems(ch.queue), y > top PROVE FALSE
  <2>1. DOMAIN ch.queue = 1 .. Len(ch.queue) /\ \A i \in 1 .. Len(ch.queue) : ch.queue[i] \in Messages
    BY <1>1, LenProperties
  <2>2. PICK i \in 1 .. Len(ch.queue) : y = ch.queue[i]
    BY <1>7, <2>1, Zenon DEF Elems
  <2>3. y <= top /\ y \in Messages
    BY <1>1, <2>1, <2>2, Zenon DEF Increasing
  <2>4. y \in Nat
    BY <2>3, HubAssumption DEF Messages
  <2> HIDE <2>2
  <2> QED
    BY <1>7, <2>3, <2>4
<1> QED
  BY <1>5, <1>6, <1>7, Zenon

-----------------------------------------------------------------------------
(* The invariant *)

Named ==
  \A t \in Thread :
    pc[t] \in {"goc_len", "create_contains", "goc_contains", "create_insert",
              "goc_insert", "goc_get"} => name[t] \in Name

ChannelsGood == \A c \in 1 .. created : Good(chans[c], lastIn[c])
Unused == \A c \in Ids : c > created => chans[c].queue = << >>

HubInv == TypeOK /\ Named /\ HubBounded /\ ChannelsGood /\ Unused

\* What the refinement reads as the pending messages.
Pend == [c \in Ids |-> Elems(chans[c].queue)]
FifoStep == [Fifo!Next]_<< lastIn, Pend, lastOut >>

-----------------------------------------------------------------------------
(* Steps that change no channel *)

LEMMA Quiet ==
  ASSUME ChannelsGood, Unused, UNCHANGED << chans, created, lastIn, lastOut >>
  PROVE  ChannelsGood' /\ Unused' /\ FifoStep
<1>1. ChannelsGood'
  BY DEF ChannelsGood
<1>2. Unused'
  BY DEF Unused
<1>3. Pend' = Pend
  BY Zenon DEF Pend
<1> QED
  BY <1>1, <1>2, <1>3, Zenon DEF FifoStep

LEMMA Finite ==
  ASSUME TypeOK
  PROVE  /\ IsFiniteSet(DOMAIN hub) /\ Cardinality(DOMAIN hub) \in Nat
         /\ IsFiniteSet(Creators) /\ Cardinality(Creators) \in Nat
         /\ Cardinality(Creators) <= Cardinality(Thread) /\ Cardinality(Thread) \in Nat
<1>1. IsFiniteSet(Thread) /\ IsFiniteSet(Name) /\ DOMAIN hub \subseteq Name /\ Creators \subseteq Thread
  BY HubAssumption, Zenon DEF TypeOK, Creators
<1>2. IsFiniteSet(DOMAIN hub)
  BY <1>1, FS_Subset
<1>3. IsFiniteSet(Creators) /\ Cardinality(Creators) <= Cardinality(Thread)
  BY <1>1, FS_Subset
<1> QED
  BY <1>1, <1>2, <1>3, FS_CardinalityType

\* Fewer creators or fewer names make no difference to the room that there is.
LEMMA LessRoomTaken ==
  ASSUME TypeOK, TypeOK', HubBounded, DOMAIN hub' \subseteq DOMAIN hub, Creators' \subseteq Creators
  PROVE  HubBounded'
<1> DEFINE h == Cardinality(DOMAIN hub)
           g == Cardinality(DOMAIN hub')
           a == Cardinality(Creators)
           b == Cardinality(Creators')
           n == Cardinality(Thread)
<1>1. g <= h /\ b <= a
  BY Finite, FS_Subset
<1>2. h \in Nat /\ a \in Nat /\ n \in Nat
  BY Finite
<1>3. g \in Nat /\ b \in Nat
  BY Finite, FS_Subset, FS_CardinalityType
<1>4. MaxChannels \in Nat /\ h + a < MaxChannels + n
  BY HubAssumption DEF HubBounded
<1> HIDE DEF h, g, a, b, n
<1>5. g + b < MaxChannels + n
  BY <1>1, <1>2, <1>3, <1>4
<1> QED
  BY <1>5, Zenon DEF HubBounded, g, b, n

LEMMA ThreadSteps ==
  ASSUME HubInv, NEW t \in Thread,
         \/ \E n \in Name : Get(t, n) \/ GetOrCreate(t, n)
         \/ CreateContains(t) \/ GetCreated(t) \/ Release(t)
  PROVE  HubInv' /\ FifoStep
<1> USE DEF PCs
<1>1. UNCHANGED << hub, chans, created, accepted, expired, lastIn, lastOut >>
  BY DEF Get, GetOrCreate, CreateContains, GetCreated, Release, messages
<1>2. TypeOK
  BY DEF HubInv
<1>3. /\ pc' \in [Thread -> PCs] /\ name' \in [Thread -> Name \union {None}]
      /\ handle' \in [Thread -> 0 .. created] /\ \A u \in Thread : pc'[u] = "have" => handle'[u] # 0
  <2>1. /\ pc \in [Thread -> PCs] /\ name \in [Thread -> Name \union {None}]
        /\ handle \in [Thread -> 0 .. created] /\ \A u \in Thread : pc[u] = "have" => handle[u] # 0
        /\ created \in Nat
        /\ \A n \in DOMAIN hub : hub[n] \in 0 .. created /\ hub[n] # 0
    BY <1>2 DEF TypeOK
  <2>2. CASE \E n \in Name : Get(t, n) \/ GetOrCreate(t, n)
    BY <2>1, <2>2 DEF Get, GetOrCreate
  <2>3. CASE CreateContains(t)
    BY <2>1, <2>3 DEF CreateContains
  <2>4. CASE GetCreated(t) \/ Release(t)
    BY <2>1, <2>4 DEF GetCreated, Release
  <2> QED
    BY <2>2, <2>3, <2>4
<1>4. TypeOK'
  BY <1>1, <1>2, <1>3, Zenon DEF TypeOK
<1>5. Named'
  BY <1>2 DEF HubInv, TypeOK, Named, Get, GetOrCreate, CreateContains, GetCreated, Release
<1>6. Creators' \subseteq Creators
  BY <1>2 DEF TypeOK, Creators, Get, GetOrCreate, CreateContains, GetCreated, Release
<1>7. HubBounded'
  BY <1>1, <1>2, <1>4, <1>6, LessRoomTaken DEF HubInv
<1>8. ChannelsGood' /\ Unused' /\ FifoStep
  BY <1>1, Quiet DEF HubInv
<1> QED
  BY <1>4, <1>5, <1>7, <1>8 DEF HubInv

LEMMA CreateLenStep ==
  ASSUME HubInv, NEW t \in Thread, NEW n \in Name, CreateLen(t, n)
  PROVE  HubInv' /\ FifoStep
<1> USE DEF PCs
<1>1. UNCHANGED << hub, chans, created, accepted, expired, handle, lastIn, lastOut >>
  BY DEF CreateLen, messages
<1>2. TypeOK
  BY DEF HubInv
<1>3. /\ pc' \in [Thread -> PCs] /\ name' \in [Thread -> Name \union {None}]
      /\ \A u \in Thread : pc'[u] = "have" => handle[u] # 0
  BY <1>2 DEF TypeOK, CreateLen, Creating
<1>4. TypeOK'
  BY <1>1, <1>2, <1>3, Zenon DEF TypeOK
<1>5. Named'
  BY <1>2 DEF HubInv, TypeOK, Named, CreateLen, Creating
<1>6. HubBounded'
  <2>1. CASE Cardinality(DOMAIN hub) < MaxChannels
    <3> DEFINE h == Cardinality(DOMAIN hub)
               b == Cardinality(Creators')
               m == Cardinality(Thread)
    <3>1. Creators' \subseteq Thread
      BY Zenon DEF Creators
    <3>2. b <= m /\ b \in Nat
      BY <3>1, HubAssumption, FS_Subset, FS_CardinalityType
    <3>3. h \in Nat /\ m \in Nat /\ h < MaxChannels /\ MaxChannels \in Nat
      BY <1>2, <2>1, Finite, HubAssumption
    <3> HIDE DEF h, b, m
    <3>4. h + b < MaxChannels + m
      BY <3>2, <3>3
    <3> QED
      BY <1>1, <3>4, Zenon DEF HubBounded, h, b, m
  <2>2. CASE ~(Cardinality(DOMAIN hub) < MaxChannels)
    <3>1. pc' = [pc EXCEPT ![t] = "idle"]
      BY <2>2, Zenon DEF CreateLen
    <3>2. Creators' \subseteq Creators
      BY <1>2, <3>1 DEF TypeOK, Creators
    <3> QED
      BY <1>1, <1>2, <1>4, <3>2, LessRoomTaken DEF HubInv
  <2> QED
    BY <2>1, <2>2
<1>8. ChannelsGood' /\ Unused' /\ FifoStep
  BY <1>1, Quiet DEF HubInv
<1> QED
  BY <1>4, <1>5, <1>6, <1>8 DEF HubInv

LEMMA OtherSteps ==
  ASSUME HubInv, \/ \E n \in Name : Remove(n)
                 \/ \E m \in Messages : Expire(m)
                 \/ UNCHANGED vars
  PROVE  HubInv' /\ FifoStep
<1>1. UNCHANGED << chans, created, accepted, pc, name, handle, lastIn, lastOut >>
  BY DEF Remove, Expire, vars, threads, messages
<1>2. TypeOK
  BY DEF HubInv
<1>3. /\ DOMAIN hub' \subseteq DOMAIN hub /\ \A n \in DOMAIN hub' : hub'[n] = hub[n]
      /\ expired' \subseteq Messages
  <2>1. CASE \E n \in Name : Remove(n)
    BY <1>2, <2>1 DEF TypeOK, Remove, messages
  <2>2. CASE \E m \in Messages : Expire(m)
    BY <1>2, <2>2 DEF TypeOK, Expire
  <2>3. CASE UNCHANGED vars
    BY <1>2, <2>3 DEF TypeOK, vars
  <2> QED
    BY <2>1, <2>2, <2>3
<1>4. TypeOK'
  <2>1. DOMAIN hub' \subseteq Name /\ \A n \in DOMAIN hub' : hub'[n] \in 1 .. created
    BY <1>2, <1>3, Zenon DEF TypeOK
  <2> QED
    BY <1>1, <1>2, <1>3, <2>1, Zenon DEF TypeOK
<1>5. Named'
  BY <1>1, Zenon DEF HubInv, Named
<1>6. Creators' \subseteq Creators
  BY <1>1, Zenon DEF Creators
<1>7. HubBounded'
  BY <1>2, <1>3, <1>4, <1>6, LessRoomTaken DEF HubInv
<1>8. ChannelsGood' /\ Unused' /\ FifoStep
  BY <1>1, Quiet DEF HubInv
<1> QED
  BY <1>4, <1>5, <1>7, <1>8 DEF HubInv

\* The new channel is good and empty, and one creator fewer takes one more name.
LEMMA CreateInsertStep ==
  ASSUME HubInv, NEW t \in Thread, CreateInsert(t)
  PROVE  HubInv' /\ FifoStep
<1> DEFINE c == created + 1
<1>1. UNCHANGED << handle, accepted, expired, lastIn, lastOut >> /\ created' = c
  BY DEF CreateInsert, messages
<1>2. TypeOK /\ created \in Nat /\ MaxCreated \in Nat /\ created < MaxCreated /\ c \in Ids
  <2>1. TypeOK /\ created < MaxCreated
    BY DEF HubInv, CreateInsert
  <2> QED
    BY <2>1, HubAssumption DEF TypeOK, Ids
<1>3. PICK cap \in Nat, drop \in BOOLEAN, open \in BOOLEAN :
        chans' = [chans EXCEPT ![c] = NewChannel(cap, drop, open)]
  <2>1. CASE pc[t] = "goc_insert"
    <3>1. chans' = [chans EXCEPT ![c] = NewChannel(DefaultCapacity, TRUE, TRUE)]
      BY <2>1, Zenon DEF CreateInsert
    <3> QED
      BY <3>1, HubAssumption, Zenon
  <2>2. CASE pc[t] # "goc_insert"
    <3>1. PICK cap \in Capacities, drop \in BOOLEAN :
            chans' = [chans EXCEPT ![c] = NewChannel(cap, drop, FALSE)]
      BY <2>2, Zenon DEF CreateInsert
    <3> QED
      BY <3>1, HubAssumption, Zenon
  <2> QED
    BY <2>1, <2>2
<1> DEFINE r == NewChannel(cap, drop, open)
<1>4. /\ r \in Channel /\ r.queue = << >> /\ r.cap = cap /\ r.sent = 0 /\ r.received = 0
      /\ r.dropped = 0 /\ r.depth = 0 /\ r.behind = FALSE
  <2>1. << >> \in Seq(Messages) /\ 0 \in Nat /\ cap \in Nat
    OBVIOUS
  <2> QED
    BY <2>1, Zenon DEF NewChannel, Channel
<1>5. \A top \in Nat : Good(r, top)
  <2> TAKE top \in Nat
  <2>1. Len(r.queue) = 0
    BY <1>4
  <2>2. Counts(r.cap, Len(r.queue), r.sent, r.received, r.dropped)
    <3>1. \A x \in Nat : Counts(x, 0, 0, 0, 0)
      BY DEF Counts
    <3> QED
      BY <1>4, <2>1, <3>1, Zenon
  <2>3. Increasing(r.queue, top)
    <3>1. \A i \in 1 .. 0 : FALSE
      OBVIOUS
    <3> HIDE DEF r
    <3> QED
      BY <2>1, <3>1, Zenon DEF Increasing
  <2> HIDE DEF r
  <2> QED
    BY <1>4, <2>1, <2>2, <2>3, Zenon DEF Good, AddsUp
<1> HIDE DEF r
<1>6. chans' \in [Ids -> Channel] /\ chans'[c] = r /\ \A d \in Ids : d # c => chans'[d] = chans[d]
  <2>1. chans \in [Ids -> Channel]
    BY <1>2, Zenon DEF TypeOK
  <2> HIDE DEF c
  <2> QED
    BY <1>2, <1>3, <1>4, <2>1, Zenon DEF r
<1>7. ChannelsGood'
  <2> SUFFICES ASSUME NEW d \in 1 .. c PROVE Good(chans'[d], lastIn[d])
    BY <1>1, Zenon DEF ChannelsGood
  <2>1. d \in Ids /\ (d # c => d \in 1 .. created)
    BY <1>2 DEF Ids
  <2>2. lastIn[d] \in Nat
    BY <1>2, <2>1 DEF TypeOK
  <2> QED
    BY <1>5, <1>6, <2>1, <2>2, Zenon DEF HubInv, ChannelsGood
<1>8. Unused'
  <2> SUFFICES ASSUME NEW d \in Ids, d > c PROVE chans'[d].queue = << >>
    BY <1>1, Zenon DEF Unused
  <2>1. d > created /\ d # c
    BY <1>2 DEF Ids
  <2> QED
    BY <1>6, <2>1, Zenon DEF HubInv, Unused
<1>9. FifoStep
  <2>1. Pend' = Pend
    <3> SUFFICES ASSUME NEW d \in Ids PROVE chans'[d].queue = chans[d].queue
      BY Zenon DEF Pend
    <3>1. c > created
      BY <1>2
    <3> HIDE DEF c
    <3>2. chans[c].queue = << >>
      BY <1>2, <3>1, Zenon DEF HubInv, Unused
    <3> QED
      BY <1>4, <1>6, <3>2, Zenon
  <2> QED
    BY <1>1, <2>1, Zenon DEF FifoStep
<1>10. name[t] \in Name
  BY Zenon DEF HubInv, Named, CreateInsert
<1>11. DOMAIN hub' = DOMAIN hub \union {name[t]} /\ \A n \in DOMAIN hub' : hub'[n] \in 1 .. c
  <2>1. hub' = [m \in DOMAIN hub \union {name[t]} |-> IF m = name[t] THEN c ELSE hub[m]]
    BY Zenon DEF CreateInsert, Insert
  <2>2. \A n \in DOMAIN hub : hub[n] \in 1 .. created
    BY <1>2, Zenon DEF TypeOK
  <2>3. c \in 1 .. c /\ \A x \in 1 .. created : x \in 1 .. c
    BY <1>2
  <2> HIDE DEF c
  <2> QED
    BY <2>1, <2>2, <2>3, Zenon
<1>12. /\ pc' \in [Thread -> PCs] /\ name' \in [Thread -> Name \union {None}]
       /\ \A u \in Thread : pc'[u] = "have" => handle[u] # 0
  BY <1>2 DEF TypeOK, CreateInsert, PCs
<1>13. TypeOK'
  <2>1. /\ DOMAIN hub' \subseteq Name /\ \A n \in DOMAIN hub' : hub'[n] \in 1 .. created'
        /\ created' \in 0 .. MaxCreated /\ handle' \in [Thread -> 0 .. created']
    <3>1. DOMAIN hub' \subseteq Name
      BY <1>2, <1>10, <1>11, Zenon DEF TypeOK
    <3>2. created' \in 0 .. MaxCreated /\ \A x \in 0 .. created : x \in 0 .. created'
      BY <1>1, <1>2
    <3>3. handle' \in [Thread -> 0 .. created']
      BY <1>1, <1>2, <3>2 DEF TypeOK
    <3> QED
      BY <1>1, <1>11, <3>1, <3>2, <3>3, Zenon
  <2> QED
    BY <1>1, <1>2, <1>6, <1>12, <2>1, Zenon DEF TypeOK
<1>14. Named'
  BY <1>2, <1>10 DEF HubInv, TypeOK, Named, CreateInsert
<1>15. HubBounded'
  <2> DEFINE h == Cardinality(DOMAIN hub)
             g == Cardinality(DOMAIN hub')
             a == Cardinality(Creators)
             b == Cardinality(Creators')
             m == Cardinality(Thread)
  <2>1. t \in Creators /\ Creators' = Creators \ {t}
    BY <1>2 DEF TypeOK, Creators, CreateInsert
  <2>2. h \in Nat /\ a \in Nat /\ m \in Nat /\ IsFiniteSet(DOMAIN hub) /\ IsFiniteSet(Creators)
    BY <1>2, Finite
  <2>3. b = a - 1
    BY <2>1, <2>2, FS_RemoveElement
  <2>4. g \in Nat /\ g <= h + 1
    <3>1. IsFiniteSet(DOMAIN hub \union {name[t]})
          /\ Cardinality(DOMAIN hub \union {name[t]}) =
               IF name[t] \in DOMAIN hub THEN h ELSE h + 1
      BY <2>2, FS_AddElement
    <3> HIDE DEF h
    <3> QED
      BY <1>11, <2>2, <3>1
  <2>5. MaxChannels \in Nat /\ h + a < MaxChannels + m
    BY HubAssumption DEF HubInv, HubBounded
  <2> HIDE DEF h, g, a, b, m
  <2>6. g + b < MaxChannels + m
    BY <2>2, <2>3, <2>4, <2>5
  <2> QED
    BY <2>6, Zenon DEF HubBounded, g, b, m
<1> QED
  BY <1>7, <1>8, <1>9, <1>13, <1>14, <1>15, Zenon DEF HubInv

-----------------------------------------------------------------------------
(* Steps of a channel *)

LEMMA ChannelStep ==
  ASSUME HubInv, NEW c \in 1 .. created, NEW r, NEW top \in Nat, Good(r, top),
         chans' = [chans EXCEPT ![c] = r], lastIn' = [lastIn EXCEPT ![c] = top],
         UNCHANGED << hub, created, expired, pc, name, handle >>,
         accepted' \in accepted .. MaxMessages, top <= accepted',
         lastOut' \in [Ids -> 0 .. accepted']
  PROVE  HubInv' /\ c \in Ids /\ Pend' = [Pend EXCEPT ![c] = Elems(r.queue)]
<1>1. TypeOK
  BY DEF HubInv
<1>2. /\ created \in Nat /\ accepted \in Nat /\ MaxMessages \in Nat /\ MaxCreated \in Nat
      /\ created <= MaxCreated
  BY <1>1, HubAssumption DEF TypeOK
<1>3. c \in Ids /\ ~(c > created) /\ \A d \in 1 .. created : d \in Ids
  BY <1>2 DEF Ids
<1>4. chans \in [Ids -> Channel] /\ lastIn \in [Ids -> 0 .. accepted] /\ r \in Channel
  BY <1>1, Zenon DEF TypeOK, Good
<1>5. /\ chans' \in [Ids -> Channel] /\ chans'[c] = r
      /\ \A d \in Ids : d # c => chans'[d] = chans[d]
  BY <1>3, <1>4, Zenon
<1>6. /\ lastIn' \in [Ids -> 0 .. accepted'] /\ lastIn'[c] = top
      /\ \A d \in Ids : d # c => lastIn'[d] = lastIn[d]
  <2>1. top \in 0 .. accepted' /\ \A x \in 0 .. accepted : x \in 0 .. accepted'
    BY <1>2
  <2>2. lastIn \in [Ids -> 0 .. accepted']
    BY <1>4, <2>1
  <2> QED
    BY <1>3, <2>1, <2>2, Zenon
<1>7. TypeOK'
  <2>1. accepted' \in 0 .. MaxMessages
    BY <1>2
  <2> QED
    BY <1>1, <1>5, <1>6, <2>1, Zenon DEF TypeOK
<1>8. Named' /\ HubBounded'
  BY Zenon DEF HubInv, Named, HubBounded, Creators
<1>9. ChannelsGood'
  BY <1>3, <1>5, <1>6, Zenon DEF HubInv, ChannelsGood
<1>10. Unused'
  BY <1>3, <1>5, Zenon DEF HubInv, Unused
<1>11. Pend' = [Pend EXCEPT ![c] = Elems(r.queue)]
  <2>1. Pend' = [d \in Ids |-> Elems(chans'[d].queue)]
    BY Zenon DEF Pend
  <2>2. ASSUME NEW d \in Ids
        PROVE  Elems(chans'[d].queue) = IF d = c THEN Elems(r.queue) ELSE Elems(chans[d].queue)
    BY <1>5, Zenon
  <2> QED
    BY <1>3, <2>1, <2>2, Zenon DEF Pend
<1> QED
  BY <1>3, <1>7, <1>8, <1>9, <1>10, <1>11, Zenon DEF HubInv

\* A thread that uses a channel holds one that was created.
LEMMA Held ==
  ASSUME HubInv, NEW t \in Thread, pc[t] = "have"
  PROVE  /\ handle[t] \in 1 .. created /\ handle[t] \in Ids
         /\ Good(chans[handle[t]], lastIn[handle[t]]) /\ lastIn[handle[t]] \in 0 .. accepted
         /\ accepted \in Nat /\ lastIn[handle[t]] \in Nat
<1>1. handle[t] \in 1 .. created /\ accepted \in Nat /\ created \in 0 .. MaxCreated
      /\ lastIn \in [Ids -> 0 .. accepted]
  BY DEF HubInv, TypeOK
<1>2. handle[t] \in Ids
  BY <1>1, HubAssumption DEF Ids
<1>3. lastIn[handle[t]] \in 0 .. accepted
  BY <1>1, <1>2, Zenon
<1>4. lastIn[handle[t]] \in Nat
  BY <1>1, <1>3
<1> QED
  BY <1>1, <1>2, <1>3, <1>4, Zenon DEF HubInv, ChannelsGood

\* What the refinement sees of a channel that changes.
LEMMA FifoGiveUp ==
  ASSUME NEW c \in Ids, NEW m \in 0 .. lastIn[c], UNCHANGED << lastIn, lastOut >>,
         Pend' = [Pend EXCEPT ![c] = {y \in Elems(chans[c].queue) : y > m}]
  PROVE  FifoStep
<1>1. Pend[c] = Elems(chans[c].queue)
  BY Zenon DEF Pend
<1>2. Pend' = [Pend EXCEPT ![c] = {y \in Pend[c] : y > m}]
  BY <1>1, Zenon
<1>3. Fifo!GiveUp(c)
  BY <1>2, Zenon DEF Fifo!GiveUp, Fifo!After, Pend, Elems
<1> QED
  BY <1>3, Zenon DEF FifoStep, Fifo!Next

LEMMA FifoDeliver ==
  ASSUME NEW c \in Ids, NEW n \in Elems(chans[c].queue), UNCHANGED lastIn,
         lastOut \in [Ids -> Nat], lastOut' = [lastOut EXCEPT ![c] = n],
         Pend' = [Pend EXCEPT ![c] = {y \in Elems(chans[c].queue) : y > n}]
  PROVE  FifoStep
<1>1. Pend[c] = Elems(chans[c].queue)
  BY Zenon DEF Pend
<1>2. Pend' = [Pend EXCEPT ![c] = {y \in Pend[c] : y > n}] /\ n \in Pend[c]
  BY <1>1, Zenon
<1>3. lastOut'[c] = n
  BY Zenon
<1>4. Fifo!Deliver(c, lastOut'[c])
  BY <1>2, <1>3, Zenon DEF Fifo!Deliver, Fifo!After, Pend, Elems
<1> QED
  BY <1>4, Zenon DEF FifoStep, Fifo!Next

LEMMA FifoAccept ==
  ASSUME NEW c \in Ids, NEW n, n > lastIn[c], NEW m \in 0 .. lastIn[c],
         NEW T, lastIn \in [Ids -> T],
         lastIn' = [lastIn EXCEPT ![c] = n], UNCHANGED lastOut,
         Pend' = [Pend EXCEPT ![c] = {y \in Elems(chans[c].queue) : y > m} \union {n}]
  PROVE  FifoStep
<1>1. Pend[c] = Elems(chans[c].queue)
  BY Zenon DEF Pend
<1>2. Pend' = [Pend EXCEPT ![c] = {y \in Pend[c] : y > m} \union {n}]
  BY <1>1, Zenon
<1>3. lastIn'[c] = n
  BY Zenon
<1>4. Fifo!Accept(c, lastIn'[c])
  BY <1>2, <1>3, Zenon DEF Fifo!Accept, Fifo!After, Pend, Elems
<1> QED
  BY <1>4, Zenon DEF FifoStep, Fifo!Next

LEMMA SendStep ==
  ASSUME HubInv, NEW t \in Thread, Send(t)
  PROVE  HubInv' /\ FifoStep
<1> DEFINE c == handle[t]
           ch == chans[c]
           m == accepted + 1
           r == Sent(ch, m)
<1>1. pc[t] = "have" /\ accepted < MaxMessages /\ accepted' = m
  BY Zenon DEF Send
<1>2. chans' = [chans EXCEPT ![c] = r] /\ lastIn' = [lastIn EXCEPT ![c] = m]
  BY Zenon DEF Send, Sent
<1>3. UNCHANGED << hub, created, expired, pc, name, handle, lastOut >>
  BY Zenon DEF Send, threads
<1>4. /\ c \in 1 .. created /\ c \in Ids /\ Good(ch, lastIn[c])
      /\ lastIn[c] \in 0 .. accepted /\ accepted \in Nat /\ lastIn[c] \in Nat
  BY <1>1, Held, Zenon
<1> HIDE DEF c, ch, r
<1>5. /\ m \in Messages /\ m > lastIn[c] /\ m \in Nat /\ m <= accepted'
      /\ accepted' \in accepted .. MaxMessages
  BY <1>1, <1>4, HubAssumption DEF Messages
<1>6. /\ Good(r, m)
      /\ \E x \in 0 .. lastIn[c] : Elems(r.queue) = {y \in Elems(ch.queue) : y > x} \union {m}
  <2> DEFINE top == lastIn[c]
  <2>1. top \in Nat /\ m > top /\ Good(ch, top) /\ m \in Messages
    BY <1>4, <1>5, Zenon
  <2> HIDE DEF m, top
  <2>2. /\ Good(Sent(ch, m), m)
        /\ \E x \in 0 .. top : Elems(Sent(ch, m).queue) = {y \in Elems(ch.queue) : y > x} \union {m}
    BY <2>1, SendKeeps
  <2> QED
    BY <2>2, Zenon DEF r, top
<1>7. lastOut' \in [Ids -> 0 .. accepted']
  <2>1. lastOut \in [Ids -> 0 .. accepted]
    BY Zenon DEF HubInv, TypeOK
  <2>2. \A x \in 0 .. accepted : x \in 0 .. accepted'
    BY <1>1, <1>4
  <2> QED
    BY <1>3, <2>1, <2>2
<1>8. HubInv' /\ Pend' = [Pend EXCEPT ![c] = Elems(r.queue)]
  <2> HIDE DEF m
  <2> QED
    BY <1>2, <1>3, <1>4, <1>5, <1>6, <1>7, ChannelStep
<1>9. PICK x \in 0 .. lastIn[c] : Elems(r.queue) = {y \in Elems(ch.queue) : y > x} \union {m}
  BY <1>6, Zenon
<1>10. lastIn \in [Ids -> 0 .. accepted]
  BY Zenon DEF HubInv, TypeOK
<1>11. Pend' = [Pend EXCEPT ![c] = {y \in Elems(chans[c].queue) : y > x} \union {m}]
  BY <1>8, <1>9, Zenon DEF ch
<1>12. FifoStep
  <2> HIDE DEF m
  <2>1. UNCHANGED lastOut
    BY <1>3, Zenon
  <2> QED
    BY <1>2, <1>4, <1>5, <1>10, <1>11, <2>1, FifoAccept
<1> QED
  BY <1>8, <1>12, Zenon

\* receive without a message to deliver, and clear, give up everything.
LEMMA EmptyStep ==
  ASSUME HubInv, NEW t \in Thread, pc[t] = "have", NEW r \in Channel,
         r.queue = << >>, r.cap = chans[handle[t]].cap, r.sent = chans[handle[t]].sent,
         r.received = chans[handle[t]].received,
         r.dropped = chans[handle[t]].dropped + Len(chans[handle[t]].queue),
         r.behind \/ r.depth = 0,
         chans' = [chans EXCEPT ![handle[t]] = r],
         UNCHANGED << hub, created, threads, messages >>
  PROVE  HubInv' /\ FifoStep
<1> DEFINE c == handle[t]
           ch == chans[c]
           top == lastIn[c]
<1>1. UNCHANGED << hub, created, expired, pc, name, handle, accepted, lastIn, lastOut >>
  BY Zenon DEF threads, messages
<1>2. /\ c \in 1 .. created /\ c \in Ids /\ Good(ch, top)
      /\ top \in 0 .. accepted /\ accepted \in Nat /\ top \in Nat
  BY Held, Zenon
<1>3. Good(r, top) /\ Elems(r.queue) = {y \in Elems(ch.queue) : y > top}
  <2>1. /\ r.cap = ch.cap /\ r.sent = ch.sent /\ r.received = ch.received
        /\ r.dropped = ch.dropped + Len(ch.queue) /\ (r.behind \/ r.depth = 0)
    BY Zenon
  <2> HIDE DEF ch, top
  <2> QED
    BY <1>2, <2>1, EmptyKeeps, Zenon
<1>4. lastIn' = [lastIn EXCEPT ![c] = top]
  <2>1. lastIn \in [Ids -> 0 .. accepted]
    BY Zenon DEF HubInv, TypeOK
  <2> HIDE DEF c
  <2> QED
    BY <1>1, <1>2, <2>1
<1>5. /\ accepted' \in accepted .. MaxMessages /\ top <= accepted'
      /\ lastOut' \in [Ids -> 0 .. accepted'] /\ top \in 0 .. top
  <2>1. lastOut' \in [Ids -> 0 .. accepted'] /\ accepted \in 0 .. MaxMessages
    BY <1>1, Zenon DEF HubInv, TypeOK
  <2>2. accepted \in accepted .. MaxMessages /\ top <= accepted /\ top \in 0 .. top
    <3> HIDE DEF top
    <3> QED
      BY <1>2, <2>1, HubAssumption
  <2> QED
    BY <1>1, <2>1, <2>2, Zenon
<1>6. chans' = [chans EXCEPT ![c] = r]
  BY Zenon
<1>7. HubInv' /\ Pend' = [Pend EXCEPT ![c] = Elems(r.queue)]
  <2> HIDE DEF c, top
  <2> QED
    BY <1>1, <1>2, <1>3, <1>4, <1>5, <1>6, ChannelStep
<1>8. FifoStep
  <2>1. Pend' = [Pend EXCEPT ![c] = {y \in Elems(chans[c].queue) : y > top}]
    BY <1>3, <1>7, Zenon
  <2>2. UNCHANGED << lastIn, lastOut >> /\ top \in 0 .. lastIn[c]
    BY <1>1, <1>5, Zenon
  <2> HIDE DEF c, top
  <2> QED
    BY <1>2, <2>1, <2>2, FifoGiveUp
<1> QED
  BY <1>7, <1>8, Zenon

LEMMA ReceiveStep ==
  ASSUME HubInv, NEW t \in Thread, Receive(t)
  PROVE  HubInv' /\ FifoStep
<1> DEFINE c == handle[t]
           ch == chans[c]
           top == lastIn[c]
           n == Stale(ch.queue)
<1>1. pc[t] = "have"
  BY Zenon DEF Receive
<1>2. UNCHANGED << hub, created, expired, pc, name, handle, accepted, lastIn >>
  BY Zenon DEF Receive, threads
<1>3. /\ c \in 1 .. created /\ c \in Ids /\ Good(ch, top)
      /\ top \in 0 .. accepted /\ accepted \in Nat /\ top \in Nat
  BY <1>1, Held, Zenon
<1>4. ch \in Channel /\ ch.queue \in Seq(Messages) /\ Len(ch.queue) \in Nat /\ ch.dropped \in Nat
  <2>1. ch \in Channel
    BY <1>3, Zenon DEF Good
  <2> HIDE DEF ch
  <2> QED
    BY <2>1, ChannelFields, Zenon
<1>5. n \in 0 .. Len(ch.queue)
  BY <1>4, StaleCounts, Zenon
<1>6. CASE n < Len(ch.queue)
  <2> DEFINE r == Delivered(ch, n)
             o == ch.queue[n + 1]
  <2>1. chans' = [chans EXCEPT ![c] = r] /\ lastOut' = [lastOut EXCEPT ![c] = o]
    BY <1>6, Zenon DEF Receive, Delivered
  <2>2. /\ Good(r, top) /\ o \in Elems(ch.queue) /\ o <= top
        /\ Elems(r.queue) = {y \in Elems(ch.queue) : y > o}
    <3> HIDE DEF ch, top, n
    <3> QED
      BY <1>3, <1>5, <1>6, DeliverKeeps, Zenon
  <2>3. o \in 0 .. accepted
    <3>1. DOMAIN ch.queue = 1 .. Len(ch.queue) /\ \A i \in 1 .. Len(ch.queue) : ch.queue[i] \in Messages
      <4> HIDE DEF ch
      <4> QED
        BY <1>4, LenProperties
    <3>2. o \in Messages
      BY <2>2, <3>1, Zenon DEF Elems
    <3> HIDE DEF o, top
    <3> QED
      BY <1>3, <2>2, <3>2, HubAssumption DEF Messages
  <2> HIDE DEF r, o
  <2>4. lastOut \in [Ids -> 0 .. accepted] /\ accepted \in 0 .. MaxMessages /\ lastIn \in [Ids -> 0 .. accepted]
    BY Zenon DEF HubInv, TypeOK
  <2>5. lastOut' \in [Ids -> 0 .. accepted'] /\ lastOut \in [Ids -> Nat]
    <3> HIDE DEF c
    <3> QED
      BY <1>2, <1>3, <2>1, <2>3, <2>4
  <2>6. lastIn' = [lastIn EXCEPT ![c] = top]
    <3> HIDE DEF c
    <3> QED
      BY <1>2, <1>3, <2>4
  <2>7. accepted' \in accepted .. MaxMessages /\ top <= accepted'
    <3>1. accepted \in accepted .. MaxMessages /\ top <= accepted
      <4> HIDE DEF top
      <4> QED
        BY <1>3, <2>4, HubAssumption
    <3> QED
      BY <1>2, <3>1, Zenon
  <2>8. HubInv' /\ Pend' = [Pend EXCEPT ![c] = Elems(r.queue)]
    <3> HIDE DEF c, top
    <3> QED
      BY <1>2, <1>3, <2>1, <2>2, <2>5, <2>6, <2>7, ChannelStep
  <2>9. FifoStep
    <3>1. Pend' = [Pend EXCEPT ![c] = {y \in Elems(chans[c].queue) : y > o}] /\ o \in Elems(chans[c].queue)
      BY <2>2, <2>8, Zenon
    <3>2. UNCHANGED lastIn
      BY <1>2, Zenon
    <3> HIDE DEF c
    <3> QED
      BY <1>3, <2>1, <2>5, <3>1, <3>2, FifoDeliver
  <2> QED
    BY <2>8, <2>9, Zenon
<1>7. CASE ~(n < Len(ch.queue))
  <2> DEFINE b == ch.behind \/ n > 0
             r == [ch EXCEPT !.queue = << >>, !.dropped = @ + n, !.behind = b]
  <2>1. chans' = [chans EXCEPT ![c] = r] /\ UNCHANGED lastOut
    BY <1>7, Zenon DEF Receive
  <2>2. n = Len(ch.queue)
    <3> HIDE DEF n, ch
    <3> QED
      BY <1>4, <1>5, <1>7
  <2>3. << >> \in Seq(Messages) /\ ch.dropped + n \in Nat /\ b \in BOOLEAN
    <3> HIDE DEF n, ch
    <3>1. << >> \in Seq(Messages) /\ ch.dropped + n \in Nat
      BY <1>4, <1>5
    <3>2. b \in BOOLEAN
      BY Zenon
    <3> QED
      BY <3>1, <3>2, Zenon
  <2> HIDE DEF b
  <2>4. r \in Channel
    BY <1>4, <2>3, Written, Zenon
  <2>5. /\ r.queue = << >> /\ r.cap = ch.cap /\ r.sent = ch.sent /\ r.received = ch.received
        /\ r.dropped = ch.dropped + Len(ch.queue) /\ r.behind = b /\ r.depth = ch.depth
    <3> HIDE DEF n, ch
    <3>1. /\ r.queue = << >> /\ r.cap = ch.cap /\ r.sent = ch.sent /\ r.received = ch.received
          /\ r.dropped = ch.dropped + n /\ r.behind = b /\ r.depth = ch.depth
      BY <1>4, <2>3 DEF Channel
    <3> QED
      BY <2>2, <3>1, Zenon
  <2>6. b \/ ch.depth = 0
    <3>1. IF ch.behind THEN Len(ch.queue) = 0 ELSE ch.depth = Len(ch.queue)
      BY <1>3, Zenon DEF Good, AddsUp
    <3>2. b <=> ch.behind \/ n > 0
      BY Zenon DEF b
    <3> HIDE DEF n, ch
    <3> QED
      BY <1>4, <2>2, <3>1, <3>2
  <2>7. UNCHANGED << hub, created, threads, messages >>
    BY <1>2, <2>1, Zenon DEF threads, messages
  <2> HIDE DEF r
  <2> QED
    BY <1>1, <2>1, <2>4, <2>5, <2>6, <2>7, EmptyStep
<1> QED
  BY <1>6, <1>7

LEMMA ClearStep ==
  ASSUME HubInv, NEW t \in Thread, Clear(t)
  PROVE  HubInv' /\ FifoStep
<1> DEFINE c == handle[t]
           ch == chans[c]
           r == [ch EXCEPT !.queue = << >>, !.dropped = @ + Len(ch.queue), !.depth = 0, !.behind = FALSE]
<1>1. pc[t] = "have" /\ UNCHANGED << hub, created, threads, messages >>
  BY Zenon DEF Clear
<1>2. c \in Ids /\ Good(ch, lastIn[c])
  BY <1>1, Held, Zenon
<1>3. ch \in Channel /\ Len(ch.queue) \in Nat /\ ch.dropped \in Nat
  <2>1. ch \in Channel
    BY <1>2, Zenon DEF Good
  <2> HIDE DEF ch
  <2> QED
    BY <2>1, ChannelFields, Zenon
<1>4. chans' = [chans EXCEPT ![c] = r]
  BY Zenon DEF Clear
<1>5. r \in Channel
  <2>1. ch.dropped + Len(ch.queue) \in Nat /\ << >> \in Seq(Messages) /\ 0 \in Nat
    <3> HIDE DEF ch
    <3> QED
      BY <1>3
  <2> QED
    BY <1>3, <2>1, Written, Zenon
<1>6. /\ r.queue = << >> /\ r.cap = ch.cap /\ r.sent = ch.sent /\ r.received = ch.received
      /\ r.dropped = ch.dropped + Len(ch.queue) /\ r.depth = 0
  <2> HIDE DEF ch
  <2> QED
    BY <1>3 DEF Channel
<1> HIDE DEF r
<1> QED
  BY <1>1, <1>4, <1>5, <1>6, EmptyStep

-----------------------------------------------------------------------------
LEMMA HubInit == Init => HubInv /\ Fifo!Init
<1> SUFFICES ASSUME Init PROVE HubInv /\ Fifo!Init
  OBVIOUS
<1> USE HubAssumption DEF Init
<1>1. NoChannel \in Channel /\ NoChannel.queue = << >>
  <2>1. << >> \in Seq(Messages) /\ 0 \in Nat
    OBVIOUS
  <2> QED
    BY <2>1, Zenon DEF NoChannel, NewChannel, Channel
<1>2. TypeOK
  <2>1. chans \in [Ids -> Channel]
    BY <1>1
  <2>2. DOMAIN hub = {}
    OBVIOUS
  <2>3. /\ created \in 0 .. MaxCreated /\ accepted \in 0 .. MaxMessages
        /\ lastIn \in [Ids -> 0 .. accepted] /\ lastOut \in [Ids -> 0 .. accepted]
        /\ handle \in [Thread -> 0 .. created]
    OBVIOUS
  <2>4. /\ pc \in [Thread -> PCs] /\ name \in [Thread -> Name \union {None}]
        /\ \A t \in Thread : pc[t] = "have" => handle[t] # 0
    BY DEF PCs
  <2>5. expired \subseteq Messages
    OBVIOUS
  <2> QED
    BY <2>1, <2>2, <2>3, <2>4, <2>5, Zenon DEF TypeOK
<1>3. Named
  BY DEF Named
<1>4. HubBounded
  <2>1. DOMAIN hub = {} /\ Creators = {}
    BY DEF Creators
  <2>2. Cardinality({}) = 0
    BY FS_EmptySet
  <2>3. Cardinality(Thread) \in Nat /\ Cardinality(Thread) # 0
    BY FS_EmptySet, FS_CardinalityType
  <2> QED
    BY <2>1, <2>2, <2>3 DEF HubBounded
<1>5. ChannelsGood
  <2>1. \A c \in 1 .. 0 : FALSE
    OBVIOUS
  <2> QED
    BY <2>1, Zenon DEF ChannelsGood
<1>6. Unused
  BY <1>1, Zenon DEF Unused
<1>7. Fifo!Init
  <2>1. \A c \in Ids : {chans[c].queue[i] : i \in DOMAIN chans[c].queue} = {}
    <3>1. DOMAIN << >> = {}
      OBVIOUS
    <3> QED
      BY <1>1, <3>1, Zenon
  <2> QED
    BY <2>1, Zenon DEF Fifo!Init
<1> QED
  BY <1>2, <1>3, <1>4, <1>5, <1>6, <1>7 DEF HubInv

LEMMA HubStep == HubInv /\ [Next]_vars => HubInv' /\ FifoStep
<1> SUFFICES ASSUME HubInv, [Next]_vars PROVE HubInv' /\ FifoStep
  OBVIOUS
<1>1. ASSUME NEW t \in Thread, Step(t) PROVE HubInv' /\ FifoStep
  BY <1>1, ThreadSteps, CreateLenStep, CreateInsertStep, SendStep, ReceiveStep, ClearStep DEF Step
<1> QED
  BY <1>1, OtherSteps DEF Next

LEMMA HubInvariant == Spec => []HubInv
  BY HubInit, HubStep, PTL DEF Spec

\* A handle always stands for a channel that was created, whatever happens to its
\* name, for any number of threads, names, channels and messages.
THEOREM HubIsTyped == Spec => []TypeOK
<1>1. HubInv => TypeOK
  BY DEF HubInv
<1> QED
  BY <1>1, HubInvariant, PTL

\* The statistics of every channel add up, its queue keeps within its capacity
\* and queue_depth lags only behind expired messages, for any capacities, 0
\* included, and any mix of overflow, expiry, clear and receive.
THEOREM StatsAlwaysAddUp == Spec => []StatsAddUp
<1>1. HubInv => StatsAddUp
  BY Zenon DEF HubInv, ChannelsGood, Good, AddsUp, Counts, StatsAddUp
<1> QED
  BY <1>1, HubInvariant, PTL

\* However many threads pass the check of max_channels together, the hub exceeds
\* the limit by less than their number.
THEOREM HubStaysBounded == Spec => []HubBounded
<1>1. HubInv => HubBounded
  BY DEF HubInv
<1> QED
  BY <1>1, HubInvariant, PTL

\* Every channel is a first-in first-out queue that gives up only its oldest
\* messages: send accepts, receive delivers or gives up, clear gives up, and no
\* other operation of the hub changes what a channel holds.
THEOREM ChannelsAreFifo == Spec => ImplementsFifo
<1>1. Init => HubInv /\ Fifo!Init
  BY HubInit
<1>2. HubInv /\ [Next]_vars =>
        HubInv' /\ [Fifo!Next]_<< lastIn, [c \in Ids |-> {chans[c].queue[i] : i \in DOMAIN chans[c].queue}], lastOut >>
  BY HubStep, Zenon DEF FifoStep, Pend, Elems
<1> QED
  BY <1>1, <1>2, PTL DEF Spec, ImplementsFifo, Fifo!Spec
=============================================================================
