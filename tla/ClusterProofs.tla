--------------------------- MODULE ClusterProofs ----------------------------
(***************************************************************************)
(* Proofs about the parts that keep a mesh of nodes together: its leader    *)
(* election, the circuit breaker in front of a remote call and the          *)
(* replicated data types of the key-value store.  The parts share no state. *)
(***************************************************************************)
EXTENDS RaftElection, CircuitBreaker, KvReplication, FiniteSetTheorems, TLAPS

-----------------------------------------------------------------------------
(***************************************************************************)
(* Leader election.  A node votes once per term, and no two nodes lead the  *)
(* same term with quorums of all nodes, for any number of nodes and terms   *)
(* and any changes of members: two quorums of all nodes have a voter in     *)
(* common.  Quorums of fewer members need not, since votes of non-members   *)
(* count as well.                                                           *)
(***************************************************************************)

\* A vote that was sent is of a term the voter has reached, and as long as
\* the voter is in that term voted_for still names the candidate.
GrantsRemembered ==
  \A m \in responses : m.granted =>
    /\ m.term <= term[m.from]
    /\ m.term = term[m.from] => votedFor[m.from] = m.to

VoteInv == TypeOK /\ GrantsRemembered /\ VotesOncePerTerm

\* Node v has sent its vote for candidate c in term t.
Voted(v, c, t) ==
  \E m \in responses : m.granted /\ m.from = v /\ m.to = c /\ m.term = t

\* A candidate has voted for itself and counts only votes of its own term.
CandidateVotes ==
  \A n \in Node : role[n] = "Candidate" =>
    /\ votedFor[n] = n
    /\ \A v \in votes[n] : v = n \/ Voted(v, n, term[n])

\* A leader was elected by a quorum of its members, each of whom voted for it, and it voted
\* for nobody else in its term.
ElectedByQuorum ==
  \A e \in elected :
    /\ Cardinality(e.by) >= Cardinality(e.of) \div 2 + 1
    /\ \A v \in e.by : v = e.leader \/ Voted(v, e.leader, e.term)

ElectedVotedSelf ==
  \A e \in elected :
    /\ e.term <= term[e.leader]
    /\ e.term = term[e.leader] => votedFor[e.leader] = e.leader
    /\ \A m \in responses : m.granted /\ m.from = e.leader /\ m.term = e.term => m.to = e.leader

ElectionInv == CandidateVotes /\ ElectedByQuorum /\ ElectedVotedSelf

-----------------------------------------------------------------------------
LEMMA VoteInit == Init => VoteInv
BY RaftAssumption DEF Init, VoteInv, TypeOK, GrantsRemembered, VotesOncePerTerm

\* Every step keeps the types.
LEMMA VoteTypes ==
  ASSUME TypeOK, [Next]_vars
  PROVE  TypeOK'
<1> USE RaftAssumption DEF TypeOK
<1>1. ASSUME NEW n \in Node, StartElection(n)
      PROVE  TypeOK'
  <2>1. term[n] + 1 \in 0 .. MaxTerm
    BY <1>1 DEF StartElection
  <2>2. requests' \subseteq VoteRequest
    BY <1>1, <2>1 DEF StartElection, VoteRequest
  <2>3. elected' \subseteq Election
    BY <1>1, <2>1 DEF StartElection, CountVotes, Election
  <2> QED
    BY <1>1, <2>1, <2>2, <2>3 DEF StartElection, CountVotes, logVars
<1>2. ASSUME NEW n \in Node, NEW r \in requests, HandleVoteRequest(n, r)
      PROVE  TypeOK'
  <2>1. r.term \in 0 .. MaxTerm /\ r.candidate \in Node
    BY DEF VoteRequest
  <2>2. /\ term' \in [Node -> 0 .. MaxTerm] /\ votes' \in [Node -> SUBSET Node]
        /\ role' \in [Node -> {"Follower", "Candidate", "Leader"}]
    BY <1>2, <2>1 DEF HandleVoteRequest, StepDownFor
  <2> DEFINE new == [from |-> n, to |-> r.candidate, term |-> term'[n], granted |-> Grants(n, r)]
  <2>3. new \in VoteResponse
    <3>1. Grants(n, r) \in BOOLEAN
      BY Zenon DEF Grants
    <3>2. term'[n] \in 0 .. MaxTerm
      BY <2>2
    <3> QED
      BY <2>1, <3>1, <3>2, Zenon DEF VoteResponse
  <2>4. responses' \subseteq VoteResponse
    <3>1. responses \subseteq responses' /\ responses' \subseteq responses \cup {new}
      BY <1>2, Zenon DEF HandleVoteRequest
    <3> HIDE DEF new
    <3> QED
      BY <2>3, <3>1
  <2> QED
    BY <1>2, <2>1, <2>2, <2>4 DEF HandleVoteRequest, VoteAt, logVars
<1>3. ASSUME NEW n \in Node, NEW m \in responses, StepDown(n, m)
      PROVE  TypeOK'
  BY <1>3 DEF StepDown, StepDownFor, VoteResponse, logVars
<1>4. ASSUME NEW n \in Node, NEW m \in responses, HandleVoteResponse(n, m)
      PROVE  TypeOK'
  <2>1. m.from \in Node
    BY DEF VoteResponse
  <2>2. elected' \subseteq Election
    BY <1>4, <2>1 DEF HandleVoteResponse, CountVotes, Election
  <2> QED
    BY <1>4, <2>1, <2>2 DEF HandleVoteResponse, CountVotes, logVars
<1>5. ASSUME NEW n \in Node, NEW e \in elected, ReceiveHeartbeat(n, e)
      PROVE  TypeOK'
  BY <1>5 DEF ReceiveHeartbeat, Election, logVars
<1>6. ASSUME NEW n \in Node, AppendCommand(n)
      PROVE  TypeOK'
  BY <1>6 DEF AppendCommand
<1>7. ASSUME NEW n \in Node, NEW m \in Node, AddMember(n, m) \/ RemoveMember(n, m)
      PROVE  TypeOK'
  BY <1>7 DEF AddMember, RemoveMember, logVars
<1>8. CASE UNCHANGED vars
  BY <1>8 DEF vars
<1> QED
  BY <1>1, <1>2, <1>3, <1>4, <1>5, <1>6, <1>7, <1>8 DEF Next

\* Steps that send no vote keep the votes, if terms only grow and voted_for
\* changes only together with the term.
LEMMA NoNewVote ==
  ASSUME VoteInv, TypeOK', responses' = responses,
         \A v \in Node : \/ term'[v] > term[v]
                         \/ term'[v] = term[v] /\ votedFor'[v] = votedFor[v]
  PROVE  GrantsRemembered' /\ VotesOncePerTerm'
BY DEF VoteInv, TypeOK, GrantsRemembered, VotesOncePerTerm, VoteResponse

\* Handling a request sends one response; a vote in it is the only one of
\* its voter and term.
LEMMA NewVote ==
  ASSUME VoteInv, TypeOK', NEW n \in Node, NEW r \in requests, HandleVoteRequest(n, r)
  PROVE  GrantsRemembered' /\ VotesOncePerTerm'
<1> DEFINE new == [from |-> n, to |-> r.candidate, term |-> term'[n], granted |-> Grants(n, r)]
<1> USE RaftAssumption DEF VoteInv, TypeOK
<1>1. responses \subseteq responses' /\ responses' \subseteq responses \cup {new}
  BY DEF HandleVoteRequest
<1>2. r.term \in 0 .. MaxTerm /\ r.candidate \in Node
  BY DEF VoteRequest
<1>3. /\ \A v \in Node \ {n} : term'[v] = term[v] /\ votedFor'[v] = votedFor[v]
      /\ term'[n] >= term[n]
      /\ term'[n] = term[n] => VoteAt(n, r) = votedFor[n]
  BY <1>2 DEF HandleVoteRequest, StepDownFor, VoteAt
<1>4. votedFor'[n] = IF Grants(n, r) THEN r.candidate ELSE VoteAt(n, r)
  BY DEF HandleVoteRequest
<1>5. \A m \in responses : m.from \in Node /\ m.to \in Node /\ m.term \in 0 .. MaxTerm
  BY DEF VoteResponse
\* An earlier vote of n in the same term went to the same candidate.
<1>6. ASSUME NEW m \in responses, m.granted, m.from = n, m.term = term'[n]
      PROVE  votedFor'[n] = m.to /\ (Grants(n, r) => m.to = r.candidate)
  <2>1. m.term <= term[n] /\ term'[n] = term[n]
    BY <1>3, <1>5, <1>6 DEF GrantsRemembered
  <2>2. votedFor[n] = m.to /\ m.to # None
    BY <1>5, <1>6, <2>1 DEF GrantsRemembered
  <2>3. VoteAt(n, r) = m.to
    BY <1>3, <2>1, <2>2
  <2> QED
    BY <1>4, <2>2, <2>3 DEF Grants
<1>7. GrantsRemembered'
  <2> SUFFICES ASSUME NEW m \in responses', m.granted
               PROVE  /\ m.term <= term'[m.from]
                      /\ m.term = term'[m.from] => votedFor'[m.from] = m.to
    BY DEF GrantsRemembered
  <2>1. CASE m \in responses
    <3>1. CASE m.from = n
      BY <1>3, <1>5, <1>6, <2>1, <3>1 DEF GrantsRemembered
    <3>2. CASE m.from # n
      BY <1>3, <1>5, <2>1, <3>2 DEF GrantsRemembered
    <3> QED
      BY <3>1, <3>2
  <2>2. CASE m = new
    BY <1>4, <2>2
  <2> QED
    BY <1>1, <2>1, <2>2
<1>8. VotesOncePerTerm'
  <2> SUFFICES ASSUME NEW m1 \in responses', NEW m2 \in responses', m1.granted, m2.granted,
                      m1.from = m2.from, m1.term = m2.term
               PROVE  m1.to = m2.to
    BY DEF VotesOncePerTerm
  <2>1. CASE m1 \in responses /\ m2 \in responses
    BY <2>1 DEF VotesOncePerTerm
  <2>2. CASE m1 \in responses /\ m2 = new
    BY <1>6, <2>2
  <2>3. CASE m1 = new /\ m2 \in responses
    BY <1>6, <2>3
  <2>4. CASE m1 = new /\ m2 = new
    BY <2>4
  <2> QED
    BY <1>1, <2>1, <2>2, <2>3, <2>4
<1> QED
  BY <1>7, <1>8

\* A heartbeat that is acted on is not of an earlier term.
LEMMA NotBelow ==
  ASSUME TypeOK, NEW n \in Node, NEW e, e.term \in 0 .. MaxTerm, ReceiveHeartbeat(n, e)
  PROVE  e.term > term[n] \/ e.term = term[n]
<1>1. term[n] \in Nat /\ e.term \in Nat
  BY RaftAssumption DEF TypeOK
<1>2. e.term >= term[n]
  BY Zenon DEF ReceiveHeartbeat
<1> QED
  BY <1>1, <1>2

LEMMA VoteStep ==
  ASSUME VoteInv, [Next]_vars
  PROVE  VoteInv'
<1>1. TypeOK'
  BY VoteTypes DEF VoteInv
<1> USE <1>1 DEF VoteInv, TypeOK
<1>2. ASSUME NEW n \in Node, StartElection(n)
      PROVE  VoteInv'
  BY <1>2, NoNewVote DEF StartElection
<1>3. ASSUME NEW n \in Node, NEW r \in requests, HandleVoteRequest(n, r)
      PROVE  VoteInv'
  BY <1>3, NewVote
<1>4. ASSUME NEW n \in Node, NEW m \in responses, StepDown(n, m)
      PROVE  VoteInv'
  BY <1>4, NoNewVote DEF StepDown, StepDownFor, VoteResponse
<1>5. ASSUME NEW n \in Node, NEW m \in responses, HandleVoteResponse(n, m)
      PROVE  VoteInv'
  BY <1>5, NoNewVote DEF HandleVoteResponse
<1>6. ASSUME NEW n \in Node, NEW e \in elected, ReceiveHeartbeat(n, e)
      PROVE  VoteInv'
  <2>1. e.term \in 0 .. MaxTerm
    BY DEF Election
  <2>2. \A v \in Node : \/ term'[v] > term[v]
                        \/ term'[v] = term[v] /\ votedFor'[v] = votedFor[v]
    <3>1. CASE e.term > term[n]
      BY <1>6, <2>1, <3>1 DEF ReceiveHeartbeat
    <3>2. CASE e.term = term[n]
      BY <1>6, <2>1, <3>2 DEF ReceiveHeartbeat
    <3>3. e.term > term[n] \/ e.term = term[n]
      BY <1>6, <2>1, NotBelow
    <3> QED
      BY <3>1, <3>2, <3>3, Zenon
  <2>3. responses' = responses
    BY <1>6 DEF ReceiveHeartbeat
  <2> QED
    BY <2>2, <2>3, NoNewVote
<1>7. ASSUME NEW n \in Node, AppendCommand(n)
      PROVE  VoteInv'
  BY <1>7, NoNewVote DEF AppendCommand
<1>8. ASSUME NEW n \in Node, NEW m \in Node, AddMember(n, m) \/ RemoveMember(n, m)
      PROVE  VoteInv'
  BY <1>8, NoNewVote DEF AddMember, RemoveMember
<1>9. CASE UNCHANGED vars
  BY <1>9, NoNewVote DEF vars
<1> QED
  BY <1>2, <1>3, <1>4, <1>5, <1>6, <1>7, <1>8, <1>9 DEF Next

\* A node never votes for two candidates in a term, however many nodes there
\* are, whatever their members and however messages are repeated and delayed.
THEOREM VotesOnce == Spec => []VotesOncePerTerm
<1>1. VoteInv => VotesOncePerTerm
  BY DEF VoteInv
<1> QED
  BY VoteInit, VoteStep, <1>1, PTL DEF Spec

-----------------------------------------------------------------------------
\* Two quorums of all nodes have a voter in common.
LEMMA QuorumsIntersect ==
  ASSUME NEW S \in SUBSET Node, NEW T \in SUBSET Node,
         Cardinality(S) >= Cardinality(Node) \div 2 + 1,
         Cardinality(T) >= Cardinality(Node) \div 2 + 1
  PROVE  \E v \in Node : v \in S /\ v \in T
<1>1. IsFiniteSet(Node) /\ IsFiniteSet(S) /\ IsFiniteSet(T)
  BY RaftAssumption, FS_Subset
<1>2. Cardinality(Node) \in Nat /\ Cardinality(S) \in Nat /\ Cardinality(T) \in Nat
  BY <1>1, FS_CardinalityType
<1>3. Cardinality(S) + Cardinality(T) > Cardinality(Node)
  BY <1>2
<1>4. S \cap T # {}
  BY <1>1, <1>3, FS_MajoritiesIntersect
<1> QED
  BY <1>4

\* The invariant leaves no room for a second leader of a term by a quorum of
\* all nodes.
LEMMA LeaderUnique == VoteInv /\ ElectionInv => FullQuorumsAgree
<1> SUFFICES ASSUME VoteInv, ElectionInv, NEW e1 \in elected, NEW e2 \in elected,
                    e1.term = e2.term, e1.of = Node, e2.of = Node
             PROVE  e1.leader = e2.leader
  BY DEF FullQuorumsAgree
<1>1. e1.by \in SUBSET Node /\ e2.by \in SUBSET Node
  BY DEF VoteInv, TypeOK, Election
<1>2. PICK v \in Node : v \in e1.by /\ v \in e2.by
  BY <1>1, QuorumsIntersect DEF ElectionInv, ElectedByQuorum
<1>3. (v = e1.leader \/ Voted(v, e1.leader, e1.term)) /\ (v = e2.leader \/ Voted(v, e2.leader, e2.term))
  BY <1>2 DEF ElectionInv, ElectedByQuorum
<1> QED
  BY <1>3 DEF Voted, ElectionInv, ElectedVotedSelf, VoteInv, VotesOncePerTerm

\* What the candidate and leader facts need of a step: no vote
\* disappears, terms only grow and a vote changes only with the term.
Keeps ==
  /\ responses \subseteq responses'
  /\ \A v \in Node : \/ term'[v] > term[v]
                     \/ term'[v] = term[v] /\ votedFor[v] \in {None, votedFor'[v]}

\* A step that elects nobody and sends no vote keeps the leader facts.
LEMMA KeepsElected ==
  ASSUME VoteInv, ElectionInv, TypeOK', Keeps, responses' = responses, elected' = elected
  PROVE  ElectedByQuorum' /\ ElectedVotedSelf'
BY RaftAssumption
   DEF VoteInv, TypeOK, ElectionInv, Keeps, ElectedByQuorum, ElectedVotedSelf, Voted, Election

\* A node whose term, role, vote and votes do not change stays the candidate
\* it was.
LEMMA KeepsCandidate ==
  ASSUME VoteInv, ElectionInv, Keeps, NEW n \in Node,
         role'[n] = "Candidate" =>
           role[n] = "Candidate" /\ term'[n] = term[n] /\ votes'[n] = votes[n]
  PROVE  role'[n] = "Candidate" =>
           votedFor'[n] = n /\ \A v \in votes'[n] : v = n \/ Voted(v, n, term[n])'
BY RaftAssumption DEF VoteInv, TypeOK, ElectionInv, Keeps, CandidateVotes, Voted

\* Node n wins, or goes on as a candidate, with the votes V in term t.
LEMMA Counting ==
  ASSUME VoteInv, ElectionInv, TypeOK', Keeps, responses' = responses,
         NEW n \in Node, NEW V \in SUBSET Node, NEW t \in 0 .. MaxTerm,
         CountVotes(n, t, V), term'[n] = t, votedFor'[n] = n,
         \A v \in Node \ {n} : term'[v] = term[v],
         \A v \in V : v = n \/ Voted(v, n, t),
         \A m \in responses : m.granted /\ m.from = n /\ m.term = t => m.to = n
  PROVE  ElectionInv'
<1> DEFINE new == [term |-> t, leader |-> n, by |-> V, of |-> members[n]]
<1> USE RaftAssumption DEF VoteInv, TypeOK
<1>1. \A v, c \in Node, k \in 0 .. MaxTerm : Voted(v, c, k)' <=> Voted(v, c, k)
  BY DEF Voted
<1>2. CandidateVotes'
  <2> SUFFICES ASSUME NEW k \in Node, role'[k] = "Candidate"
               PROVE  votedFor'[k] = k /\ \A v \in votes'[k] : v = k \/ Voted(v, k, term[k])'
    BY DEF CandidateVotes
  <2>1. CASE k = n
    <3>1. votes'[n] = V
      BY DEF CountVotes
    <3> QED
      BY <2>1, <3>1 DEF Voted
  <2>2. CASE k # n
    <3>1. role[k] = "Candidate" /\ votes'[k] = votes[k] /\ term'[k] = term[k]
      BY <2>2 DEF CountVotes
    <3> QED
      BY <3>1, KeepsCandidate
  <2> QED
    BY <2>1, <2>2
<1>3. CASE ~IsQuorum(n, V)
  <2>1. elected' = elected
    BY <1>3 DEF CountVotes
  <2> QED
    BY <1>2, <2>1, KeepsElected DEF ElectionInv
<1>4. CASE IsQuorum(n, V)
  <2>1. elected' = elected \cup {new}
    BY <1>4 DEF CountVotes
  <2>2. Cardinality(V) >= Cardinality(members[n]) \div 2 + 1
    BY <1>4 DEF IsQuorum
  <2>3. ElectedByQuorum'
    <3>1. \A e \in elected : /\ Cardinality(e.by) >= Cardinality(e.of) \div 2 + 1
                             /\ \A v \in e.by : v = e.leader \/ Voted(v, e.leader, e.term)'
      BY DEF ElectionInv, ElectedByQuorum, Voted
    <3>2. \A v \in V : v = n \/ Voted(v, n, t)'
      BY DEF Voted
    <3> QED
      BY <2>1, <2>2, <3>1, <3>2 DEF ElectedByQuorum
  <2>4. ElectedVotedSelf'
    <3>1. \A e \in elected :
            /\ e.term <= term'[e.leader]
            /\ e.term = term'[e.leader] => votedFor'[e.leader] = e.leader
            /\ \A m \in responses : m.granted /\ m.from = e.leader /\ m.term = e.term => m.to = e.leader
      BY DEF ElectionInv, ElectedVotedSelf, Keeps, Election
    <3> QED
      BY <2>1, <3>1 DEF ElectedVotedSelf
  <2> QED
    BY <1>2, <2>3, <2>4 DEF ElectionInv
<1> QED
  BY <1>3, <1>4

\* A step that counts no votes keeps the candidate facts.
LEMMA NoCounting ==
  ASSUME VoteInv, ElectionInv, TypeOK', Keeps, elected' = elected,
         responses' = responses,
         \A k \in Node : role'[k] = "Candidate" =>
           role[k] = "Candidate" /\ term'[k] = term[k] /\ votes'[k] = votes[k]
  PROVE  ElectionInv'
<1>1. CandidateVotes'
  BY KeepsCandidate DEF CandidateVotes
<1> QED
  BY <1>1, KeepsElected DEF ElectionInv

\* A response sent by n does not betray an election n has won.
LEMMA VoteSent ==
  ASSUME VoteInv, ElectionInv, TypeOK',
         NEW n \in Node, NEW r \in requests, HandleVoteRequest(n, r)
  PROVE  ElectionInv'
<1> DEFINE new == [from |-> n, to |-> r.candidate, term |-> term'[n], granted |-> Grants(n, r)]
<1> USE RaftAssumption DEF VoteInv, TypeOK
<1>1. responses \subseteq responses' /\ responses' \subseteq responses \cup {new} /\ elected' = elected
  BY DEF HandleVoteRequest
<1>2. r.term \in 0 .. MaxTerm /\ r.candidate \in Node
  BY DEF VoteRequest
<1>3. /\ \A v \in Node \ {n} : /\ term'[v] = term[v] /\ votedFor'[v] = votedFor[v]
                              /\ role'[v] = role[v] /\ votes'[v] = votes[v]
      /\ \/ term'[n] > term[n] /\ role'[n] = "Follower"
         \/ term'[n] = term[n] /\ role'[n] = role[n] /\ votes'[n] = votes[n]
  BY <1>2 DEF HandleVoteRequest, StepDownFor
<1>4. votedFor'[n] = IF Grants(n, r) THEN r.candidate ELSE VoteAt(n, r)
  BY DEF HandleVoteRequest
<1>5. term'[n] = term[n] => VoteAt(n, r) = votedFor[n]
  BY <1>2 DEF HandleVoteRequest, StepDownFor, VoteAt
<1>6. Keeps
  <2>1. term'[n] = term[n] => votedFor[n] \in {None, votedFor'[n]}
    BY <1>4, <1>5 DEF Grants
  <2> QED
    BY <1>1, <1>3, <2>1 DEF Keeps
<1>7. CandidateVotes'
  BY <1>3, <1>6, KeepsCandidate DEF CandidateVotes
<1>8. ElectedByQuorum'
  BY <1>1 DEF ElectionInv, ElectedByQuorum, Voted
<1>9. ElectedVotedSelf'
  <2> SUFFICES ASSUME NEW e \in elected
               PROVE  /\ e.term <= term'[e.leader]
                      /\ e.term = term'[e.leader] => votedFor'[e.leader] = e.leader
                      /\ \A m \in responses' : m.granted /\ m.from = e.leader /\ m.term = e.term => m.to = e.leader
    BY <1>1 DEF ElectedVotedSelf
  <2>1. e.leader \in Node /\ e.term \in 0 .. MaxTerm
    BY DEF Election
  <2>2. /\ e.term <= term[e.leader]
        /\ e.term = term[e.leader] => votedFor[e.leader] = e.leader
        /\ \A m \in responses : m.granted /\ m.from = e.leader /\ m.term = e.term => m.to = e.leader
    BY DEF ElectionInv, ElectedVotedSelf
  <2>3. e.term <= term'[e.leader] /\ (e.term = term'[e.leader] => votedFor'[e.leader] = e.leader)
    BY <1>6, <2>1, <2>2 DEF Keeps
  <2>4. e.leader = n /\ e.term = term'[n] /\ Grants(n, r) => r.candidate = n
    BY <1>4, <2>3
  <2> QED
    BY <1>1, <2>2, <2>3, <2>4
<1> QED
  BY <1>7, <1>8, <1>9 DEF ElectionInv

LEMMA ElectionStep ==
  ASSUME VoteInv, ElectionInv, [Next]_vars
  PROVE  ElectionInv'
<1>1. TypeOK'
  BY VoteStep DEF VoteInv
<1> USE <1>1, RaftAssumption DEF VoteInv, TypeOK
<1>2. ASSUME NEW n \in Node, StartElection(n)
      PROVE  ElectionInv'
  <2>1. Keeps /\ responses' = responses
    BY <1>2 DEF StartElection, Keeps
  <2>2. /\ CountVotes(n, term[n] + 1, {n}) /\ term'[n] = term[n] + 1 /\ votedFor'[n] = n
        /\ \A v \in Node \ {n} : term'[v] = term[v]
    BY <1>2 DEF StartElection
  <2>3. \A m \in responses : m.granted /\ m.from = n => m.term # term[n] + 1
    BY DEF GrantsRemembered, VoteResponse
  <2>4. term[n] + 1 \in 0 .. MaxTerm
    BY <1>2 DEF StartElection
  <2> QED
    BY <2>1, <2>2, <2>3, <2>4, Counting
<1>3. ASSUME NEW n \in Node, NEW r \in requests, HandleVoteRequest(n, r)
      PROVE  ElectionInv'
  BY <1>3, VoteSent
<1>4. ASSUME NEW n \in Node, NEW m \in responses, StepDown(n, m)
      PROVE  ElectionInv'
  <2>1. m.term \in 0 .. MaxTerm
    BY DEF VoteResponse
  <2>2. Keeps /\ responses' = responses /\ elected' = elected
    BY <1>4, <2>1 DEF StepDown, StepDownFor, Keeps
  <2>3. \A k \in Node : role'[k] = "Candidate" =>
          role[k] = "Candidate" /\ term'[k] = term[k] /\ votes'[k] = votes[k]
    BY <1>4, <2>1 DEF StepDown, StepDownFor
  <2> QED
    BY <2>2, <2>3, NoCounting
<1>5. ASSUME NEW n \in Node, NEW m \in responses, HandleVoteResponse(n, m)
      PROVE  ElectionInv'
  <2> DEFINE V == votes[n] \cup {m.from}
  <2>1. Keeps /\ responses' = responses
    BY <1>5 DEF HandleVoteResponse, Keeps
  <2>2. m.granted /\ m.to = n /\ m.term = term[n] /\ role[n] = "Candidate"
    BY <1>5 DEF HandleVoteResponse, Counts
  <2>3. \A v \in V : v = n \/ Voted(v, n, term[n])
    BY <2>2 DEF ElectionInv, CandidateVotes, Voted
  <2>4. votedFor[n] = n
    BY <2>2 DEF ElectionInv, CandidateVotes
  <2>5. \A k \in responses : k.granted /\ k.from = n /\ k.term = term[n] => k.to = n
    BY <2>4 DEF GrantsRemembered
  <2>6. CountVotes(n, term[n], V) /\ term' = term /\ votedFor' = votedFor
    BY <1>5 DEF HandleVoteResponse
  <2>7. V \in SUBSET Node /\ term[n] \in 0 .. MaxTerm
    BY DEF VoteResponse
  <2> HIDE DEF V
  <2> QED
    BY <2>1, <2>3, <2>4, <2>5, <2>6, <2>7, Counting
<1>6. ASSUME NEW n \in Node, NEW e \in elected, ReceiveHeartbeat(n, e)
      PROVE  ElectionInv'
  <2>1. e.term \in 0 .. MaxTerm
    BY DEF Election
  <2>2. e.term > term[n] \/ e.term = term[n]
    BY <1>6, <2>1, NotBelow
  <2>3. /\ responses' = responses /\ elected' = elected
        /\ term'[n] = e.term /\ role'[n] = "Follower"
        /\ e.term = term[n] => votedFor'[n] = votedFor[n]
        /\ \A v \in Node \ {n} : /\ term'[v] = term[v] /\ votedFor'[v] = votedFor[v]
                               /\ role'[v] = role[v] /\ votes'[v] = votes[v]
    BY <1>6, <2>1 DEF ReceiveHeartbeat
  <2>4. Keeps
    BY <2>2, <2>3 DEF Keeps
  <2> QED
    BY <2>3, <2>4, NoCounting
<1>7. ASSUME NEW n \in Node, AppendCommand(n)
      PROVE  ElectionInv'
  BY <1>7, NoCounting DEF AppendCommand, Keeps
<1>8. ASSUME NEW n \in Node, NEW m \in Node, AddMember(n, m) \/ RemoveMember(n, m)
      PROVE  ElectionInv'
  BY <1>8, NoCounting DEF AddMember, RemoveMember, Keeps
<1>9. CASE UNCHANGED vars
  BY <1>9, NoCounting DEF vars, Keeps
<1> QED
  BY <1>2, <1>3, <1>4, <1>5, <1>6, <1>7, <1>8, <1>9 DEF Next

\* No two nodes ever lead the same term with quorums of all nodes, for any
\* number of nodes, any loss, delay and repetition of votes and any changes
\* of members that add_member and remove_member make.
THEOREM OneLeader == Spec => []FullQuorumsAgree
<1>1. Init => ElectionInv
  BY DEF Init, ElectionInv, CandidateVotes, ElectedByQuorum, ElectedVotedSelf
<1>2. VoteInv /\ ElectionInv /\ [Next]_vars => VoteInv' /\ ElectionInv'
  BY VoteStep, ElectionStep
<1> QED
  BY VoteInit, <1>1, <1>2, LeaderUnique, PTL DEF Spec

\* Terms, votes and the replies in transit keep their shape.
THEOREM RaftIsTyped == Spec => []TypeOK
<1>1. VoteInv => TypeOK
  BY DEF VoteInv
<1> QED
  BY VoteInit, VoteStep, <1>1, PTL DEF Spec

-----------------------------------------------------------------------------
(***************************************************************************)
(* Circuit breaker.  For any callers and all thresholds it implements the   *)
(* three-state machine until two calls overlap; however calls and resets    *)
(* overlap, a threshold that is reached is acted upon.                      *)
(***************************************************************************)

Opening == {"failure_opened", "reopen_opened"}

Resetting == {"reset_failures", "reset_successes", "reset_opened"}

\* Where a count of successes is still to be cleared.
SuccessesKept == {"success_failures", "success_store", "reopen_opened", "reopen_store",
                  "reset_failures", "reset_successes"}

BreakerTypes ==
  /\ state \in {"Closed", "Open", "HalfOpen"}
  /\ failures \in Nat /\ successes \in Nat
  /\ young \in BOOLEAN
  /\ pc \in [Thread -> PCs]

\* What a caller relies on between reading the state and writing it.
StateRead(t) ==
  /\ pc[t] \in {"allow_check", "allow_write", "reopen_store"} \cup Opening => state = "Open"
  /\ pc[t] \in {"allow_store", "success_count", "success_write", "reopen_write"}
       => state = "HalfOpen"
  /\ pc[t] \in {"success_failures", "success_store", "success_window", "failure_count",
                "failure_last", "failure_last_trip", "failure_write"} \cup Resetting
       => state = "Closed"
  /\ pc[t] = "allow_write" => openedAt = "old"
  /\ pc[t] = "success_write" => successes >= SuccessThreshold
  /\ pc[t] \in {"failure_last_trip", "failure_write"} => failures >= FailureThreshold

\* With t the only caller: successes are counted in HalfOpen only, the failures
\* that t clears are the only ones void, and opened_at is as young as the trip.
Alone(t) ==
  /\ StateRead(t)
  /\ state # "HalfOpen" /\ pc[t] \notin SuccessesKept => successes = 0
  /\ pc[t] = "allow_store" => successes = 0
  /\ pc[t] = "success_store" => failures = 0
  /\ pc[t] \in {"reset_successes", "reset_opened"} => failures = 0
  /\ young = TRUE /\ pc[t] \notin Opening => openedAt # "old"

OthersIdle(t) == \A u \in Thread : u # t => pc[u] = "idle"

CountAlone(t) ==
  IF state = "HalfOpen" THEN successes
  ELSE IF state = "Open" \/ pc[t] \in Clearing THEN 0
  ELSE failures

\* Between calls any caller is as good as alone.
SerialInv ==
  /\ BreakerTypes
  /\ Serial
  /\ \A t \in Thread : OthersIdle(t) => Alone(t)

ThreadStep(t) ==
  AllowRead(t) \/ SuccessRead(t) \/ FailureRead(t) \/ ResetWrite(t) \/ Continue(t)

-----------------------------------------------------------------------------
\* Every step keeps the types.
LEMMA BreakerTypesStep ==
  ASSUME BreakerTypes, [BreakerStep]_accessVars
  PROVE  BreakerTypes'
<1> USE CircuitAssumption DEF BreakerTypes, Goto, PCs, counters, times
<1>1. ASSUME NEW t \in Thread, AllowRead(t) \/ SuccessRead(t) \/ FailureRead(t) \/ ResetWrite(t)
      PROVE  BreakerTypes'
  BY <1>1 DEF AllowRead, SuccessRead, FailureRead, ResetWrite
<1>2. ASSUME NEW t \in Thread, AllowCheck(t) \/ AllowWrite(t) \/ AllowStore(t)
      PROVE  BreakerTypes'
  BY <1>2 DEF AllowCheck, AllowWrite, AllowStore
<1>3. ASSUME NEW t \in Thread,
             \/ SuccessCount(t) \/ SuccessWrite(t) \/ SuccessFailures(t)
             \/ SuccessStore(t) \/ SuccessWindow(t)
      PROVE  BreakerTypes'
  BY <1>3 DEF SuccessCount, SuccessWrite, SuccessFailures, SuccessStore, SuccessWindow
<1>4. ASSUME NEW t \in Thread,
             \/ FailureCount(t) \/ FailureLast(t) \/ FailureWrite(t) \/ FailureOpened(t)
      PROVE  BreakerTypes'
  <2>1. young' \in BOOLEAN
    BY <1>4, Zenon DEF FailureCount, FailureLast, FailureWrite, FailureOpened, WriteOpen
  <2> QED
    BY <1>4, <2>1 DEF FailureCount, FailureLast, FailureWrite, FailureOpened, WriteOpen
<1>5. ASSUME NEW t \in Thread, ReopenWrite(t) \/ ReopenOpened(t) \/ ReopenStore(t)
      PROVE  BreakerTypes'
  <2>1. young' \in BOOLEAN
    BY <1>5, Zenon DEF ReopenWrite, ReopenOpened, ReopenStore, WriteOpen
  <2> QED
    BY <1>5, <2>1 DEF ReopenWrite, ReopenOpened, ReopenStore, WriteOpen
<1>6. ASSUME NEW t \in Thread, ResetFailures(t) \/ ResetSuccesses(t) \/ ResetOpened(t)
      PROVE  BreakerTypes'
  BY <1>6 DEF ResetFailures, ResetSuccesses, ResetOpened
<1>7. CASE OpenElapses \/ WindowElapses
  BY <1>7 DEF OpenElapses, WindowElapses
<1>8. CASE UNCHANGED accessVars
  BY <1>8 DEF accessVars
<1> QED
  BY <1>1, <1>2, <1>3, <1>4, <1>5, <1>6, <1>7, <1>8 DEF BreakerStep, Continue

\* A call that overlaps no other is the only one under way, before and after.
LEMMA OnlyCaller ==
  ASSUME BreakerTypes, Serial, Serial', NEW t \in Thread, ThreadStep(t)
  PROVE  OthersIdle(t) /\ OthersIdle(t)'
<1>1. PICK label : pc' = [pc EXCEPT ![t] = label]
  BY DEF ThreadStep, Continue, Goto, AllowRead, SuccessRead, FailureRead, ResetWrite,
         AllowCheck, AllowWrite, AllowStore, SuccessCount, SuccessWrite, SuccessFailures,
         SuccessStore, SuccessWindow, FailureCount, FailureLast, FailureWrite, FailureOpened,
         ReopenWrite, ReopenOpened, ReopenStore, ResetFailures, ResetSuccesses, ResetOpened
<1>2. pc[t] # "idle" \/ pc'[t] # "idle"
  BY DEF ThreadStep, Continue, Goto, BreakerTypes, AllowRead, SuccessRead, FailureRead, ResetWrite,
         AllowCheck, AllowWrite, AllowStore, SuccessCount, SuccessWrite, SuccessFailures,
         SuccessStore, SuccessWindow, FailureCount, FailureLast, FailureWrite, FailureOpened,
         ReopenWrite, ReopenOpened, ReopenStore, ResetFailures, ResetSuccesses, ResetOpened
<1>3. \A u \in Thread : u # t => pc'[u] = pc[u]
  BY <1>1 DEF BreakerTypes
<1> QED
  BY <1>2, <1>3 DEF Serial, OthersIdle

\* The only caller's step keeps what it relies on.
LEMMA AloneStep ==
  ASSUME BreakerTypes, NEW t \in Thread, Alone(t), ThreadStep(t)
  PROVE  Alone(t)'
<1> USE CircuitAssumption
<1> USE DEF BreakerTypes, Alone, StateRead, Opening, Resetting, SuccessesKept, Goto, counters, times
<1>1. CASE AllowRead(t) \/ SuccessRead(t) \/ FailureRead(t) \/ ResetWrite(t)
  BY <1>1 DEF AllowRead, SuccessRead, FailureRead, ResetWrite
<1>2. CASE AllowCheck(t) \/ AllowWrite(t) \/ AllowStore(t)
  BY <1>2 DEF AllowCheck, AllowWrite, AllowStore
<1>3. CASE \/ SuccessCount(t) \/ SuccessWrite(t) \/ SuccessFailures(t)
           \/ SuccessStore(t) \/ SuccessWindow(t)
  BY <1>3 DEF SuccessCount, SuccessWrite, SuccessFailures, SuccessStore, SuccessWindow
<1>4. CASE FailureCount(t) \/ FailureLast(t) \/ FailureWrite(t) \/ FailureOpened(t)
  BY <1>4 DEF FailureCount, FailureLast, FailureWrite, FailureOpened, WriteOpen
<1>5. CASE ReopenWrite(t) \/ ReopenOpened(t) \/ ReopenStore(t)
  BY <1>5 DEF ReopenWrite, ReopenOpened, ReopenStore, WriteOpen
<1>6. CASE ResetFailures(t) \/ ResetSuccesses(t) \/ ResetOpened(t)
  BY <1>6 DEF ResetFailures, ResetSuccesses, ResetOpened
<1> QED
  BY <1>1, <1>2, <1>3, <1>4, <1>5, <1>6 DEF ThreadStep, Continue

\* The count and the reset that the machine sees are those of the only caller.
LEMMA SeenAlone ==
  ASSUME NEW t \in Thread, OthersIdle(t), OthersIdle(t)'
  PROVE  /\ MachineCount = CountAlone(t) /\ MachineCount' = CountAlone(t)'
         /\ InReset <=> pc[t] \in Resetting
         /\ InReset' <=> pc'[t] \in Resetting
<1>1. (\E u \in Thread : pc[u] \in Clearing) <=> pc[t] \in Clearing
  BY DEF OthersIdle, Clearing
<1>2. (\E u \in Thread : pc'[u] \in Clearing) <=> pc'[t] \in Clearing
  BY DEF OthersIdle, Clearing
<1>3. MachineCount = CountAlone(t)
  BY <1>1 DEF MachineCount, CountAlone
<1>4. MachineCount' = CountAlone(t)'
  BY <1>2 DEF MachineCount, CountAlone
<1>5. /\ InReset <=> pc[t] \in Resetting
      /\ InReset' <=> pc'[t] \in Resetting
  BY DEF OthersIdle, InReset, Resetting
<1> QED
  BY <1>3, <1>4, <1>5

\* The only caller's step is a step of the machine or leaves it alone.
LEMMA AloneMachine ==
  ASSUME BreakerTypes, NEW t \in Thread, Alone(t), ThreadStep(t), OthersIdle(t), OthersIdle(t)'
  PROVE  [Machine!MachineNext]_Machine!machineVars
<1> DEFINE Goal == [Machine!MachineNext]_Machine!machineVars
<1> USE CircuitAssumption, SeenAlone
<1> USE DEF BreakerTypes, CountAlone, Clearing, Resetting, Goto, counters, times
<1>1. InReset \in BOOLEAN /\ InReset' \in BOOLEAN
  BY DEF InReset
<1>2. ASSUME state' = state, young' = young, MachineCount' = MachineCount, InReset' = InReset
      PROVE  Goal
  BY <1>2 DEF Machine!machineVars
<1>3. CASE AllowRead(t) \/ SuccessRead(t) \/ FailureRead(t)
  BY <1>1, <1>2, <1>3 DEF AllowRead, SuccessRead, FailureRead
<1>4. CASE ResetWrite(t)
  <2>1. Machine!Reset
    BY <1>1, <1>4 DEF ResetWrite, Machine!Reset, Machine!Enter
  <2> QED
    BY <2>1 DEF Machine!MachineNext
<1>5. CASE AllowCheck(t) \/ AllowStore(t)
  BY <1>1, <1>2, <1>5 DEF AllowCheck, AllowStore, Alone, StateRead
<1>6. CASE AllowWrite(t)
  <2>1. Machine!Probe
    BY <1>1, <1>6 DEF AllowWrite, Alone, StateRead, Opening, SuccessesKept,
                      Machine!Probe, Machine!Enter
  <2> QED
    BY <2>1 DEF Machine!MachineNext
<1>7. CASE SuccessCount(t)
  <2>1. Machine!Succeed
    BY <1>1, <1>7 DEF SuccessCount, Alone, StateRead, Machine!Succeed
  <2> QED
    BY <2>1 DEF Machine!MachineNext
<1>8. CASE SuccessWrite(t)
  <2>1. Machine!Close
    BY <1>1, <1>8 DEF SuccessWrite, Alone, StateRead, Machine!Close, Machine!Enter
  <2> QED
    BY <2>1 DEF Machine!MachineNext
<1>9. CASE SuccessFailures(t) \/ SuccessStore(t)
  BY <1>1, <1>2, <1>9 DEF SuccessFailures, SuccessStore, Alone, StateRead
<1>10. CASE SuccessWindow(t)
  <2>1. failures' = failures => Goal
    BY <1>1, <1>2, <1>10 DEF SuccessWindow, Alone, StateRead
  <2>2. failures' # failures => Machine!Forget
    BY <1>1, <1>10 DEF SuccessWindow, Alone, StateRead, Machine!Forget
  <2> QED
    BY <2>1, <2>2 DEF Machine!MachineNext
<1>11. CASE FailureCount(t)
  <2>1. Machine!Fail
    BY <1>1, <1>11 DEF FailureCount, Alone, StateRead, Machine!Fail
  <2> QED
    BY <2>1 DEF Machine!MachineNext
<1>12. CASE FailureLast(t) \/ FailureOpened(t) \/ ReopenOpened(t) \/ ReopenStore(t)
  BY <1>1, <1>2, <1>12
  DEF FailureLast, FailureOpened, ReopenOpened, ReopenStore, Alone, StateRead, Opening
<1>13. CASE FailureWrite(t) \/ ReopenWrite(t)
  <2>1. Machine!Trip
    BY <1>1, <1>13 DEF FailureWrite, ReopenWrite, WriteOpen, Alone, StateRead,
                       Machine!Trip, Machine!Enter
  <2> QED
    BY <2>1 DEF Machine!MachineNext
<1>14. CASE ResetFailures(t) \/ ResetSuccesses(t)
  BY <1>1, <1>2, <1>14 DEF ResetFailures, ResetSuccesses, Alone, StateRead
<1>15. CASE ResetOpened(t)
  <2>1. Machine!EndReset
    BY <1>1, <1>15 DEF ResetOpened, Alone, StateRead, Machine!EndReset
  <2> QED
    BY <2>1 DEF Machine!MachineNext
<1> HIDE DEF Goal
<1> QED
  BY <1>3, <1>4, <1>5, <1>6, <1>7, <1>8, <1>9, <1>10, <1>11, <1>12, <1>13, <1>14, <1>15, Zenon
  DEF ThreadStep, Continue

LEMMA SerialStep ==
  ASSUME SerialInv, [BreakerStep /\ Serial']_accessVars
  PROVE  SerialInv' /\ [Machine!MachineNext]_Machine!machineVars
<1>1. BreakerTypes' /\ Serial'
  <2>1. BreakerTypes'
    BY BreakerTypesStep DEF SerialInv
  <2>2. Serial'
    BY DEF SerialInv, Serial, accessVars
  <2> QED
    BY <2>1, <2>2
<1>2. ASSUME NEW t \in Thread, ThreadStep(t)
      PROVE  SerialInv' /\ [Machine!MachineNext]_Machine!machineVars
  <2>1. OthersIdle(t) /\ OthersIdle(t)'
    BY <1>1, <1>2, OnlyCaller DEF SerialInv
  <2>2. Alone(t) /\ BreakerTypes
    BY <2>1 DEF SerialInv
  <2>3. Alone(t)'
    BY <1>2, <2>2, AloneStep
  <2>4. ASSUME NEW u \in Thread, OthersIdle(u)'
        PROVE  Alone(u)'
    <3>1. CASE u = t
      BY <2>3, <3>1
    <3>2. CASE u # t
      <4>1. pc'[u] = pc'[t]
        BY <2>1, <2>4, <3>2 DEF OthersIdle
      <4> QED
        BY <2>3, <4>1 DEF Alone, StateRead
    <3> QED
      BY <3>1, <3>2
  <2>5. [Machine!MachineNext]_Machine!machineVars
    BY <1>2, <2>1, <2>2, AloneMachine
  <2> QED
    BY <1>1, <2>4, <2>5 DEF SerialInv
<1>3. CASE OpenElapses \/ WindowElapses
  <2>1. ASSUME NEW u \in Thread, OthersIdle(u)'
        PROVE  Alone(u)'
    <3>1. OthersIdle(u)
      BY <1>3, <2>1 DEF OthersIdle, OpenElapses, WindowElapses
    <3> QED
      BY <1>3, <3>1 DEF SerialInv, Alone, StateRead, Opening, OpenElapses, WindowElapses, counters
  <2>2. MachineCount' = MachineCount /\ InReset' = InReset
    BY <1>3 DEF MachineCount, InReset, OpenElapses, WindowElapses, counters
  <2>3. OpenElapses => Machine!Elapse
    BY <2>2 DEF OpenElapses, Machine!Elapse
  <2>4. WindowElapses => UNCHANGED Machine!machineVars
    BY <2>2 DEF WindowElapses, Machine!machineVars
  <2> QED
    BY <1>1, <1>3, <2>1, <2>3, <2>4 DEF SerialInv, Machine!MachineNext
<1>4. CASE UNCHANGED accessVars
  <2>1. ASSUME NEW u \in Thread, OthersIdle(u)'
        PROVE  Alone(u)'
    BY <1>4, <2>1 DEF accessVars, SerialInv, OthersIdle, Alone, StateRead
  <2>2. UNCHANGED Machine!machineVars
    BY <1>4 DEF accessVars, MachineCount, InReset, Machine!machineVars
  <2> QED
    BY <1>1, <2>1, <2>2 DEF SerialInv
<1> QED
  BY <1>2, <1>3, <1>4 DEF BreakerStep, ThreadStep

\* A step of the breaker is an access, or none, and remembers overlapping calls.
LEMMA BreakerAccess ==
  ASSUME [BreakerNext]_breakerVars
  PROVE  /\ [BreakerStep]_accessVars
         /\ ~overlapped' => ~overlapped /\ [BreakerStep /\ Serial']_accessVars
<1>1. CASE BreakerNext
  BY <1>1 DEF BreakerNext
<1>2. CASE UNCHANGED breakerVars
  BY <1>2 DEF breakerVars
<1> QED
  BY <1>1, <1>2

\* Callers in any number and with any thresholds, resets included, see the
\* three-state machine until two of their calls overlap: every step is a step
\* of the machine or leaves it alone.
THEOREM BreakerImplementsMachine == BreakerSpec => ImplementsMachine
<1> DEFINE Inv == ~overlapped => SerialInv
<1>1. BreakerInit => Inv
  <2> SUFFICES ASSUME BreakerInit PROVE SerialInv
    OBVIOUS
  <2>1. \A t \in Thread : pc[t] = "idle"
    BY DEF BreakerInit
  <2>2. BreakerTypes
    <3>1. young \in BOOLEAN
      BY Zenon DEF BreakerInit
    <3> QED
      BY <3>1 DEF BreakerInit, BreakerTypes, PCs
  <2>3. \A t \in Thread : Alone(t)
    BY <2>1 DEF BreakerInit, Alone, StateRead, Opening, Resetting
  <2> QED
    BY <2>1, <2>2, <2>3 DEF SerialInv, Serial
<1>2. BreakerInit => Machine!MachineInit
  <2> SUFFICES ASSUME BreakerInit PROVE Machine!MachineInit
    OBVIOUS
  <2>1. \A t \in Thread : pc[t] = "idle"
    BY DEF BreakerInit
  <2>2. MachineCount = 0
    BY DEF BreakerInit, MachineCount
  <2>3. InReset = FALSE
    BY <2>1 DEF InReset
  <2> QED
    BY <2>2, <2>3 DEF BreakerInit, Machine!MachineInit
<1>3. Inv /\ [BreakerNext]_breakerVars
        => Inv' /\ [~overlapped' => Machine!MachineNext]_(Machine!machineVars)
  <2> SUFFICES ASSUME Inv, [BreakerNext]_breakerVars
               PROVE  Inv' /\ [~overlapped' => Machine!MachineNext]_(Machine!machineVars)
    OBVIOUS
  <2>1. CASE overlapped'
    BY <2>1
  <2>2. CASE ~overlapped'
    <3>1. SerialInv /\ [BreakerStep /\ Serial']_accessVars
      BY <2>2, BreakerAccess
    <3>2. SerialInv' /\ [Machine!MachineNext]_Machine!machineVars
      BY <3>1, SerialStep
    <3> QED
      BY <3>2
  <2> QED
    BY <2>1, <2>2
<1> QED
  BY <1>1, <1>2, <1>3, PTL DEF BreakerSpec, ImplementsMachine

-----------------------------------------------------------------------------
LEMMA SettleStep ==
  ASSUME BreakerTypes, CountsSettle, [BreakerStep]_accessVars
  PROVE  CountsSettle'
<1> USE CircuitAssumption DEF BreakerTypes, CountsSettle, Clearing, Goto, counters, times
<1>1. ASSUME NEW t \in Thread, AllowRead(t) \/ SuccessRead(t) \/ FailureRead(t) \/ ResetWrite(t)
      PROVE  CountsSettle'
  BY <1>1 DEF AllowRead, SuccessRead, FailureRead, ResetWrite
<1>2. ASSUME NEW t \in Thread, AllowCheck(t) \/ AllowWrite(t) \/ AllowStore(t)
      PROVE  CountsSettle'
  BY <1>2 DEF AllowCheck, AllowWrite, AllowStore
<1>3. ASSUME NEW t \in Thread, SuccessCount(t) \/ SuccessWrite(t)
      PROVE  CountsSettle'
  BY <1>3 DEF SuccessCount, SuccessWrite
<1>4. ASSUME NEW t \in Thread, SuccessFailures(t) \/ SuccessStore(t) \/ SuccessWindow(t)
      PROVE  CountsSettle'
  BY <1>4 DEF SuccessFailures, SuccessStore, SuccessWindow
<1>5. ASSUME NEW t \in Thread, FailureCount(t) \/ FailureLast(t)
      PROVE  CountsSettle'
  BY <1>5 DEF FailureCount, FailureLast
<1>6. ASSUME NEW t \in Thread, FailureWrite(t) \/ FailureOpened(t)
      PROVE  CountsSettle'
  BY <1>6 DEF FailureWrite, FailureOpened, WriteOpen
<1>7. ASSUME NEW t \in Thread, ReopenWrite(t) \/ ReopenOpened(t) \/ ReopenStore(t)
      PROVE  CountsSettle'
  BY <1>7 DEF ReopenWrite, ReopenOpened, ReopenStore, WriteOpen
<1>8. ASSUME NEW t \in Thread, ResetFailures(t) \/ ResetSuccesses(t) \/ ResetOpened(t)
      PROVE  CountsSettle'
  BY <1>8 DEF ResetFailures, ResetSuccesses, ResetOpened
<1>9. CASE OpenElapses \/ WindowElapses
  BY <1>9 DEF OpenElapses, WindowElapses
<1>10. CASE UNCHANGED accessVars
  BY <1>10 DEF accessVars
<1> HIDE DEF CountsSettle
<1> QED
  BY <1>1, <1>2, <1>3, <1>4, <1>5, <1>6, <1>7, <1>8, <1>9, <1>10, Zenon
  DEF BreakerStep, Continue

\* However many callers race, with resets and for all thresholds, no count
\* stays at its threshold with nobody to act on it.
THEOREM CountsAlwaysSettle == BreakerSpec => []CountsSettle
<1> DEFINE Inv == BreakerTypes /\ CountsSettle
<1>1. BreakerInit => Inv
  <2> SUFFICES ASSUME BreakerInit PROVE Inv
    OBVIOUS
  <2>1. young \in BOOLEAN
    BY Zenon DEF BreakerInit
  <2> QED
    BY <2>1 DEF BreakerInit, BreakerTypes, CountsSettle, PCs
<1>2. Inv /\ [BreakerNext]_breakerVars => Inv'
  BY BreakerAccess, BreakerTypesStep, SettleStep
<1> QED
  BY <1>1, <1>2, PTL DEF BreakerSpec

-----------------------------------------------------------------------------
\* The counters stay within their bounds and the lock of opened_at is held by a
\* caller or nobody, for any thresholds and any number of racing callers.
THEOREM BreakerIsTyped == BreakerSpec => []BreakerTypeOK
<1> USE CircuitAssumption DEF BreakerTypeOK
<1>1. BreakerInit => BreakerTypeOK
  <2> SUFFICES ASSUME BreakerInit PROVE BreakerTypeOK
    OBVIOUS
  <2>1. young \in BOOLEAN /\ overlapped \in BOOLEAN
    BY Zenon DEF BreakerInit
  <2> QED
    BY <2>1 DEF BreakerInit, PCs
<1>2. BreakerTypeOK /\ [BreakerNext]_breakerVars => BreakerTypeOK'
  <2> SUFFICES ASSUME BreakerTypeOK, [BreakerNext]_breakerVars PROVE BreakerTypeOK'
    OBVIOUS
  <2> USE DEF Goto, PCs, counters, times
  <2>0. overlapped' \in BOOLEAN
    BY Zenon DEF BreakerNext, breakerVars
  <2> USE <2>0
  <2>1. ASSUME NEW t \in Thread, AllowRead(t) \/ SuccessRead(t) \/ FailureRead(t) \/ ResetWrite(t)
        PROVE  BreakerTypeOK'
    BY <2>1 DEF AllowRead, SuccessRead, FailureRead, ResetWrite
  <2>2. ASSUME NEW t \in Thread, AllowCheck(t) \/ AllowWrite(t) \/ AllowStore(t)
        PROVE  BreakerTypeOK'
    BY <2>2 DEF AllowCheck, AllowWrite, AllowStore
  <2>3. ASSUME NEW t \in Thread,
               \/ SuccessCount(t) \/ SuccessWrite(t) \/ SuccessFailures(t)
               \/ SuccessStore(t) \/ SuccessWindow(t)
        PROVE  BreakerTypeOK'
    BY <2>3 DEF SuccessCount, SuccessWrite, SuccessFailures, SuccessStore, SuccessWindow
  <2>4. ASSUME NEW t \in Thread,
               \/ FailureCount(t) \/ FailureLast(t) \/ FailureWrite(t) \/ FailureOpened(t)
        PROVE  BreakerTypeOK'
    <3>1. young' \in BOOLEAN
      BY <2>4, Zenon DEF FailureCount, FailureLast, FailureWrite, FailureOpened, WriteOpen
    <3> QED
      BY <2>4, <3>1 DEF FailureCount, FailureLast, FailureWrite, FailureOpened, WriteOpen
  <2>5. ASSUME NEW t \in Thread, ReopenWrite(t) \/ ReopenOpened(t) \/ ReopenStore(t)
        PROVE  BreakerTypeOK'
    <3>1. young' \in BOOLEAN
      BY <2>5, Zenon DEF ReopenWrite, ReopenOpened, ReopenStore, WriteOpen
    <3> QED
      BY <2>5, <3>1 DEF ReopenWrite, ReopenOpened, ReopenStore, WriteOpen
  <2>6. ASSUME NEW t \in Thread, ResetFailures(t) \/ ResetSuccesses(t) \/ ResetOpened(t)
        PROVE  BreakerTypeOK'
    BY <2>6 DEF ResetFailures, ResetSuccesses, ResetOpened
  <2>7. CASE OpenElapses \/ WindowElapses
    BY <2>7 DEF OpenElapses, WindowElapses
  <2>8. CASE UNCHANGED breakerVars
    BY <2>8 DEF breakerVars, accessVars
  <2> QED
    BY <2>1, <2>2, <2>3, <2>4, <2>5, <2>6, <2>7, <2>8 DEF BreakerNext, BreakerStep, Continue
<1> QED
  BY <1>1, <1>2, PTL DEF BreakerSpec

-----------------------------------------------------------------------------
(***************************************************************************)
(* Replicated data types.  For any set of nodes and elements, any clocks and*)
(* any transport, what a replica holds is what the updates it has seen      *)
(* amount to.                                                               *)
(***************************************************************************)

USE ReplicationAssumption

\* Every state a merge can meet: those of the nodes and those in transit.
All == {rep[n] : n \in Site} \union net

ClockMeans(r) == \A m \in Site : Numbers(r, "set", m) = 1 .. r.reg.vclock[m]

Local(r) == Replica(r) /\ SetMeans(r) /\ CounterMeans(r) /\ ClockMeans(r)

\* A node knows more of its own updates and tags than anybody else.
Authority(r) ==
  /\ \A u \in r.seen :
       /\ u.op = "set" => u.i <= rep[u.node].reg.vclock[u.node]
       /\ u.op = "add" => u.i <= rep[u.node].set.counter
  /\ \A tag \in r.set.tombs : tag[2] <= rep[tag[1]].set.counter

\* Two writes, or two additions, with the same number are the same.
Agree(r, s) ==
  \A u \in r.seen, v \in s.seen :
    u.op = v.op /\ u.op \in {"set", "add"} /\ u.node = v.node /\ u.i = v.i => u = v

\* The write that a register holds is one it has seen.
Holds(r) == \E u \in Seen(r, "set") :
              u.node = r.reg.node /\ u.i = r.reg.write /\ u.x = r.reg.ts

\* Two writes with the same stamp are the same.
Stamped(r, s) ==
  \A u \in Seen(r, "set"), v \in Seen(s, "set") : u.x = v.x /\ u.node = v.node => u = v

Shape == DOMAIN rep = Site /\ updates \in 0 .. MaxUpdates /\ skewed \in BOOLEAN

Means == /\ Shape
         /\ \A r \in All : Local(r)
         /\ \A r \in All : Authority(r)
         /\ \A r, s \in All : Agree(r, s)

Latest == ~skewed => /\ \A r \in All : Holds(r) /\ LatestWins(r)
                     /\ \A r, s \in All : Stamped(r, s)

-----------------------------------------------------------------------------
(* Numbers of updates *)

LEMMA NextNumber == ASSUME NEW k \in Nat PROVE (1 .. k) \union {k + 1} = 1 .. (k + 1)
  OBVIOUS

LEMMA NumbersUnion ==
  ASSUME NEW q, NEW r, NEW s, NEW op, NEW m, q.seen = r.seen \union s.seen
  PROVE  Numbers(q, op, m) = Numbers(r, op, m) \union Numbers(s, op, m)
  BY DEF Numbers, Seen

LEMMA NumbersNew ==
  ASSUME NEW q, NEW r, NEW u, NEW op, NEW m, q.seen = r.seen \union {u}
  PROVE  Numbers(q, op, m) = IF u.op = op /\ u.node = m THEN Numbers(r, op, m) \union {u.i}
                                                        ELSE Numbers(r, op, m)
  BY DEF Numbers, Seen

\* Merging keeps "the updates 1 to f[m] of every node m".
LEMMA MaxNumbers ==
  ASSUME NEW f \in [Site -> Nat], NEW g \in [Site -> Nat], NEW m \in Site
  PROVE  /\ (1 .. f[m]) \union (1 .. g[m]) = 1 .. PointwiseMax(f, g)[m]
         /\ PointwiseMax(f, g) \in [Site -> Nat]
         /\ PointwiseMax(f, g)[m] >= f[m]
  BY DEF PointwiseMax

\* Counting one more update keeps it too.
LEMMA BumpNumbers ==
  ASSUME NEW q, NEW r, NEW u, NEW op, NEW m, NEW i \in Nat, NEW j,
         q.seen = r.seen \union {u}, u.op = op, Numbers(r, op, m) = 1 .. i,
         u.node = m => u.i = i + 1 /\ j = i + 1, u.node # m => j = i
  PROVE  Numbers(q, op, m) = 1 .. j
<1>1. CASE u.node = m
  <2>1. Numbers(q, op, m) = (1 .. i) \union {i + 1}
    BY <1>1, NumbersNew
  <2> QED
    BY <1>1, <2>1, NextNumber
<1>2. CASE u.node # m
  BY <1>2, NumbersNew
<1> QED
  BY <1>1, <1>2

-----------------------------------------------------------------------------
(* The initial states *)

LEMMA InitMeans == ReplicaInit => Means /\ Latest
<1> SUFFICES ASSUME ReplicaInit PROVE Means /\ Latest
  OBVIOUS
<1> DEFINE r0(n) == [reg |-> NewRegister(n), set |-> NewSet, cnt |-> NewCounter,
                     seen |-> {Update("set", n, 1, 0)}]
<1>1. All = {r0(n) : n \in Site} /\ \A n \in Site : rep[n] = r0(n)
  BY DEF ReplicaInit, All
<1>2. ASSUME NEW n \in Site PROVE Local(r0(n))
  <2>0. /\ NewRegister(n) \in Register /\ NewCounter \in Counter
        /\ \A m \in Site : /\ NewRegister(n).vclock[m] = IF m = n THEN 1 ELSE 0
                           /\ NewCounter.positive[m] = 0 /\ NewCounter.negative[m] = 0
    BY DEF NewRegister, NewCounter, Register, Counter, Zero
  <2>1. Replica(r0(n))
    <3>1. UpdateType(Update("set", n, 1, 0))
      BY DEF Update, UpdateType
    <3> QED
      BY <2>0, <3>1 DEF Replica, NewSet
  <2>2. /\ Seen(r0(n), "remove") = {} /\ Seen(r0(n), "add") = {}
        /\ Seen(r0(n), "inc") = {} /\ Seen(r0(n), "dec") = {}
        /\ Seen(r0(n), "set") = {Update("set", n, 1, 0)}
    BY DEF Seen, Update
  <2>3. SetMeans(r0(n))
    <3>1. r0(n).set.tombs = {} /\ r0(n).set.elements = {}
      BY DEF NewSet
    <3>2. Removed(r0(n)) = {}
      BY <2>2 DEF Removed
    <3> HIDE DEF r0
    <3> QED
      BY <2>2, <3>1, <3>2, Zenon DEF SetMeans
  <2>4. CounterMeans(r0(n))
    <3>1. r0(n).cnt = NewCounter /\ 1 .. 0 = {}
      OBVIOUS
    <3> HIDE DEF r0
    <3>2. \A m \in Site : Numbers(r0(n), "inc", m) = {} /\ Numbers(r0(n), "dec", m) = {}
      BY <2>2 DEF Numbers
    <3> QED
      BY <2>0, <3>1, <3>2 DEF CounterMeans
  <2>5. ASSUME NEW m \in Site
        PROVE  Numbers(r0(n), "set", m) = 1 .. r0(n).reg.vclock[m]
    <3>1. r0(n).reg = NewRegister(n) /\ 1 .. 0 = {} /\ 1 .. 1 = {1}
      OBVIOUS
    <3>2. Update("set", n, 1, 0).node = n /\ Update("set", n, 1, 0).i = 1
      BY DEF Update
    <3> HIDE DEF r0
    <3>3. Numbers(r0(n), "set", m) = IF m = n THEN {1} ELSE {}
      BY <2>2, <3>2 DEF Numbers
    <3> QED
      BY <2>0, <3>1, <3>3
  <2> QED
    BY <2>1, <2>3, <2>4, <2>5 DEF Local, ClockMeans
<1>3. ASSUME NEW n \in Site PROVE Authority(r0(n))
  <2>1. /\ Update("set", n, 1, 0).node = n /\ Update("set", n, 1, 0).i = 1
        /\ Update("set", n, 1, 0).op = "set"
    BY DEF Update
  <2>2. NewRegister(n).vclock[n] = 1
    BY DEF NewRegister, Zero
  <2>3. r0(n).seen = {Update("set", n, 1, 0)} /\ r0(n).set.tombs = {}
    BY DEF NewSet
  <2>4. rep[n].reg.vclock[n] = 1
    <3>1. rep[n] = r0(n) /\ r0(n).reg = NewRegister(n)
      BY <1>1
    <3> QED
      BY <2>2, <3>1, Zenon
  <2> HIDE DEF r0
  <2> QED
    BY <1>1, <2>1, <2>3, <2>4 DEF Authority
<1>4. ASSUME NEW n \in Site, NEW m \in Site PROVE Agree(r0(n), r0(m)) /\ Stamped(r0(n), r0(m))
  BY DEF Agree, Stamped, Seen, Update
<1>5. ASSUME NEW n \in Site PROVE Holds(r0(n)) /\ LatestWins(r0(n))
  <2>1. /\ r0(n).reg.ts = 0 /\ r0(n).reg.node = n /\ r0(n).reg.write = 1
        /\ r0(n).seen = {Update("set", n, 1, 0)}
    BY DEF NewRegister
  <2>2. /\ Update("set", n, 1, 0).node = n /\ Update("set", n, 1, 0).i = 1
        /\ Update("set", n, 1, 0).op = "set" /\ Update("set", n, 1, 0).x = 0
    BY DEF Update
  <2> HIDE DEF r0
  <2> QED
    BY <2>1, <2>2 DEF Holds, LatestWins, Seen
<1>6. Shape
  <2>1. updates \in 0 .. MaxUpdates
    BY DEF ReplicaInit
  <2>2. skewed \in BOOLEAN /\ DOMAIN rep = Site
    BY Zenon DEF ReplicaInit
  <2> QED
    BY <2>1, <2>2, Zenon DEF Shape
<1> HIDE DEF r0
<1> QED
  BY <1>1, <1>2, <1>3, <1>4, <1>5, <1>6 DEF Means, Latest

-----------------------------------------------------------------------------
(* A node replaces its state by q.  Of the updates q has seen only w is new. *)

Fresh(n, q, w) ==
  /\ w.node = n
  /\ w.op = "set" => w.i = rep[n].reg.vclock[n] + 1 /\ w.i <= q.reg.vclock[n]
  /\ w.op = "add" => w.i = rep[n].set.counter + 1 /\ w.i <= q.set.counter

Replaces(n, q, w) ==
  /\ rep' = [rep EXCEPT ![n] = q] /\ net' = net
  /\ q.reg.vclock[n] >= rep[n].reg.vclock[n] /\ q.set.counter >= rep[n].set.counter
  /\ \A u \in q.seen : u = w \/ \E r \in All : u \in r.seen
  /\ \A tag \in q.set.tombs : tag[2] <= rep[tag[1]].set.counter
  /\ Fresh(n, q, w)

\* A state is that of a node or in transit.
LEMMA InAll ==
  ASSUME Means
  PROVE  /\ \A n \in Site : rep[n] \in All
         /\ \A s \in net : s \in All
  BY DEF All

LEMMA ReplaceAll ==
  ASSUME Means, NEW n \in Site, NEW q, NEW w, Replaces(n, q, w)
  PROVE  /\ \A r \in All' : r = q \/ r \in All
         /\ DOMAIN rep' = Site /\ rep'[n] = q /\ \A m \in Site \ {n} : rep'[m] = rep[m]
  BY DEF All, Means, Shape, Replaces

LEMMA ReplaceMeans ==
  ASSUME Means, NEW n \in Site, NEW q, NEW w, Replaces(n, q, w), Local(q), Shape'
  PROVE  Means'
<1>1. /\ \A r \in All' : r = q \/ r \in All
      /\ DOMAIN rep' = Site /\ rep'[n] = q /\ \A m \in Site \ {n} : rep'[m] = rep[m]
  BY ReplaceAll
<1>2. /\ Replica(rep[n]) /\ rep[n] \in All /\ \A m \in Site : Replica(rep[m])
  BY InAll DEF Means, Local
<1>3. ASSUME NEW m \in Site
      PROVE  /\ rep[m].reg.vclock[m] \in Nat /\ rep'[m].reg.vclock[m] \in Nat
             /\ rep[m].set.counter \in Nat /\ rep'[m].set.counter \in Nat
             /\ rep[m].reg.vclock[m] <= rep'[m].reg.vclock[m]
             /\ rep[m].set.counter <= rep'[m].set.counter
  <2>1. /\ rep[m].reg.vclock[m] \in Nat /\ rep[m].set.counter \in Nat
        /\ q.reg.vclock[m] \in Nat /\ q.set.counter \in Nat
    <3>1. Replica(rep[m]) /\ Replica(q)
      BY <1>2 DEF Local
    <3>2. \A r : Replica(r) => r.reg.vclock \in [Site -> Nat] /\ r.set.counter \in Nat
      BY DEF Replica, Register
    <3> QED
      BY <3>1, <3>2
  <2>2. CASE m = n
    <3>1. rep'[m] = q
      BY <1>1, <2>2
    <3>2. /\ rep[m].reg.vclock[m] <= q.reg.vclock[m]
          /\ rep[m].set.counter <= q.set.counter
      BY <2>1, <2>2 DEF Replaces
    <3> QED
      BY <2>1, <3>1, <3>2
  <2>3. CASE m # n
    <3>1. rep'[m] = rep[m]
      BY <1>1, <2>3
    <3> QED
      BY <2>1, <3>1
  <2> QED
    BY <2>2, <2>3
<1>4. \A r \in All' : Local(r)
  BY <1>1 DEF Means
<1>5. ASSUME NEW r \in All, NEW u \in r.seen
      PROVE  /\ u.node \in Site /\ u.i \in Nat
             /\ u.op = "set" => u.i <= rep[u.node].reg.vclock[u.node]
             /\ u.op = "add" => u.i <= rep[u.node].set.counter
  BY DEF Means, Local, Replica, UpdateType, Authority
<1>6. ASSUME NEW r \in All' PROVE Authority(r)'
  <2>1. ASSUME NEW u \in r.seen, u # w
        PROVE  /\ u.op = "set" => u.i <= rep'[u.node].reg.vclock[u.node]
               /\ u.op = "add" => u.i <= rep'[u.node].set.counter
    <3>1. PICK s \in All : u \in s.seen
      BY <1>1, <2>1 DEF Replaces
    <3>2. u.node \in Site /\ u.i \in Nat
      BY <1>5, <3>1
    <3>3. /\ u.op = "set" => u.i <= rep[u.node].reg.vclock[u.node]
          /\ u.op = "add" => u.i <= rep[u.node].set.counter
      BY <1>5, <3>1
    <3>4. PICK m \in Site : m = u.node
      BY <3>2
    <3>5. /\ rep[m].reg.vclock[m] \in Nat /\ rep'[m].reg.vclock[m] \in Nat
          /\ rep[m].set.counter \in Nat /\ rep'[m].set.counter \in Nat
          /\ rep[m].reg.vclock[m] <= rep'[m].reg.vclock[m]
          /\ rep[m].set.counter <= rep'[m].set.counter
      BY <1>3
    <3> QED
      BY <3>2, <3>3, <3>4, <3>5
  <2>2. /\ w.op = "set" => w.i <= rep'[w.node].reg.vclock[w.node]
        /\ w.op = "add" => w.i <= rep'[w.node].set.counter
    BY <1>1 DEF Replaces, Fresh
  <2>3. ASSUME NEW tag \in r.set.tombs PROVE tag[2] <= rep'[tag[1]].set.counter
    <3>1. tag[1] \in Site /\ tag[2] \in Nat
      BY <1>4 DEF Local, Replica, Tags
    <3>2. tag[2] <= rep[tag[1]].set.counter
      BY <1>1 DEF Replaces, Means, Authority
    <3> QED
      BY <1>3, <3>1, <3>2
  <2> QED
    BY <2>1, <2>2, <2>3 DEF Authority
<1>7. ASSUME NEW r \in All, NEW u \in r.seen, u.op = w.op, u.op \in {"set", "add"},
             u.node = w.node
      PROVE  u.i # w.i
  <2>1. rep[n].reg.vclock[n] \in Nat /\ rep[n].set.counter \in Nat
    BY <1>3
  <2> QED
    BY <1>5, <1>7, <2>1 DEF Replaces, Fresh
<1>8. ASSUME NEW r \in All', NEW s \in All' PROVE Agree(r, s)
  <2>1. \A u \in r.seen : u = w \/ \E x \in All : u \in x.seen
    BY <1>1 DEF Replaces
  <2>2. \A u \in s.seen : u = w \/ \E x \in All : u \in x.seen
    BY <1>1 DEF Replaces
  <2> SUFFICES ASSUME NEW u \in r.seen, NEW v \in s.seen, u.op = v.op,
                      u.op \in {"set", "add"}, u.node = v.node, u.i = v.i
               PROVE  u = v
    BY DEF Agree
  <2>3. CASE u = w \/ v = w
    BY <1>7, <2>1, <2>2, <2>3
  <2>4. CASE u # w /\ v # w
    BY <2>1, <2>2, <2>4 DEF Means, Agree
  <2> QED
    BY <2>3, <2>4
<1> QED
  BY <1>4, <1>6, <1>8 DEF Means

\* Shipping and losing states.
LEMMA SameMeans ==
  ASSUME Means, rep' = rep, All' \subseteq All, updates' = updates, skewed' = skewed
  PROVE  Means'
<1>1. Shape'
  BY DEF Means, Shape
<1>2. \A r \in All' : Local(r) /\ Authority(r)'
  BY DEF Means, Authority
<1>3. \A r, s \in All' : Agree(r, s)
  BY DEF Means
<1> QED
  BY <1>1, <1>2, <1>3 DEF Means

LEMMA SameLatest ==
  ASSUME Latest, All' \subseteq All, skewed' = skewed
  PROVE  Latest'
  BY DEF Latest

-----------------------------------------------------------------------------
(* What one operation makes of a state that means what it should *)

\* Updates of another kind leave the meaning of the set alone.
LEMMA SetMeansSame ==
  ASSUME NEW q, NEW r, NEW u, SetMeans(r), q.set = r.set,
         q.seen = r.seen \union {u}, u.op \notin {"add", "remove"}
  PROVE  SetMeans(q)
<1>1. Seen(q, "remove") = Seen(r, "remove") /\ Seen(q, "add") = Seen(r, "add")
  BY DEF Seen
<1> QED
  BY <1>1, Zenon DEF SetMeans, Removed

LEMMA CounterMeansSame ==
  ASSUME NEW q, NEW r, NEW u, CounterMeans(r), q.cnt = r.cnt,
         q.seen = r.seen \union {u}, u.op \notin {"inc", "dec"}
  PROVE  CounterMeans(q)
<1>1. \A m : /\ Numbers(q, "inc", m) = Numbers(r, "inc", m)
             /\ Numbers(q, "dec", m) = Numbers(r, "dec", m)
  BY DEF Numbers, Seen
<1> QED
  BY <1>1, Zenon DEF CounterMeans

LEMMA ClockMeansSame ==
  ASSUME NEW q, NEW r, NEW u, ClockMeans(r), q.reg = r.reg,
         q.seen = r.seen \union {u}, u.op # "set"
  PROVE  ClockMeans(q)
<1>1. \A m : Numbers(q, "set", m) = Numbers(r, "set", m)
  BY DEF Numbers, Seen
<1> QED
  BY <1>1, Zenon DEF ClockMeans

\* The fields of a state that a node makes with update u.
Made(r, u) == [r EXCEPT !.seen = @ \union {u}]

LEMMA MadeReplica ==
  ASSUME NEW r, Replica(r), NEW u, UpdateType(u)
  PROVE  /\ Replica(Made(r, u))
         /\ Made(r, u).reg = r.reg /\ Made(r, u).set = r.set /\ Made(r, u).cnt = r.cnt
         /\ Made(r, u).seen = r.seen \union {u}
<1>1. /\ Made(r, u).reg = r.reg /\ Made(r, u).set = r.set /\ Made(r, u).cnt = r.cnt
      /\ Made(r, u).seen = r.seen \union {u} /\ DOMAIN Made(r, u) = DOMAIN r
  BY DEF Made, Replica
<1>2. \A v \in Made(r, u).seen : UpdateType(v)
  BY <1>1 DEF Replica
<1> QED
  BY <1>1, <1>2, Zenon DEF Replica

SetUpdate(r, n, ts) == Update("set", n, SetRegister(r.reg, n, ts).write, ts)
Written(r, n, ts) == Made([r EXCEPT !.reg = SetRegister(r.reg, n, ts)], SetUpdate(r, n, ts))

LEMMA SetLocal ==
  ASSUME NEW r, NEW n \in Site, NEW ts \in Nat, Local(r)
  PROVE  /\ Local(Written(r, n, ts)) /\ Written(r, n, ts).set = r.set
         /\ Written(r, n, ts).reg = SetRegister(r.reg, n, ts)
         /\ Written(r, n, ts).seen = r.seen \union {SetUpdate(r, n, ts)}
         /\ SetRegister(r.reg, n, ts).vclock[n] = r.reg.vclock[n] + 1
         /\ SetRegister(r.reg, n, ts).write = r.reg.vclock[n] + 1
         /\ SetRegister(r.reg, n, ts).ts = ts /\ SetRegister(r.reg, n, ts).node = n
         /\ SetUpdate(r, n, ts).op = "set" /\ SetUpdate(r, n, ts).node = n
         /\ SetUpdate(r, n, ts).i = r.reg.vclock[n] + 1 /\ SetUpdate(r, n, ts).x = ts
<1> DEFINE g == SetRegister(r.reg, n, ts)
           u == SetUpdate(r, n, ts)
           p == [r EXCEPT !.reg = g]
           q == Made(p, u)
<1>1. /\ g \in Register /\ g.write = r.reg.vclock[n] + 1 /\ g.write \in Nat
      /\ g.ts = ts /\ g.node = n /\ r.reg.vclock \in [Site -> Nat]
      /\ g.vclock = [r.reg.vclock EXCEPT ![n] = @ + 1]
  BY DEF Local, Replica, Register, SetRegister
<1>2. u.op = "set" /\ u.node = n /\ u.i = g.write /\ u.x = ts
  BY DEF Update, SetUpdate
<1> HIDE DEF g, u
<1>3. /\ Replica(p) /\ p.reg = g /\ p.set = r.set /\ p.cnt = r.cnt /\ p.seen = r.seen
  BY <1>1 DEF Local, Replica
<1>4. UpdateType(u)
  BY <1>1, <1>2 DEF UpdateType
<1> HIDE DEF p
<1>5. /\ Replica(q) /\ q.reg = g /\ q.set = r.set /\ q.cnt = r.cnt
      /\ q.seen = r.seen \union {u}
  BY <1>3, <1>4, MadeReplica
<1> HIDE DEF q
<1>6. SetMeans(q)
  BY <1>2, <1>5, SetMeansSame DEF Local
<1>7. CounterMeans(q)
  BY <1>2, <1>5, CounterMeansSame DEF Local
<1>8. ASSUME NEW m \in Site PROVE Numbers(q, "set", m) = 1 .. q.reg.vclock[m]
  <2>1. Numbers(r, "set", m) = 1 .. r.reg.vclock[m]
    BY DEF Local, ClockMeans
  <2>2. /\ r.reg.vclock[m] \in Nat
        /\ u.node = m => u.i = r.reg.vclock[m] + 1 /\ g.vclock[m] = r.reg.vclock[m] + 1
        /\ u.node # m => g.vclock[m] = r.reg.vclock[m]
    BY <1>1, <1>2
  <2>3. Numbers(q, "set", m) = 1 .. g.vclock[m]
    BY <1>2, <1>5, <2>1, <2>2, BumpNumbers
  <2> QED
    BY <1>5, <2>3
<1>9. g.vclock[n] = r.reg.vclock[n] + 1
  BY <1>1
<1>10. Local(q)
  BY <1>5, <1>6, <1>7, <1>8 DEF Local, ClockMeans
<1>11. q = Written(r, n, ts)
  BY Zenon DEF q, p, g, u, Written
<1> QED
  BY <1>1, <1>2, <1>5, <1>9, <1>10, <1>11, Zenon DEF g, u

CountUpdate(r, n, side) ==
  Update(IF side = "positive" THEN "inc" ELSE "dec", n, r.cnt[side][n] + 1, 0)
Counted(r, n, side) == Made([r EXCEPT !.cnt[side][n] = @ + 1], CountUpdate(r, n, side))

LEMMA CountLocal ==
  ASSUME NEW r, NEW n \in Site, Local(r), NEW side \in {"positive", "negative"}
  PROVE  /\ Local(Counted(r, n, side)) /\ Counted(r, n, side).set = r.set
         /\ Counted(r, n, side).reg = r.reg
         /\ Counted(r, n, side).seen = r.seen \union {CountUpdate(r, n, side)}
         /\ CountUpdate(r, n, side).op \in {"inc", "dec"}
         /\ CountUpdate(r, n, side).node = n
<1> DEFINE u == CountUpdate(r, n, side)
           p == [r EXCEPT !.cnt[side][n] = @ + 1]
           q == Made(p, u)
<1>1. /\ u.op = (IF side = "positive" THEN "inc" ELSE "dec")
      /\ u.node = n /\ u.i = r.cnt[side][n] + 1
  BY DEF Update, CountUpdate
<1> HIDE DEF u
<1>2. r.cnt \in Counter
  BY DEF Local, Replica
<1>3. /\ p.reg = r.reg /\ p.set = r.set /\ p.seen = r.seen /\ DOMAIN p = DOMAIN r
      /\ p.cnt = [r.cnt EXCEPT ![side] = [r.cnt[side] EXCEPT ![n] = @ + 1]]
  BY DEF Local, Replica
<1> HIDE DEF p
<1>4. p.cnt \in Counter
  BY <1>2, <1>3 DEF Counter
<1>5. Replica(p)
  BY <1>3, <1>4, Zenon DEF Local, Replica
<1>6. UpdateType(u)
  BY <1>1, <1>2 DEF UpdateType, Counter
<1>7. /\ Replica(q) /\ q.reg = r.reg /\ q.set = r.set /\ q.cnt = p.cnt
      /\ q.seen = r.seen \union {u}
  BY <1>3, <1>5, <1>6, MadeReplica
<1> HIDE DEF q
<1>8. SetMeans(q)
  BY <1>1, <1>7, SetMeansSame DEF Local
<1>9. ClockMeans(q)
  BY <1>1, <1>7, ClockMeansSame DEF Local
<1>10. ASSUME NEW m \in Site
       PROVE  /\ Numbers(q, "inc", m) = 1 .. q.cnt.positive[m]
              /\ Numbers(q, "dec", m) = 1 .. q.cnt.negative[m]
  <2>1. /\ Numbers(r, "inc", m) = 1 .. r.cnt.positive[m]
        /\ Numbers(r, "dec", m) = 1 .. r.cnt.negative[m]
    BY DEF Local, CounterMeans
  <2>2. r.cnt.positive \in [Site -> Nat] /\ r.cnt.negative \in [Site -> Nat]
    BY <1>2 DEF Counter
  <2>3. CASE side = "positive"
    <3>1. /\ q.cnt.positive = [r.cnt.positive EXCEPT ![n] = @ + 1]
          /\ q.cnt.negative = r.cnt.negative
      BY <1>2, <1>3, <1>7, <2>3 DEF Counter
    <3>2. Numbers(q, "dec", m) = Numbers(r, "dec", m)
      BY <1>1, <1>7, <2>3, NumbersNew
    <3>3. /\ r.cnt.positive[m] \in Nat /\ u.op = "inc"
          /\ u.node = m => u.i = r.cnt.positive[m] + 1 /\ q.cnt.positive[m] = r.cnt.positive[m] + 1
          /\ u.node # m => q.cnt.positive[m] = r.cnt.positive[m]
      BY <1>1, <2>2, <2>3, <3>1
    <3>4. Numbers(q, "inc", m) = 1 .. q.cnt.positive[m]
      BY <1>7, <2>1, <3>3, BumpNumbers
    <3> QED
      BY <1>1, <2>1, <2>3, <3>1, <3>2, <3>4
  <2>4. CASE side = "negative"
    <3>1. /\ q.cnt.negative = [r.cnt.negative EXCEPT ![n] = @ + 1]
          /\ q.cnt.positive = r.cnt.positive
      BY <1>2, <1>3, <1>7, <2>4 DEF Counter
    <3>2. Numbers(q, "inc", m) = Numbers(r, "inc", m)
      BY <1>1, <1>7, <2>4, NumbersNew
    <3>3. /\ r.cnt.negative[m] \in Nat /\ u.op = "dec"
          /\ u.node = m => u.i = r.cnt.negative[m] + 1 /\ q.cnt.negative[m] = r.cnt.negative[m] + 1
          /\ u.node # m => q.cnt.negative[m] = r.cnt.negative[m]
      BY <1>1, <2>2, <2>4, <3>1
    <3>4. Numbers(q, "dec", m) = 1 .. q.cnt.negative[m]
      BY <1>7, <2>1, <3>3, BumpNumbers
    <3> QED
      BY <1>1, <2>1, <2>4, <3>1, <3>2, <3>4
  <2> QED
    BY <2>3, <2>4
<1>11. Local(q)
  BY <1>7, <1>8, <1>9, <1>10 DEF Local, CounterMeans
<1>12. q = Counted(r, n, side) /\ u.op \in {"inc", "dec"}
  BY <1>1, Zenon DEF q, p, u, Counted
<1> QED
  BY <1>1, <1>7, <1>11, <1>12, Zenon DEF u

\* No tag of node n that r knows to be removed is newer than its tag counter.
OwnTags(r, n) == \A tag \in r.set.tombs : tag[1] = n => tag[2] <= r.set.counter

AddUpdate(r, n, e) == Update("add", n, AddElement(r.set, n, e).counter, e)
Added(r, n, e) == Made([r EXCEPT !.set = AddElement(r.set, n, e)], AddUpdate(r, n, e))

LEMMA AddLocal ==
  ASSUME NEW r, NEW n \in Site, NEW e \in Element, Local(r),
         OwnTags(r, n)
  PROVE  /\ Local(Added(r, n, e)) /\ Added(r, n, e).reg = r.reg
         /\ Added(r, n, e).seen = r.seen \union {AddUpdate(r, n, e)}
         /\ Added(r, n, e).set.counter = r.set.counter + 1
         /\ Added(r, n, e).set.tombs = r.set.tombs
         /\ AddUpdate(r, n, e).op = "add" /\ AddUpdate(r, n, e).node = n
         /\ AddUpdate(r, n, e).i = r.set.counter + 1
<1> DEFINE s == AddElement(r.set, n, e)
           u == AddUpdate(r, n, e)
           p == [r EXCEPT !.set = s]
           q == Made(p, u)
           tag == << n, r.set.counter + 1 >>
<1>1. /\ DOMAIN s = DOMAIN r.set /\ s.tombs = r.set.tombs /\ s.counter = r.set.counter + 1
      /\ s.elements = r.set.elements \union {<< e, tag >>}
      /\ r.set.counter \in Nat /\ s.counter \in Nat
  BY DEF Local, Replica, AddElement
<1>2. u.op = "add" /\ u.node = n /\ u.i = s.counter /\ u.x = e
  BY DEF Update, AddUpdate
<1> HIDE DEF s, u
<1>3. /\ p.reg = r.reg /\ p.set = s /\ p.cnt = r.cnt /\ p.seen = r.seen /\ DOMAIN p = DOMAIN r
  BY DEF Local, Replica
<1> HIDE DEF p
<1>4. UpdateType(u)
  BY <1>1, <1>2 DEF UpdateType
<1>5. s.elements \subseteq Element \X Tags /\ tag \in Tags
  BY <1>1 DEF Local, Replica, Tags
<1>6. Replica(p)
  BY <1>1, <1>3, <1>5 DEF Local, Replica
<1>7. /\ Replica(q) /\ q.reg = r.reg /\ q.set = s /\ q.cnt = r.cnt
      /\ q.seen = r.seen \union {u}
  BY <1>3, <1>4, <1>6, MadeReplica
<1> HIDE DEF q
<1>8. CounterMeans(q)
  BY <1>2, <1>7, CounterMeansSame DEF Local
<1>9. ClockMeans(q)
  BY <1>2, <1>7, ClockMeansSame DEF Local
<1>10. SetMeans(q)
  <2>1. Seen(q, "remove") = Seen(r, "remove") /\ Seen(q, "add") = Seen(r, "add") \union {u}
    BY <1>2, <1>7 DEF Seen
  <2>2. Removed(q) = Removed(r)
    BY <2>1, Zenon DEF Removed
  <2>3. r.set.tombs = Removed(r)
    BY DEF Local, SetMeans
  <2>4. Tag(u) = tag /\ tag \notin Removed(r)
    <3>1. Tag(u) = tag /\ tag[1] = n /\ tag[2] = r.set.counter + 1
      BY <1>1, <1>2 DEF Tag
    <3> HIDE DEF tag
    <3> QED
      BY <1>1, <2>3, <3>1 DEF OwnTags
  <2>5. r.set.elements =
          {<< v.x, Tag(v) >> : v \in {v \in Seen(r, "add") : Tag(v) \notin Removed(r)}}
    BY Zenon DEF Local, SetMeans
  <2> HIDE DEF tag
  <2>6. {v \in Seen(q, "add") : Tag(v) \notin Removed(q)} =
          {v \in Seen(r, "add") : Tag(v) \notin Removed(r)} \union {u}
    BY <2>1, <2>2, <2>4
  <2>7. q.set.elements =
          {<< v.x, Tag(v) >> : v \in {v \in Seen(q, "add") : Tag(v) \notin Removed(q)}}
    BY <1>1, <1>2, <1>7, <2>4, <2>5, <2>6
  <2> QED
    BY <1>1, <1>7, <2>2, <2>3, <2>7, Zenon DEF SetMeans
<1>11. Local(q)
  BY <1>7, <1>8, <1>9, <1>10 DEF Local
<1>12. q = Added(r, n, e)
  BY Zenon DEF q, p, s, u, Added
<1> QED
  BY <1>1, <1>2, <1>7, <1>11, <1>12, Zenon DEF u

\* An addition is one update more.
LEMMA AddSeen ==
  ASSUME NEW r, NEW n \in Site, NEW e \in Element, Local(r), OwnTags(r, n)
  PROVE  Added(r, n, e).seen = r.seen \union {AddUpdate(r, n, e)}
BY AddLocal

RemoveUpdate(r, n, e) == Update("remove", n, 0, TagsOf(r.set, e))
Without(r, n, e) ==
  Made([r EXCEPT !.set = RemoveElement(r.set, e)], RemoveUpdate(r, n, e))

LEMMA RemoveLocal ==
  ASSUME NEW r, NEW n \in Site, NEW e \in Element, Local(r), Agree(r, r)
  PROVE  /\ Local(Without(r, n, e)) /\ Without(r, n, e).reg = r.reg
         /\ Without(r, n, e).seen = r.seen \union {RemoveUpdate(r, n, e)}
         /\ Without(r, n, e).set.counter = r.set.counter
         /\ Without(r, n, e).set.tombs = r.set.tombs \union TagsOf(r.set, e)
         /\ RemoveUpdate(r, n, e).op = "remove" /\ RemoveUpdate(r, n, e).node = n
         /\ \A tag \in TagsOf(r.set, e) : \E v \in Seen(r, "add") : tag = Tag(v)
<1> DEFINE T == TagsOf(r.set, e)
           s == RemoveElement(r.set, e)
           u == RemoveUpdate(r, n, e)
           p == [r EXCEPT !.set = s]
           q == Made(p, u)
<1>1. /\ DOMAIN s = DOMAIN r.set /\ s.tombs = r.set.tombs \union T
      /\ s.counter = r.set.counter /\ s.elements = {x \in r.set.elements : x[1] # e}
  BY DEF Local, Replica, RemoveElement
<1>2. u.op = "remove" /\ u.node = n /\ u.i = 0 /\ u.x = T
  BY DEF Update, RemoveUpdate
<1>3. T \subseteq Tags
  BY DEF Local, Replica, TagsOf
<1>4. \A tag \in T : \E x \in r.set.elements : x[1] = e /\ x[2] = tag
  BY DEF TagsOf
<1>5. \A x \in r.set.elements : x[1] = e => x[2] \in T
  BY DEF TagsOf
<1> HIDE DEF s, u, T
<1>6. /\ p.reg = r.reg /\ p.set = s /\ p.cnt = r.cnt /\ p.seen = r.seen /\ DOMAIN p = DOMAIN r
  BY DEF Local, Replica
<1> HIDE DEF p
<1>7. UpdateType(u)
  BY <1>2, <1>3 DEF UpdateType
<1>8. Replica(p)
  <2>1. /\ s.elements \subseteq Element \X Tags /\ s.tombs \subseteq Tags /\ s.counter \in Nat
        /\ DOMAIN s = {"elements", "tombs", "counter"}
    BY <1>1, <1>3 DEF Local, Replica
  <2> QED
    BY <1>6, <2>1, Zenon DEF Local, Replica
<1>9. /\ Replica(q) /\ q.reg = r.reg /\ q.set = s /\ q.cnt = r.cnt
      /\ q.seen = r.seen \union {u}
  BY <1>6, <1>7, <1>8, MadeReplica
<1> HIDE DEF q
<1>10. CounterMeans(q)
  BY <1>2, <1>9, CounterMeansSame DEF Local
<1>11. ClockMeans(q)
  BY <1>2, <1>9, ClockMeansSame DEF Local
<1>12. r.set.elements =
          {<< v.x, Tag(v) >> : v \in {v \in Seen(r, "add") : Tag(v) \notin Removed(r)}}
  BY Zenon DEF Local, SetMeans
<1>13. \A tag \in T : \E v \in Seen(r, "add") : tag = Tag(v) /\ v.x = e
  BY <1>4, <1>12
<1>14. SetMeans(q)
  <2>1. /\ Seen(q, "remove") = Seen(r, "remove") \union {u}
        /\ Seen(q, "add") = Seen(r, "add")
    BY <1>2, <1>9 DEF Seen
  <2>2. Removed(q) = Removed(r) \union T
    BY <1>2, <2>1 DEF Removed
  <2>3. ASSUME NEW v \in Seen(r, "add"), Tag(v) \notin Removed(r)
        PROVE  Tag(v) \in T <=> v.x = e
    <3>1. ASSUME v.x = e PROVE Tag(v) \in T
      <4>1. << e, Tag(v) >> \in r.set.elements
        BY <1>12, <2>3, <3>1
      <4>2. << e, Tag(v) >>[1] = e /\ << e, Tag(v) >>[2] = Tag(v)
        OBVIOUS
      <4> QED
        BY <1>5, <4>1, <4>2, Zenon
    <3>2. ASSUME Tag(v) \in T PROVE v.x = e
      <4>1. PICK w \in Seen(r, "add") : Tag(v) = Tag(w) /\ w.x = e
        BY <1>13, <3>2
      <4>2. v.node = w.node /\ v.i = w.i
        BY <4>1 DEF Tag
      <4> QED
        BY <4>1, <4>2 DEF Agree, Seen
    <3> QED
      BY <3>1, <3>2
  <2>4. q.set.elements =
          {<< v.x, Tag(v) >> : v \in {v \in Seen(q, "add") : Tag(v) \notin Removed(q)}}
    BY <1>1, <1>9, <1>12, <2>1, <2>2, <2>3
  <2>5. q.set.tombs = Removed(q)
    BY <1>1, <1>9, <2>2 DEF Local, SetMeans
  <2> QED
    BY <2>4, <2>5, Zenon DEF SetMeans
<1>15. Local(q)
  BY <1>9, <1>10, <1>11, <1>14 DEF Local
<1>16. q = Without(r, n, e)
  BY Zenon DEF q, p, s, u, Without
<1> QED
  BY <1>1, <1>2, <1>9, <1>13, <1>15, <1>16, Zenon DEF u, T

\* What Merge makes of the state r of a node when s arrives.
Merged(r, s) == [reg |-> MergeRegister(r.reg, s.reg), set |-> MergeSet(r.set, s.set),
                 cnt |-> MergeCounter(r.cnt, s.cnt), seen |-> r.seen \union s.seen]

LEMMA MergeRegisterFields ==
  ASSUME NEW a \in Register, NEW b \in Register
  PROVE  LET c == MergeRegister(a, b)
             w == IF Older(a, b) THEN b ELSE a
         IN  /\ c \in Register /\ c.vclock = PointwiseMax(a.vclock, b.vclock)
             /\ c.ts = w.ts /\ c.node = w.node /\ c.write = w.write
<1>1. a.vclock \in [Site -> Nat] /\ b.vclock \in [Site -> Nat]
  BY DEF Register
<1>2. PointwiseMax(a.vclock, b.vclock) \in [Site -> Nat]
  BY <1>1 DEF PointwiseMax
<1> QED
  BY <1>2 DEF MergeRegister, Register

LEMMA MergeLocal ==
  ASSUME NEW r, NEW s, Local(r), Local(s)
  PROVE  LET q == Merged(r, s)
         IN  /\ Local(q) /\ q.reg = MergeRegister(r.reg, s.reg)
             /\ q.reg.vclock = PointwiseMax(r.reg.vclock, s.reg.vclock)
             /\ q.set.counter = r.set.counter /\ q.set.tombs = r.set.tombs \union s.set.tombs
             /\ q.seen = r.seen \union s.seen
<1> DEFINE q == Merged(r, s)
           t == MergeSet(r.set, s.set)
           c == MergeCounter(r.cnt, s.cnt)
           T == r.set.tombs \union s.set.tombs
<1>1. /\ r.reg \in Register /\ s.reg \in Register /\ r.cnt \in Counter /\ s.cnt \in Counter
      /\ r.reg.vclock \in [Site -> Nat] /\ s.reg.vclock \in [Site -> Nat]
      /\ r.cnt.positive \in [Site -> Nat] /\ s.cnt.positive \in [Site -> Nat]
      /\ r.cnt.negative \in [Site -> Nat] /\ s.cnt.negative \in [Site -> Nat]
  BY DEF Local, Replica, Register, Counter
<1>2. /\ q.reg = MergeRegister(r.reg, s.reg) /\ q.set = t /\ q.cnt = c
      /\ q.seen = r.seen \union s.seen /\ DOMAIN q = {"reg", "set", "cnt", "seen"}
  BY DEF Merged
<1>3. q.reg \in Register /\ q.reg.vclock = PointwiseMax(r.reg.vclock, s.reg.vclock)
  BY <1>1, <1>2, MergeRegisterFields
<1>4. /\ c.positive = PointwiseMax(r.cnt.positive, s.cnt.positive)
      /\ c.negative = PointwiseMax(r.cnt.negative, s.cnt.negative)
      /\ c \in Counter
  BY <1>1, MaxNumbers DEF MergeCounter, Counter, PointwiseMax
<1>5. /\ DOMAIN t = DOMAIN r.set /\ t.counter = r.set.counter /\ t.tombs = T
      /\ t.elements = {p \in r.set.elements \union s.set.elements : p[2] \notin T}
  BY DEF MergeSet, Local, Replica
<1> HIDE DEF q, t, c
<1>6. Replica(q)
  <2>1. /\ t.elements \subseteq Element \X Tags /\ T \subseteq Tags /\ r.set.counter \in Nat
        /\ DOMAIN r.set = {"elements", "tombs", "counter"}
    BY <1>5 DEF Local, Replica
  <2>2. \A u \in q.seen : UpdateType(u)
    BY <1>2 DEF Local, Replica
  <2> QED
    BY <1>2, <1>3, <1>4, <1>5, <2>1, <2>2 DEF Replica
<1>7. ASSUME NEW m \in Site PROVE Numbers(q, "set", m) = 1 .. q.reg.vclock[m]
  <2>1. Numbers(r, "set", m) = 1 .. r.reg.vclock[m] /\ Numbers(s, "set", m) = 1 .. s.reg.vclock[m]
    BY DEF Local, ClockMeans
  <2>2. Numbers(q, "set", m) = Numbers(r, "set", m) \union Numbers(s, "set", m)
    BY <1>2, NumbersUnion
  <2>3. (1 .. r.reg.vclock[m]) \union (1 .. s.reg.vclock[m])
          = 1 .. PointwiseMax(r.reg.vclock, s.reg.vclock)[m]
    BY <1>1, MaxNumbers
  <2> QED
    BY <1>3, <2>1, <2>2, <2>3, Zenon
<1>8. ASSUME NEW m \in Site
      PROVE  /\ Numbers(q, "inc", m) = 1 .. q.cnt.positive[m]
             /\ Numbers(q, "dec", m) = 1 .. q.cnt.negative[m]
  <2>1. /\ Numbers(r, "inc", m) = 1 .. r.cnt.positive[m]
        /\ Numbers(s, "inc", m) = 1 .. s.cnt.positive[m]
        /\ Numbers(r, "dec", m) = 1 .. r.cnt.negative[m]
        /\ Numbers(s, "dec", m) = 1 .. s.cnt.negative[m]
    BY DEF Local, CounterMeans
  <2>2. /\ Numbers(q, "inc", m) = Numbers(r, "inc", m) \union Numbers(s, "inc", m)
        /\ Numbers(q, "dec", m) = Numbers(r, "dec", m) \union Numbers(s, "dec", m)
    BY <1>2, NumbersUnion
  <2>3. Numbers(q, "inc", m) = 1 .. q.cnt.positive[m]
    <3>1. (1 .. r.cnt.positive[m]) \union (1 .. s.cnt.positive[m])
            = 1 .. PointwiseMax(r.cnt.positive, s.cnt.positive)[m]
      BY <1>1, MaxNumbers
    <3> QED
      BY <1>2, <1>4, <2>1, <2>2, <3>1, Zenon
  <2>4. Numbers(q, "dec", m) = 1 .. q.cnt.negative[m]
    <3>1. (1 .. r.cnt.negative[m]) \union (1 .. s.cnt.negative[m])
            = 1 .. PointwiseMax(r.cnt.negative, s.cnt.negative)[m]
      BY <1>1, MaxNumbers
    <3> QED
      BY <1>2, <1>4, <2>1, <2>2, <3>1, Zenon
  <2> QED
    BY <2>3, <2>4
<1>9. SetMeans(q)
  <2>1. /\ Seen(q, "remove") = Seen(r, "remove") \union Seen(s, "remove")
        /\ Seen(q, "add") = Seen(r, "add") \union Seen(s, "add")
    BY <1>2 DEF Seen
  <2>2. r.set.tombs = Removed(r) /\ s.set.tombs = Removed(s)
    BY DEF Local, SetMeans
  <2>3. Removed(q) = Removed(r) \union Removed(s)
    BY <2>1 DEF Removed
  <2>4. /\ r.set.elements =
             {<< v.x, Tag(v) >> : v \in {v \in Seen(r, "add") : Tag(v) \notin Removed(r)}}
        /\ s.set.elements =
             {<< v.x, Tag(v) >> : v \in {v \in Seen(s, "add") : Tag(v) \notin Removed(s)}}
    BY Zenon DEF Local, SetMeans
  <2>5. t.elements = {p \in r.set.elements \union s.set.elements : p[2] \notin Removed(q)}
    BY <1>5, <2>2, <2>3
  <2>6. q.set.elements =
          {<< v.x, Tag(v) >> : v \in {v \in Seen(q, "add") : Tag(v) \notin Removed(q)}}
    BY <1>2, <2>1, <2>3, <2>4, <2>5
  <2>7. q.set.tombs = Removed(q)
    BY <1>2, <1>5, <2>2, <2>3
  <2> QED
    BY <2>6, <2>7, Zenon DEF SetMeans
<1>10. Local(q)
  BY <1>6, <1>7, <1>8, <1>9 DEF Local, ClockMeans, CounterMeans
<1> QED
  BY <1>2, <1>3, <1>5, <1>10, Zenon DEF q

-----------------------------------------------------------------------------
(* Every step keeps Means *)

LEMMA NextMeans == Means /\ [ReplicaNext]_replicaVars => Means'
<1> SUFFICES ASSUME Means, [ReplicaNext]_replicaVars PROVE Means'
  OBVIOUS
<1>0. ASSUME NEW n \in Site
      PROVE  /\ rep[n] \in All /\ Local(rep[n]) /\ Authority(rep[n])
             /\ Agree(rep[n], rep[n]) /\ Replica(rep[n])
             /\ rep[n].reg.vclock[n] \in Nat /\ rep[n].set.counter \in Nat
  <2>1. rep[n] \in All
    BY InAll
  <2>2. Local(rep[n]) /\ Authority(rep[n]) /\ Agree(rep[n], rep[n]) /\ Replica(rep[n])
    BY <2>1 DEF Means, Local
  <2> QED
    BY <2>1, <2>2 DEF Replica, Register
<1>1. ASSUME NEW n \in Site, NEW q, NEW w, Become(n, q, w), skewed' \in BOOLEAN
      PROVE  /\ Shape' /\ rep' = [rep EXCEPT ![n] = Made(q, w)] /\ net' = net
             /\ \A u \in Made(q, w).seen : Made(q, w).seen = rep[n].seen \union {w}
                   => u = w \/ \E r \in All : u \in r.seen
  <2>1. /\ rep' = [rep EXCEPT ![n] = Made(q, w)] /\ net' = net
    BY <1>1 DEF Become, Made
  <2>2. updates' \in 0 .. MaxUpdates
    BY <1>1 DEF Become, Means, Shape
  <2>3. DOMAIN rep' = Site
    BY <2>1 DEF Means, Shape
  <2> QED
    BY <1>0, <1>1, <2>1, <2>2, <2>3 DEF Shape
<1>2. ASSUME NEW n \in Site, Set(n) PROVE Means'
  <2>1. PICK ts \in 1 .. MaxTime :
          LET g == SetRegister(rep[n].reg, n, ts)
          IN  /\ Become(n, [rep[n] EXCEPT !.reg = g], Update("set", n, g.write, ts))
              /\ skewed' = (skewed \/ ~Older(rep[n].reg, g))
    BY <1>2 DEF Set
  <2> DEFINE g == SetRegister(rep[n].reg, n, ts)
             u == SetUpdate(rep[n], n, ts)
             p == [rep[n] EXCEPT !.reg = g]
             q == Made(p, u)
  <2>2. /\ Local(q) /\ q.set = rep[n].set /\ q.reg = g /\ q.seen = rep[n].seen \union {u}
        /\ g.vclock[n] = rep[n].reg.vclock[n] + 1 /\ g.write = rep[n].reg.vclock[n] + 1
        /\ u.op = "set" /\ u.node = n /\ u.i = g.write
    <3>1. ts \in Nat
      OBVIOUS
    <3>2. Local(rep[n])
      BY <1>0
    <3>3. q = Written(rep[n], n, ts)
      BY Zenon DEF Written
    <3> HIDE DEF q
    <3> QED
      BY <3>1, <3>2, <3>3, SetLocal
  <2>3. Become(n, p, u) /\ skewed' \in BOOLEAN
    BY <2>1, Zenon DEF SetUpdate
  <2> HIDE DEF g, u, p
  <2>4. /\ Shape' /\ rep' = [rep EXCEPT ![n] = q] /\ net' = net
        /\ \A v \in q.seen : v = u \/ \E r \in All : v \in r.seen
    <3>1. /\ Shape' /\ rep' = [rep EXCEPT ![n] = q] /\ net' = net
          /\ \A v \in q.seen : q.seen = rep[n].seen \union {u}
                => v = u \/ \E r \in All : v \in r.seen
      BY <1>1, <2>3, Zenon
    <3> HIDE DEF q
    <3> QED
      BY <2>2, <3>1, Zenon
  <2> HIDE DEF q
  <2>5. Replaces(n, q, u)
    <3>0. rep[n].reg.vclock[n] \in Nat /\ rep[n].set.counter \in Nat
      BY <1>0, Zenon
    <3>1. q.reg.vclock[n] >= rep[n].reg.vclock[n] /\ q.set.counter >= rep[n].set.counter
      BY <2>2, <3>0
    <3>2. \A tag \in q.set.tombs : tag[2] <= rep[tag[1]].set.counter
      BY <1>0, <2>2, Zenon DEF Authority
    <3>3. Fresh(n, q, u)
      BY <1>0, <2>2 DEF Fresh
    <3> QED
      BY <2>4, <3>1, <3>2, <3>3, Zenon DEF Replaces
  <2> QED
    BY <2>2, <2>4, <2>5, ReplaceMeans
<1>3. ASSUME NEW n \in Site, NEW e \in Element, Add(n, e) PROVE Means'
  <2> DEFINE u == AddUpdate(rep[n], n, e)
             p == [rep[n] EXCEPT !.set = AddElement(rep[n].set, n, e)]
             q == Made(p, u)
  <2>1. OwnTags(rep[n], n)
    BY <1>0 DEF Authority, OwnTags
  <2>2. /\ Local(q) /\ q.reg = rep[n].reg /\ q.seen = rep[n].seen \union {u}
        /\ q.set.counter = rep[n].set.counter + 1 /\ q.set.tombs = rep[n].set.tombs
        /\ u.op = "add" /\ u.node = n /\ u.i = rep[n].set.counter + 1
    <3>1. q = Added(rep[n], n, e) /\ u = AddUpdate(rep[n], n, e)
      BY Zenon DEF Added
    <3>2. Local(rep[n])
      BY <1>0
    <3> HIDE DEF q, u, p
    <3>3. /\ Local(q) /\ q.reg = rep[n].reg
          /\ q.set.counter = rep[n].set.counter + 1 /\ q.set.tombs = rep[n].set.tombs
      BY <2>1, <3>1, <3>2, AddLocal
    <3>4. q.seen = rep[n].seen \union {u}
      <4>1. Added(rep[n], n, e).seen = rep[n].seen \union {AddUpdate(rep[n], n, e)}
        BY <2>1, <3>2, AddSeen
      <4> QED
        BY <3>1, <4>1, Zenon
    <3>5. u.op = "add" /\ u.node = n /\ u.i = rep[n].set.counter + 1
      BY <2>1, <3>1, <3>2, AddLocal
    <3> QED
      BY <3>3, <3>4, <3>5
  <2>3. Become(n, p, u) /\ skewed' \in BOOLEAN
    BY <1>3, Zenon DEF Add, AddUpdate, Means, Shape
  <2> HIDE DEF u, p
  <2>4. /\ Shape' /\ rep' = [rep EXCEPT ![n] = q] /\ net' = net
        /\ \A v \in q.seen : v = u \/ \E r \in All : v \in r.seen
    <3>1. /\ Shape' /\ rep' = [rep EXCEPT ![n] = q] /\ net' = net
          /\ \A v \in q.seen : q.seen = rep[n].seen \union {u}
                => v = u \/ \E r \in All : v \in r.seen
      BY <1>1, <2>3, Zenon
    <3> HIDE DEF q
    <3> QED
      BY <2>2, <3>1, Zenon
  <2> HIDE DEF q
  <2>5. Replaces(n, q, u)
    <3>0. rep[n].reg.vclock[n] \in Nat /\ rep[n].set.counter \in Nat
      BY <1>0, Zenon
    <3>1. q.reg.vclock[n] >= rep[n].reg.vclock[n] /\ q.set.counter >= rep[n].set.counter
      BY <2>2, <3>0
    <3>2. \A tag \in q.set.tombs : tag[2] <= rep[tag[1]].set.counter
      BY <1>0, <2>2, Zenon DEF Authority
    <3>3. Fresh(n, q, u)
      <4>1. u.i <= q.set.counter /\ "add" # "set"
        BY <2>2, <3>0
      <4> QED
        BY <2>2, <4>1, Zenon DEF Fresh
    <3> QED
      BY <2>4, <3>1, <3>2, <3>3, Zenon DEF Replaces
  <2> QED
    BY <2>2, <2>4, <2>5, ReplaceMeans
<1>4. ASSUME NEW n \in Site, NEW e \in Element, Remove(n, e) PROVE Means'
  <2> DEFINE T == TagsOf(rep[n].set, e)
             u == RemoveUpdate(rep[n], n, e)
             p == [rep[n] EXCEPT !.set = RemoveElement(rep[n].set, e)]
             q == Made(p, u)
  <2>2. /\ Local(q) /\ q.reg = rep[n].reg /\ q.seen = rep[n].seen \union {u}
        /\ q.set.counter = rep[n].set.counter /\ q.set.tombs = rep[n].set.tombs \union T
        /\ u.op = "remove" /\ u.node = n
        /\ \A tag \in T : \E v \in Seen(rep[n], "add") : tag = Tag(v)
    <3>1. q = Without(rep[n], n, e)
      BY Zenon DEF Without
    <3> HIDE DEF q
    <3> QED
      BY <1>0, <3>1, RemoveLocal
  <2>3. Become(n, p, u) /\ skewed' \in BOOLEAN
    BY <1>4, Zenon DEF Remove, RemoveUpdate, Means, Shape
  <2> HIDE DEF T, u, p
  <2>4. /\ Shape' /\ rep' = [rep EXCEPT ![n] = q] /\ net' = net
        /\ \A v \in q.seen : v = u \/ \E r \in All : v \in r.seen
    <3>1. /\ Shape' /\ rep' = [rep EXCEPT ![n] = q] /\ net' = net
          /\ \A v \in q.seen : q.seen = rep[n].seen \union {u}
                => v = u \/ \E r \in All : v \in r.seen
      BY <1>1, <2>3, Zenon
    <3> HIDE DEF q
    <3> QED
      BY <2>2, <3>1, Zenon
  <2> HIDE DEF q
  <2>5. ASSUME NEW tag \in q.set.tombs PROVE tag[2] <= rep[tag[1]].set.counter
    <3>1. CASE tag \in rep[n].set.tombs
      BY <1>0, <3>1 DEF Authority
    <3>2. CASE tag \in T
      <4>1. PICK v \in Seen(rep[n], "add") : tag = Tag(v)
        BY <2>2, <3>2
      <4>2. v \in rep[n].seen /\ v.op = "add" /\ tag[1] = v.node /\ tag[2] = v.i
        BY <4>1 DEF Seen, Tag
      <4> QED
        BY <1>0, <4>2 DEF Authority
    <3> QED
      BY <2>2, <3>1, <3>2
  <2>6. Replaces(n, q, u)
    <3>0. rep[n].reg.vclock[n] \in Nat /\ rep[n].set.counter \in Nat
      BY <1>0, Zenon
    <3>1. q.reg.vclock[n] >= rep[n].reg.vclock[n] /\ q.set.counter >= rep[n].set.counter
      BY <2>2, <3>0
    <3>2. Fresh(n, q, u)
      BY <2>2 DEF Fresh
    <3> QED
      BY <2>4, <2>5, <3>1, <3>2, Zenon DEF Replaces
  <2> QED
    BY <2>2, <2>4, <2>6, ReplaceMeans
<1>5. ASSUME NEW n \in Site, NEW side \in {"positive", "negative"},
             Become(n, [rep[n] EXCEPT !.cnt[side][n] = @ + 1], CountUpdate(rep[n], n, side)),
             skewed' = skewed
      PROVE  Means'
  <2> DEFINE u == CountUpdate(rep[n], n, side)
             p == [rep[n] EXCEPT !.cnt[side][n] = @ + 1]
             q == Made(p, u)
  <2>2. /\ Local(q) /\ q.set = rep[n].set /\ q.reg = rep[n].reg
        /\ q.seen = rep[n].seen \union {u} /\ u.op \in {"inc", "dec"} /\ u.node = n
    <3>1. q = Counted(rep[n], n, side)
      BY Zenon DEF Counted
    <3>2. Local(rep[n])
      BY <1>0
    <3> HIDE DEF q
    <3> QED
      BY <3>1, <3>2, CountLocal
  <2>3. Become(n, p, u) /\ skewed' \in BOOLEAN
    BY <1>5, Zenon DEF Means, Shape
  <2> HIDE DEF u, p
  <2>4. /\ Shape' /\ rep' = [rep EXCEPT ![n] = q] /\ net' = net
        /\ \A v \in q.seen : v = u \/ \E r \in All : v \in r.seen
    <3>1. /\ Shape' /\ rep' = [rep EXCEPT ![n] = q] /\ net' = net
      BY <1>1, <2>3
    <3> HIDE DEF q
    <3> QED
      BY <1>0, <2>2, <3>1
  <2> HIDE DEF q
  <2>5. Replaces(n, q, u)
    <3>0. rep[n].reg.vclock[n] \in Nat /\ rep[n].set.counter \in Nat
      BY <1>0, Zenon
    <3>1. q.reg.vclock[n] >= rep[n].reg.vclock[n] /\ q.set.counter >= rep[n].set.counter
      BY <2>2, <3>0
    <3>2. \A tag \in q.set.tombs : tag[2] <= rep[tag[1]].set.counter
      BY <1>0, <2>2, Zenon DEF Authority
    <3>3. Fresh(n, q, u)
      BY <1>0, <2>2 DEF Fresh
    <3> QED
      BY <2>4, <3>1, <3>2, <3>3, Zenon DEF Replaces
  <2> QED
    BY <2>2, <2>4, <2>5, ReplaceMeans
<1>6. ASSUME NEW n \in Site, Increment(n) PROVE Means'
  BY <1>5, <1>6 DEF Increment, CountUpdate
<1>7. ASSUME NEW n \in Site, Decrement(n) PROVE Means'
  BY <1>5, <1>7 DEF Decrement, CountUpdate
<1>8. ASSUME NEW n \in Site, NEW s \in net, Merge(n, s) PROVE Means'
  <2> DEFINE q == Merged(rep[n], s)
             w == Update("merge", n, 0, 0)
  <2>1. s \in All /\ Local(s) /\ Authority(s)
    BY InAll DEF Means
  <2>2. /\ Local(q) /\ q.reg = MergeRegister(rep[n].reg, s.reg)
        /\ q.reg.vclock = PointwiseMax(rep[n].reg.vclock, s.reg.vclock)
        /\ q.set.counter = rep[n].set.counter
        /\ q.set.tombs = rep[n].set.tombs \union s.set.tombs
        /\ q.seen = rep[n].seen \union s.seen
    BY <1>0, <2>1, MergeLocal
  <2>3. w.op = "merge" /\ w.node = n
    BY DEF Update
  <2>4. rep' = [rep EXCEPT ![n] = q] /\ net' = net
    BY <1>8 DEF Merge, Merged
  <2> HIDE DEF q, w
  <2>5. q.reg.vclock[n] >= rep[n].reg.vclock[n]
    <3>1. rep[n].reg.vclock \in [Site -> Nat] /\ s.reg.vclock \in [Site -> Nat]
      BY <1>0, <2>1 DEF Local, Replica, Register
    <3> QED
      BY <2>2, <3>1, MaxNumbers
  <2>6. Replaces(n, q, w)
    BY <1>0, <2>1, <2>2, <2>3, <2>4, <2>5 DEF Replaces, Fresh, Authority
  <2>7. Shape'
    <3>1. DOMAIN rep' = Site
      BY <2>4 DEF Means, Shape
    <3> QED
      BY <1>8, <3>1, Zenon DEF Merge, Means, Shape
  <2> QED
    BY <2>2, <2>6, <2>7, ReplaceMeans
<1>9. ASSUME NEW n \in Site, Ship(n) PROVE Means'
  <2>1. All' \subseteq All
    BY <1>9 DEF Ship, All
  <2> QED
    BY <1>9, <2>1, SameMeans DEF Ship
<1>10. ASSUME NEW s \in net, Lose(s) PROVE Means'
  <2>1. All' \subseteq All
    BY <1>10 DEF Lose, All
  <2> QED
    BY <1>10, <2>1, SameMeans DEF Lose
<1>11. CASE UNCHANGED replicaVars
  <2>1. All' \subseteq All
    BY <1>11 DEF replicaVars, All
  <2> QED
    BY <1>11, <2>1, SameMeans DEF replicaVars
<1> QED
  BY <1>2, <1>3, <1>4, <1>6, <1>7, <1>8, <1>9, <1>10, <1>11 DEF ReplicaNext

-----------------------------------------------------------------------------
(* Every step keeps Latest *)

\* The order of stamps.
Stamp(u) == [ts |-> u.x, node |-> u.node]

LEMMA StampFields == \A u : Stamp(u).ts = u.x /\ Stamp(u).node = u.node
  BY DEF Stamp

\* The type of what a state has seen and holds.
LEMMA SeenTypes ==
  ASSUME NEW r, Replica(r)
  PROVE  /\ r.reg.ts \in Nat /\ r.reg.node \in Nat
         /\ \A u \in Seen(r, "set") : u.x \in Nat /\ u.node \in Nat /\ u.op = "set" /\ u \in r.seen
  BY DEF Replica, Register, Seen, UpdateType

LEMMA ReplaceLatest ==
  ASSUME Latest, NEW n \in Site, NEW q, ~skewed, DOMAIN rep = Site,
         rep' = [rep EXCEPT ![n] = q], net' = net,
         Holds(q), LatestWins(q), Stamped(q, q), \A r \in All : Stamped(q, r) /\ Stamped(r, q)
  PROVE  Latest'
<1>1. \A r \in All' : r = q \/ r \in All
  BY DEF All
<1>2. \A r \in All : Holds(r) /\ LatestWins(r) /\ \A s \in All : Stamped(r, s)
  BY DEF Latest
<1>3. \A r \in All' : Holds(r) /\ LatestWins(r)
  BY <1>1, <1>2
<1>4. \A r, s \in All' : Stamped(r, s)
  BY <1>1, <1>2
<1> QED
  BY <1>3, <1>4 DEF Latest

\* An update that is no write.
LEMMA OtherLatest ==
  ASSUME Means, Latest, NEW n \in Site, NEW q, NEW u,
         rep' = [rep EXCEPT ![n] = q], net' = net, skewed' = skewed,
         q.reg = rep[n].reg, q.seen = rep[n].seen \union {u}, u.op # "set"
  PROVE  Latest'
<1> SUFFICES ASSUME ~skewed PROVE Latest'
  BY DEF Latest
<1>1. rep[n] \in All /\ DOMAIN rep = Site
  BY InAll DEF Means, Shape
<1>2. Seen(q, "set") = Seen(rep[n], "set")
  BY DEF Seen
<1>3. Holds(q) /\ LatestWins(q)
  BY <1>1, <1>2 DEF Latest, Holds, LatestWins
<1>4. Stamped(q, q) /\ \A r \in All : Stamped(q, r) /\ Stamped(r, q)
  BY <1>1, <1>2 DEF Latest, Stamped
<1> QED
  BY <1>1, <1>3, <1>4, ReplaceLatest

LEMMA SetLatest ==
  ASSUME Means, Latest, NEW n \in Site, Set(n)
  PROVE  Latest'
<1>1. PICK ts \in 1 .. MaxTime :
        LET g == SetRegister(rep[n].reg, n, ts)
        IN  /\ Become(n, [rep[n] EXCEPT !.reg = g], Update("set", n, g.write, ts))
            /\ skewed' = (skewed \/ ~Older(rep[n].reg, g))
  BY DEF Set
<1> DEFINE g == SetRegister(rep[n].reg, n, ts)
           w == SetUpdate(rep[n], n, ts)
           q == Made([rep[n] EXCEPT !.reg = g], w)
<1> SUFFICES ASSUME ~skewed, Older(rep[n].reg, g) PROVE Latest'
  BY <1>1 DEF Latest
<1>2. rep[n] \in All /\ Local(rep[n]) /\ DOMAIN rep = Site
  BY InAll DEF Means, Shape
<1>3. /\ q.reg = g /\ q.seen = rep[n].seen \union {w}
      /\ g.ts = ts /\ g.node = n
      /\ w.op = "set" /\ w.node = n /\ w.i = g.write /\ w.x = ts
  <2>1. ts \in Nat
    OBVIOUS
  <2>2. Local(rep[n])
    BY <1>2
  <2>3. q = Written(rep[n], n, ts)
    BY Zenon DEF Written
  <2> HIDE DEF q
  <2>4. q.reg = g /\ q.seen = rep[n].seen \union {w} /\ g.ts = ts /\ g.node = n
    BY <2>1, <2>2, <2>3, SetLocal
  <2>5. w.op = "set" /\ w.node = n /\ w.i = g.write /\ w.x = ts
    BY DEF SetUpdate, Update
  <2> QED
    BY <2>4, <2>5, Zenon
<1>4. rep' = [rep EXCEPT ![n] = q] /\ net' = net
  BY <1>1 DEF Become, Made, SetUpdate
<1> HIDE DEF g, w, q
<1>5. Seen(q, "set") = Seen(rep[n], "set") \union {w}
  BY <1>3 DEF Seen
<1>6. Replica(rep[n]) /\ n \in Nat /\ ts \in Nat
  BY <1>2 DEF Local
<1>7. ASSUME NEW u \in Seen(rep[n], "set") PROVE Older(Stamp(u), g)
  <2>1. /\ u.x \in Nat /\ u.node \in Nat /\ rep[n].reg.ts \in Nat /\ rep[n].reg.node \in Nat
        /\ g.ts \in Nat /\ g.node \in Nat
    BY <1>3, <1>6, SeenTypes
  <2>2. CASE Older(Stamp(u), rep[n].reg)
    BY <2>1, <2>2, StampFields DEF Older
  <2>3. CASE u.node = rep[n].reg.node /\ u.i = rep[n].reg.write
    <3>1. PICK v \in Seen(rep[n], "set") :
            v.node = rep[n].reg.node /\ v.i = rep[n].reg.write /\ v.x = rep[n].reg.ts
      BY <1>2 DEF Latest, Holds
    <3>2. Agree(rep[n], rep[n])
      BY <1>2 DEF Means
    <3>3. u = v
      BY <2>3, <3>1, <3>2 DEF Agree, Seen
    <3> QED
      BY <2>1, <3>1, <3>3, StampFields DEF Older
  <2> QED
    BY <1>2, <2>2, <2>3 DEF Latest, LatestWins, Stamp
<1>8. Holds(q)
  BY <1>3, <1>5 DEF Holds
<1>9. LatestWins(q)
  BY <1>3, <1>5, <1>7 DEF LatestWins, Stamp
<1>10. ASSUME NEW r \in All, NEW v \in Seen(r, "set"), v.node = n, v.x = ts PROVE FALSE
  <2>1. Local(r) /\ Replica(r) /\ Authority(r) /\ Agree(r, rep[n])
    BY <1>2 DEF Means, Local
  <2>2. v \in r.seen /\ v.op = "set" /\ v.i \in Nat
    BY <2>1 DEF Seen, Replica, UpdateType
  <2>3. v.i <= rep[n].reg.vclock[n]
    BY <1>10, <2>1, <2>2 DEF Authority
  <2>4. v.i >= 1
    <3>1. v.i \in Numbers(r, "set", n)
      BY <1>10 DEF Numbers
    <3>2. Numbers(r, "set", n) = 1 .. r.reg.vclock[n]
      BY <2>1 DEF Local, ClockMeans
    <3>3. r.reg.vclock[n] \in Nat
      BY <2>1 DEF Replica, Register
    <3> QED
      BY <3>1, <3>2, <3>3
  <2>5. Numbers(rep[n], "set", n) = 1 .. rep[n].reg.vclock[n] /\ rep[n].reg.vclock[n] \in Nat
    BY <1>2 DEF Local, ClockMeans, Replica, Register
  <2>6. v.i \in Numbers(rep[n], "set", n)
    BY <2>2, <2>3, <2>4, <2>5
  <2>7. PICK u \in Seen(rep[n], "set") : u.node = n /\ u.i = v.i
    BY <2>6 DEF Numbers
  <2>8. u = v
    BY <1>10, <2>1, <2>2, <2>7 DEF Agree, Seen
  <2>9. Older(Stamp(v), g)
    BY <1>7, <2>7, <2>8
  <2> QED
    BY <1>3, <1>6, <1>10, <2>9, StampFields DEF Older
<1>11. Stamped(q, q) /\ \A r \in All : Stamped(q, r) /\ Stamped(r, q)
  BY <1>2, <1>3, <1>5, <1>10 DEF Stamped, Latest
<1> QED
  BY <1>2, <1>4, <1>8, <1>9, <1>11, ReplaceLatest

LEMMA MergeLatest ==
  ASSUME Means, Latest, NEW n \in Site, NEW s \in net, Merge(n, s)
  PROVE  Latest'
<1> SUFFICES ASSUME ~skewed PROVE Latest'
  BY DEF Latest, Merge
<1> DEFINE r == rep[n]
           q == Merged(r, s)
<1>1. r \in All /\ s \in All /\ Local(r) /\ Local(s) /\ DOMAIN rep = Site
  BY InAll DEF Means, Shape
<1>2. rep' = [rep EXCEPT ![n] = q] /\ net' = net
  BY DEF Merge, Merged
<1>3. q.reg = MergeRegister(r.reg, s.reg) /\ q.seen = r.seen \union s.seen
  BY <1>1, MergeLocal
<1>4. /\ Holds(r) /\ Holds(s) /\ LatestWins(r) /\ LatestWins(s) /\ Stamped(r, s)
      /\ Agree(r, r) /\ Agree(s, s)
  BY <1>1 DEF Latest, Means
<1>5. Replica(r) /\ Replica(s) /\ r.reg \in Register /\ s.reg \in Register
  BY <1>1 DEF Local, Replica
<1> DEFINE a == IF Older(r.reg, s.reg) THEN s.reg ELSE r.reg
<1>6. q.reg.ts = a.ts /\ q.reg.node = a.node /\ q.reg.write = a.write
  BY <1>3, <1>5, MergeRegisterFields
<1> HIDE DEF r, q, a
<1>7. Seen(q, "set") = Seen(r, "set") \union Seen(s, "set")
  BY <1>3 DEF Seen
<1>8. Holds(q)
  BY <1>4, <1>6, <1>7 DEF Holds, a
<1>9. PICK x \in Seen(r, "set") : x.node = r.reg.node /\ x.i = r.reg.write /\ x.x = r.reg.ts
  BY <1>4 DEF Holds
<1>10. PICK y \in Seen(s, "set") : y.node = s.reg.node /\ y.i = s.reg.write /\ y.x = s.reg.ts
  BY <1>4 DEF Holds
<1>11. ASSUME NEW u \in Seen(r, "set") PROVE u = x \/ Older(Stamp(u), r.reg)
  BY <1>4, <1>9 DEF LatestWins, Agree, Stamp, Seen
<1>12. ASSUME NEW u \in Seen(s, "set") PROVE u = y \/ Older(Stamp(u), s.reg)
  BY <1>4, <1>10 DEF LatestWins, Agree, Stamp, Seen
<1>13. /\ r.reg.ts \in Nat /\ r.reg.node \in Nat /\ s.reg.ts \in Nat /\ s.reg.node \in Nat
       /\ \A u \in Seen(r, "set") : u.x \in Nat /\ u.node \in Nat
       /\ \A u \in Seen(s, "set") : u.x \in Nat /\ u.node \in Nat
  BY <1>5, SeenTypes
<1>14. ASSUME NEW u \in Seen(q, "set")
       PROVE  (u.node = q.reg.node /\ u.i = q.reg.write) \/ Older(Stamp(u), q.reg)
  <2>1. CASE Older(r.reg, s.reg)
    <3>1. q.reg.ts = s.reg.ts /\ q.reg.node = s.reg.node /\ q.reg.write = s.reg.write
      BY <1>6, <2>1 DEF a
    <3>2. CASE u \in Seen(r, "set")
      <4>1. Older(Stamp(u), s.reg)
        BY <1>9, <1>11, <1>13, <2>1, <3>2, StampFields DEF Older
      <4> QED
        BY <3>1, <4>1 DEF Older
    <3>3. CASE u \in Seen(s, "set")
      BY <1>10, <1>12, <3>1, <3>3 DEF Older
    <3> QED
      BY <1>7, <3>2, <3>3
  <2>2. CASE ~Older(r.reg, s.reg)
    <3>1. q.reg.ts = r.reg.ts /\ q.reg.node = r.reg.node /\ q.reg.write = r.reg.write
      BY <1>6, <2>2 DEF a
    <3>2. CASE u \in Seen(r, "set")
      BY <1>9, <1>11, <3>1, <3>2 DEF Older
    <3>3. CASE u \in Seen(s, "set")
      <4>1. CASE r.reg.ts = s.reg.ts /\ r.reg.node = s.reg.node
        <5>1. x = y
          BY <1>4, <1>9, <1>10, <4>1 DEF Stamped
        <5> QED
          BY <1>9, <1>12, <3>1, <3>3, <4>1, <5>1 DEF Older
      <4>2. CASE ~(r.reg.ts = s.reg.ts /\ r.reg.node = s.reg.node)
        <5>1. Older(s.reg, r.reg)
          BY <1>13, <2>2, <4>2 DEF Older
        <5>2. Older(Stamp(u), r.reg)
          BY <1>10, <1>12, <1>13, <3>3, <5>1, StampFields DEF Older
        <5> QED
          BY <3>1, <5>2 DEF Older
      <4> QED
        BY <4>1, <4>2
    <3> QED
      BY <1>7, <3>2, <3>3
  <2> QED
    BY <2>1, <2>2
<1>15. LatestWins(q)
  BY <1>14 DEF LatestWins, Stamp
<1>16. Stamped(q, q) /\ \A t \in All : Stamped(q, t) /\ Stamped(t, q)
  BY <1>1, <1>7 DEF Stamped, Latest
<1> QED
  BY <1>1, <1>2, <1>8, <1>15, <1>16, ReplaceLatest

LEMMA NextLatest == Means /\ Latest /\ [ReplicaNext]_replicaVars => Latest'
<1> SUFFICES ASSUME Means, Latest, [ReplicaNext]_replicaVars PROVE Latest'
  OBVIOUS
<1>1. ASSUME NEW n \in Site PROVE Replica(rep[n])
  BY InAll DEF Means, Local
<1>2. ASSUME NEW n \in Site, NEW e \in Element, Add(n, e) PROVE Latest'
  <2> DEFINE s == AddElement(rep[n].set, n, e)
             u == Update("add", n, s.counter, e)
             q == Made([rep[n] EXCEPT !.set = s], u)
  <2>1. rep' = [rep EXCEPT ![n] = q] /\ net' = net /\ skewed' = skewed
    BY <1>2 DEF Add, Become, Made
  <2>2. u.op = "add"
    BY DEF Update
  <2> HIDE DEF s, u
  <2>3. q.reg = rep[n].reg /\ q.seen = rep[n].seen \union {u}
    BY <1>1 DEF Made, Replica
  <2> HIDE DEF q
  <2> QED
    BY <2>1, <2>2, <2>3, OtherLatest
<1>3. ASSUME NEW n \in Site, NEW e \in Element, Remove(n, e) PROVE Latest'
  <2> DEFINE s == RemoveElement(rep[n].set, e)
             u == Update("remove", n, 0, TagsOf(rep[n].set, e))
             q == Made([rep[n] EXCEPT !.set = s], u)
  <2>1. rep' = [rep EXCEPT ![n] = q] /\ net' = net /\ skewed' = skewed
    BY <1>3 DEF Remove, Become, Made
  <2>2. u.op = "remove"
    BY DEF Update
  <2> HIDE DEF s, u
  <2>3. q.reg = rep[n].reg /\ q.seen = rep[n].seen \union {u}
    BY <1>1 DEF Made, Replica
  <2> HIDE DEF q
  <2> QED
    BY <2>1, <2>2, <2>3, OtherLatest
<1>4. ASSUME NEW n \in Site, Increment(n) PROVE Latest'
  <2> DEFINE u == Update("inc", n, rep[n].cnt.positive[n] + 1, 0)
             q == Made([rep[n] EXCEPT !.cnt.positive[n] = @ + 1], u)
  <2>1. rep' = [rep EXCEPT ![n] = q] /\ net' = net /\ skewed' = skewed
    BY <1>4 DEF Increment, Become, Made
  <2>2. u.op = "inc"
    BY DEF Update
  <2> HIDE DEF u
  <2>3. q.reg = rep[n].reg /\ q.seen = rep[n].seen \union {u}
    BY <1>1 DEF Made, Replica
  <2> HIDE DEF q
  <2> QED
    BY <2>1, <2>2, <2>3, OtherLatest
<1>5. ASSUME NEW n \in Site, Decrement(n) PROVE Latest'
  <2> DEFINE u == Update("dec", n, rep[n].cnt.negative[n] + 1, 0)
             q == Made([rep[n] EXCEPT !.cnt.negative[n] = @ + 1], u)
  <2>1. rep' = [rep EXCEPT ![n] = q] /\ net' = net /\ skewed' = skewed
    BY <1>5 DEF Decrement, Become, Made
  <2>2. u.op = "dec"
    BY DEF Update
  <2> HIDE DEF u
  <2>3. q.reg = rep[n].reg /\ q.seen = rep[n].seen \union {u}
    BY <1>1 DEF Made, Replica
  <2> HIDE DEF q
  <2> QED
    BY <2>1, <2>2, <2>3, OtherLatest
<1>6. ASSUME NEW n \in Site, Ship(n) PROVE Latest'
  <2>1. All' \subseteq All /\ skewed' = skewed
    BY <1>6 DEF Ship, All
  <2> QED
    BY <2>1, SameLatest
<1>7. ASSUME NEW s \in net, Lose(s) PROVE Latest'
  <2>1. All' \subseteq All /\ skewed' = skewed
    BY <1>7 DEF Lose, All
  <2> QED
    BY <2>1, SameLatest
<1>8. CASE UNCHANGED replicaVars
  <2>1. All' \subseteq All /\ skewed' = skewed
    BY <1>8 DEF replicaVars, All
  <2> QED
    BY <2>1, SameLatest
<1>9. ASSUME NEW n \in Site, Set(n) PROVE Latest'
  BY <1>9, SetLatest
<1>10. ASSUME NEW n \in Site, NEW s \in net, Merge(n, s) PROVE Latest'
  BY <1>10, MergeLatest
<1> QED
  BY <1>2, <1>3, <1>4, <1>5, <1>6, <1>7, <1>8, <1>9, <1>10 DEF ReplicaNext

-----------------------------------------------------------------------------
(* The invariant and its consequences *)

LEMMA Invariance == ReplicaSpec => [](Means /\ Latest)
<1>1. ReplicaInit => Means /\ Latest
  BY InitMeans
<1>2. Means /\ Latest /\ [ReplicaNext]_replicaVars => (Means /\ Latest)'
  BY NextMeans, NextLatest
<1> QED
  BY <1>1, <1>2, PTL DEF ReplicaSpec

\* Whatever arrives, in whatever order, the objects of every node and every
\* state in transit are well formed, tags and counts included.
THEOREM ReplicasAreTyped == ReplicaSpec => []ReplicaTypeOK
<1>1. Means => ReplicaTypeOK
  <2> SUFFICES ASSUME Means PROVE ReplicaTypeOK
    OBVIOUS
  <2>1. \A n \in Site : Replica(rep[n])
    BY InAll DEF Means, Local
  <2>2. \A s \in net : Replica(s)
    BY InAll DEF Means, Local
  <2> QED
    BY <2>1, <2>2, Zenon DEF ReplicaTypeOK, Means, Shape
<1> QED
  BY <1>1, Invariance, PTL

\* OrSet::merge: a set holds exactly the additions seen that no removal seen has
\* observed, for any transport.
THEOREM SetsConverge == ReplicaSpec => []SetReflectsSeen
<1>1. Means => SetReflectsSeen
  BY InAll DEF Means, Local, SetReflectsSeen
<1> QED
  BY <1>1, Invariance, PTL

\* PnCounter::merge: every increment and decrement seen counts exactly once.
THEOREM CountersConverge == ReplicaSpec => []CounterReflectsSeen
<1>1. Means => CounterReflectsSeen
  BY InAll DEF Means, Local, CounterReflectsSeen
<1> QED
  BY <1>1, Invariance, PTL

\* VectorClock: happened_before and is_concurrent answer what the sets of writes
\* seen say.
THEOREM ClocksAreCausal == ReplicaSpec => []ClockIsCausal
<1>1. ASSUME Means, NEW r \in All, NEW s \in All
      PROVE  /\ Seen(r, "set") \subseteq Seen(s, "set")
                  <=> \A m \in Site : r.reg.vclock[m] <= s.reg.vclock[m]
             /\ r.reg.vclock \in [Site -> Nat] /\ s.reg.vclock \in [Site -> Nat]
  <2>1. /\ Local(r) /\ Local(s) /\ Agree(r, s) /\ Replica(r) /\ Replica(s)
        /\ r.reg.vclock \in [Site -> Nat] /\ s.reg.vclock \in [Site -> Nat]
    BY <1>1 DEF Means, Local, Replica, Register
  <2>2. \A m \in Site : /\ Numbers(r, "set", m) = 1 .. r.reg.vclock[m]
                        /\ Numbers(s, "set", m) = 1 .. s.reg.vclock[m]
    BY <2>1 DEF Local, ClockMeans
  <2>3. ASSUME Seen(r, "set") \subseteq Seen(s, "set"), NEW m \in Site
        PROVE  r.reg.vclock[m] <= s.reg.vclock[m]
    <3>1. Numbers(r, "set", m) \subseteq Numbers(s, "set", m)
      BY <2>3 DEF Numbers
    <3>2. r.reg.vclock[m] \in Nat /\ s.reg.vclock[m] \in Nat
      BY <2>1
    <3>3. 1 .. r.reg.vclock[m] \subseteq 1 .. s.reg.vclock[m]
      BY <2>2, <3>1
    <3> QED
      BY <3>2, <3>3
  <2>4. ASSUME \A m \in Site : r.reg.vclock[m] <= s.reg.vclock[m],
               NEW u \in Seen(r, "set")
        PROVE  u \in Seen(s, "set")
    <3>1. u \in r.seen /\ u.op = "set" /\ u.node \in Site
      BY <2>1 DEF Seen, Replica, UpdateType
    <3>2. PICK m \in Site : m = u.node
      BY <3>1
    <3>3. r.reg.vclock[m] \in Nat /\ s.reg.vclock[m] \in Nat
      BY <2>1
    <3>4. u.i \in Numbers(r, "set", m)
      BY <2>4, <3>2 DEF Numbers
    <3>5. u.i \in Numbers(s, "set", m)
      <4>1. u.i \in 1 .. r.reg.vclock[m]
        BY <2>2, <3>4
      <4>2. r.reg.vclock[m] <= s.reg.vclock[m]
        BY <2>4
      <4>3. u.i \in 1 .. s.reg.vclock[m]
        BY <3>3, <4>1, <4>2
      <4> QED
        BY <2>2, <4>3
    <3>6. PICK v \in Seen(s, "set") : v.node = m /\ v.i = u.i
      BY <3>5 DEF Numbers
    <3>7. u = v
      BY <2>1, <3>1, <3>2, <3>6 DEF Agree, Seen
    <3> QED
      BY <3>6, <3>7
  <2> QED
    BY <2>1, <2>3, <2>4
<1>2. ASSUME NEW f \in [Site -> Nat], NEW g \in [Site -> Nat]
      PROVE  /\ HappenedBefore(f, g) <=> (\A m \in Site : f[m] <= g[m]) /\ f # g
             /\ f = g <=> (\A m \in Site : f[m] <= g[m]) /\ (\A m \in Site : g[m] <= f[m])
  <2>1. f = g <=> \A m \in Site : f[m] = g[m]
    <3>1. f = [m \in Site |-> f[m]] /\ g = [m \in Site |-> g[m]]
      OBVIOUS
    <3> QED
      BY <3>1, Zenon
  <2>2. (\A m \in Entries(f) : f[m] <= g[m]) <=> \A m \in Site : f[m] <= g[m]
    BY DEF Entries
  <2>3. ASSUME \A m \in Site : f[m] <= g[m]
        PROVE  ((\E m \in Entries(f) : f[m] < g[m]) \/ Entries(g) \ Entries(f) # {})
                 <=> \E m \in Site : f[m] # g[m]
    <3>1. ASSUME NEW m \in Entries(f), f[m] < g[m] PROVE \E k \in Site : f[k] # g[k]
      BY <3>1 DEF Entries
    <3>2. ASSUME NEW m \in Entries(g) \ Entries(f) PROVE \E k \in Site : f[k] # g[k]
      BY DEF Entries
    <3>3. ASSUME NEW m \in Site, f[m] # g[m]
          PROVE  (m \in Entries(f) /\ f[m] < g[m]) \/ m \in Entries(g) \ Entries(f)
      BY <2>3, <3>3 DEF Entries
    <3> QED
      BY <3>1, <3>2, <3>3
  <2> QED
    BY <2>1, <2>2, <2>3 DEF HappenedBefore
<1>3. ASSUME Means, NEW n \in Site, NEW m \in Site
      PROVE  LET a == Seen(rep[n], "set")
                 b == Seen(rep[m], "set")
             IN  /\ HappenedBefore(rep[n].reg.vclock, rep[m].reg.vclock)
                      <=> a \subseteq b /\ a # b
                 /\ Concurrent(rep[n].reg.vclock, rep[m].reg.vclock)
                      <=> ~(a \subseteq b) /\ ~(b \subseteq a)
  <2> DEFINE f == rep[n].reg.vclock
             g == rep[m].reg.vclock
             a == Seen(rep[n], "set")
             b == Seen(rep[m], "set")
             le == \A k \in Site : f[k] <= g[k]
             ge == \A k \in Site : g[k] <= f[k]
  <2>1. /\ a \subseteq b <=> le
        /\ b \subseteq a <=> ge
        /\ f \in [Site -> Nat] /\ g \in [Site -> Nat]
    BY <1>1, <1>3, InAll
  <2> HIDE DEF f, g, a, b
  <2>2. /\ HappenedBefore(f, g) <=> le /\ f # g
        /\ HappenedBefore(g, f) <=> ge /\ g # f
        /\ f = g <=> le /\ ge
    BY <1>2, <2>1
  <2> HIDE DEF le, ge
  <2>3. a = b <=> a \subseteq b /\ b \subseteq a
    OBVIOUS
  <2>4. /\ HappenedBefore(f, g) <=> a \subseteq b /\ a # b
        /\ Concurrent(f, g) <=> ~(a \subseteq b) /\ ~(b \subseteq a)
    BY <2>1, <2>2, <2>3 DEF Concurrent
  <2> QED
    BY <2>4 DEF f, g, a, b
<1>4. Means => ClockIsCausal
  BY <1>3, Zenon DEF ClockIsCausal
<1> QED
  BY <1>4, Invariance, PTL

\* LwwRegister::merge: as long as no write was stamped before the one it
\* replaced, every replica holds the last of the writes it has seen.
THEOREM LastWriteIsKept == ReplicaSpec => []LastWriterWins
<1>1. Means /\ Latest => LastWriterWins
  BY InAll DEF Latest, LastWriterWins
<1> QED
  BY <1>1, Invariance, PTL
=============================================================================
