---------------------------- MODULE RaftElection ----------------------------
(***************************************************************************)
(* Leader election of the mesh (RaftNode, isolate-core/src/mesh/            *)
(* consensus.rs).  Messages are never taken off the network: they may be    *)
(* lost, delayed, reordered and delivered any number of times.              *)
(*                                                                          *)
(* A log is its last index and term, which is all that elections look at.   *)
(* next_index and match_index are written only, and no entry is sent to     *)
(* other nodes, so a log grows at a leader alone.                           *)
(***************************************************************************)
EXTENDS Naturals, FiniteSets

CONSTANTS
  Node,         \* the mesh's nodes
  Candidates,   \* nodes whose election timeout elapses (a bound)
  MaxTerm,      \* bound on terms
  MaxLog,       \* bound on log indices
  Reconfigured, \* pairs <<n, m>>: node n adds and removes member m after the start
  None          \* no node

ASSUME RaftAssumption ==
  /\ IsFiniteSet(Node)
  /\ MaxTerm \in Nat /\ MaxLog \in Nat
  /\ Candidates \subseteq Node /\ Reconfigured \subseteq Node \X Node
  /\ None \notin Node

VARIABLES
  term,        \* current_term
  role,        \* role
  votedFor,    \* voted_for
  leaderId,    \* leader_id
  votes,       \* votes_received
  members,     \* cluster_members
  lastIndex,   \* index of the last log entry, 0 for an empty log
  lastTerm,    \* term of the last log entry
  requests,    \* VoteRequests sent
  responses,   \* VoteResponses sent, with their sender and addressee
  elected      \* history: which node led which term, by whose votes of which members

vars == << term, role, votedFor, leaderId, votes, members, lastIndex, lastTerm,
           requests, responses, elected >>
logVars == << lastIndex, lastTerm >>

-----------------------------------------------------------------------------
\* new(), at every node, followed by the add_member calls that set up the
\* cluster: before the first election every node knows every other.
Init ==
  /\ term = [n \in Node |-> 0]
  /\ role = [n \in Node |-> "Follower"]
  /\ votedFor = [n \in Node |-> None]
  /\ leaderId = [n \in Node |-> None]
  /\ votes = [n \in Node |-> {}]
  /\ members = [n \in Node |-> Node]
  /\ lastIndex = [n \in Node |-> 0]
  /\ lastTerm = [n \in Node |-> 0]
  /\ requests = {}
  /\ responses = {}
  /\ elected = {}

\* votes_received.len() >= quorum_size().
IsQuorum(n, V) == Cardinality(V) >= Cardinality(members[n]) \div 2 + 1

\* Node n has the votes V in term t: it leads the term once they are a quorum.
CountVotes(n, t, V) ==
  /\ votes' = [votes EXCEPT ![n] = V]
  /\ IF IsQuorum(n, V)
     THEN /\ role' = [role EXCEPT ![n] = "Leader"]
          /\ elected' = elected \cup {[term |-> t, leader |-> n, by |-> V,
                                      of |-> members[n]]}
     ELSE /\ role' = [role EXCEPT ![n] = "Candidate"]
          /\ UNCHANGED elected

\* start_election.
StartElection(n) ==
  /\ n \in Candidates /\ term[n] < MaxTerm
  /\ term' = [term EXCEPT ![n] = @ + 1]
  /\ votedFor' = [votedFor EXCEPT ![n] = n]
  /\ CountVotes(n, term[n] + 1, {n})
  /\ leaderId' = [leaderId EXCEPT ![n] = IF IsQuorum(n, {n}) THEN n ELSE None]
  /\ requests' = requests \cup {[term |-> term[n] + 1, candidate |-> n,
                                 index |-> lastIndex[n], logTerm |-> lastTerm[n]]}
  /\ UNCHANGED << members, logVars, responses >>

\* The candidate's log is at least as up to date as n's.
UpToDate(n, r) ==
  \/ r.logTerm > lastTerm[n]
  \/ r.logTerm = lastTerm[n] /\ r.index >= lastIndex[n]

\* What n votes in the term it handles request r in, after step_down.
VoteAt(n, r) == IF r.term > term[n] THEN None ELSE votedFor[n]

\* Mutant: a vote that was given before is forgotten.
GrantsAgain(n, r) == r.term >= term[n] /\ UpToDate(n, r)

\* vote_granted.
Grants(n, r) ==
  /\ r.term >= term[n]
  /\ VoteAt(n, r) \in {None, r.candidate}
  /\ UpToDate(n, r)

\* step_down, when t is higher than n's term.
StepDownFor(n, t) ==
  IF t > term[n]
  THEN /\ term' = [term EXCEPT ![n] = t]
       /\ role' = [role EXCEPT ![n] = "Follower"]
       /\ votes' = [votes EXCEPT ![n] = {}]
  ELSE UNCHANGED << term, role, votes >>

\* handle_vote_request, at a node the candidate sent its request to.  A
\* refusal of the request's own term, which handle_vote_response ignores
\* whenever it arrives, is left out of responses.
HandleVoteRequest(n, r) ==
  /\ r \in requests /\ r.candidate # n
  /\ StepDownFor(n, r.term)
  /\ votedFor' = [votedFor EXCEPT ![n] = IF Grants(n, r) THEN r.candidate ELSE VoteAt(n, r)]
  /\ responses' = IF Grants(n, r) \/ term[n] > r.term
                  THEN responses \cup {[from |-> n, to |-> r.candidate, term |-> term'[n],
                                        granted |-> Grants(n, r)]}
                  ELSE responses
  /\ UNCHANGED << leaderId, members, logVars, requests, elected >>

\* handle_vote_response, from a later term.
StepDown(n, m) ==
  /\ m \in responses /\ m.to = n
  /\ m.term > term[n]
  /\ StepDownFor(n, m.term)
  /\ votedFor' = [votedFor EXCEPT ![n] = None]
  /\ UNCHANGED << leaderId, members, logVars, requests, responses, elected >>

\* Mutant: a vote of an earlier term counts in this one.
CountsStale(n, m) == m.to = n /\ m.term <= term[n] /\ role[n] = "Candidate" /\ m.granted

\* handle_vote_response: only these responses have an effect.
Counts(n, m) == m.to = n /\ m.term = term[n] /\ role[n] = "Candidate" /\ m.granted

HandleVoteResponse(n, m) ==
  /\ m \in responses
  /\ Counts(n, m)
  /\ CountVotes(n, term[n], votes[n] \cup {m.from})
  /\ leaderId' = IF IsQuorum(n, votes[n] \cup {m.from})
                 THEN [leaderId EXCEPT ![n] = n] ELSE leaderId
  /\ UNCHANGED << term, votedFor, members, logVars, requests, responses >>

\* receive_heartbeat, from a node that led its term at some time.
ReceiveHeartbeat(n, e) ==
  /\ e \in elected /\ e.leader # n
  /\ e.term >= term[n]
  /\ term' = [term EXCEPT ![n] = e.term]
  /\ role' = [role EXCEPT ![n] = "Follower"]
  /\ votedFor' = [votedFor EXCEPT ![n] = IF e.term > term[n] THEN None ELSE @]
  /\ votes' = [votes EXCEPT ![n] = IF e.term > term[n] THEN {} ELSE @]
  /\ leaderId' = [leaderId EXCEPT ![n] = e.leader]
  /\ UNCHANGED << members, logVars, requests, responses, elected >>

\* append_command.
AppendCommand(n) ==
  /\ role[n] = "Leader"
  /\ lastIndex[n] < MaxLog
  /\ lastIndex' = [lastIndex EXCEPT ![n] = @ + 1]
  /\ lastTerm' = [lastTerm EXCEPT ![n] = term[n]]
  /\ UNCHANGED << term, role, votedFor, leaderId, votes, members, requests, responses, elected >>

AddMember(n, m) ==
  /\ << n, m >> \in Reconfigured
  /\ members' = [members EXCEPT ![n] = @ \cup {m}]
  /\ UNCHANGED << term, role, votedFor, leaderId, votes, logVars, requests, responses, elected >>

RemoveMember(n, m) ==
  /\ << n, m >> \in Reconfigured
  /\ members' = [members EXCEPT ![n] = @ \ {m}]
  /\ UNCHANGED << term, role, votedFor, leaderId, votes, logVars, requests, responses, elected >>

-----------------------------------------------------------------------------
Next ==
  \E n \in Node :
    \/ StartElection(n)
    \/ \E r \in requests : HandleVoteRequest(n, r)
    \/ \E m \in responses : StepDown(n, m) \/ HandleVoteResponse(n, m)
    \/ \E e \in elected : ReceiveHeartbeat(n, e)
    \/ AppendCommand(n)
    \/ \E m \in Node : AddMember(n, m) \/ RemoveMember(n, m)

Spec == Init /\ [][Next]_vars

-----------------------------------------------------------------------------
(* Properties *)

VoteRequest == [term : 0 .. MaxTerm, candidate : Node, index : Nat, logTerm : Nat]
VoteResponse == [from : Node, to : Node, term : 0 .. MaxTerm, granted : BOOLEAN]
Election == [term : 0 .. MaxTerm, leader : Node, by : SUBSET Node, of : SUBSET Node]

TypeOK ==
  /\ term \in [Node -> 0 .. MaxTerm]
  /\ role \in [Node -> {"Follower", "Candidate", "Leader"}]
  /\ votedFor \in [Node -> Node \cup {None}]
  /\ leaderId \in [Node -> Node \cup {None}]
  /\ votes \in [Node -> SUBSET Node]
  /\ members \in [Node -> SUBSET Node]
  /\ lastIndex \in [Node -> Nat]
  /\ lastTerm \in [Node -> Nat]
  /\ requests \subseteq VoteRequest
  /\ responses \subseteq VoteResponse
  /\ elected \subseteq Election

\* A node votes for one candidate in a term, however requests are delayed,
\* repeated and reordered, and whatever the cluster's members are.
VotesOncePerTerm ==
  \A m1, m2 \in responses :
    m1.granted /\ m2.granted /\ m1.from = m2.from /\ m1.term = m2.term => m1.to = m2.to

\* No two nodes ever lead the same term, not even one after the other, if
\* each took its quorum of all nodes, whatever members the nodes had before,
\* after and in between.
FullQuorumsAgree ==
  \A e1, e2 \in elected :
    e1.term = e2.term /\ e1.of = Node /\ e2.of = Node => e1.leader = e2.leader
=============================================================================
