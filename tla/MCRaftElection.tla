--------------------------- MODULE MCRaftElection ---------------------------
(* Instances of RaftElection for TLC. *)
EXTENDS RaftElection

CONSTANTS n1, n2, n3

\* Node n1 may lose sight of the other nodes and find them again.
ForgetsBoth == {<< n1, n2 >>, << n1, n3 >>}
=============================================================================
