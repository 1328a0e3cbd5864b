------------------------------ MODULE MCServer ------------------------------
(* Instances of Server for TLC. *)
EXTENDS Server, TLC

CONSTANTS i1, i2, s1

\* All sandboxes share a shard: the case in which guards and writes collide.
OneShard == {s1}
AllInOne == [i \in Id |-> s1]

ReqSymmetry == Permutations(Req)
=============================================================================
