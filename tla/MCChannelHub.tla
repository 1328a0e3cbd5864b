---------------------------- MODULE MCChannelHub ----------------------------
(* Instances of ChannelHub for TLC. *)
EXTENDS ChannelHub, TLC

\* Names are only compared with each other.
NameSymmetry == Permutations(Name)
=============================================================================
