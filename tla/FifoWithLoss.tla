---------------------------- MODULE FifoWithLoss ----------------------------
(***************************************************************************)
(* What the IPC channels of isolate-core/src/ipc promise the sandboxes that  *)
(* use them: the messages of a channel, numbered in the order in which they  *)
(* are accepted, are delivered in that order and at most once, and it is     *)
(* always the oldest ones that are given up.                                 *)
(***************************************************************************)
EXTENDS Naturals

CONSTANT Channels

VARIABLES
  top,      \* top[c]: the newest message accepted
  pending,  \* pending[c]: messages accepted, not delivered and not given up
  last      \* last[c]: the newest message delivered

Init == /\ top = [c \in Channels |-> 0]
        /\ pending = [c \in Channels |-> {}]
        /\ last = [c \in Channels |-> 0]

\* What is left of the channel when everything up to message m is gone.
After(c, m) == {x \in pending[c] : x > m}

\* Message n is accepted; room may have been made for it.
Accept(c, n) ==
  /\ n > top[c] /\ top' = [top EXCEPT ![c] = n]
  /\ \E m \in 0 .. top[c] : pending' = [pending EXCEPT ![c] = After(c, m) \union {n}]
  /\ UNCHANGED last

\* Message n is delivered, and the older ones are never delivered.
Deliver(c, n) ==
  /\ n \in pending[c]
  /\ last' = [last EXCEPT ![c] = n]
  /\ pending' = [pending EXCEPT ![c] = After(c, n)]
  /\ UNCHANGED top

\* The oldest messages are given up.
GiveUp(c) ==
  /\ \E m \in 0 .. top[c] : pending' = [pending EXCEPT ![c] = After(c, m)]
  /\ UNCHANGED << top, last >>

Next == \E c \in Channels : \/ Accept(c, top'[c])
                            \/ Deliver(c, last'[c])
                            \/ GiveUp(c)

Spec == Init /\ [][Next]_<< top, pending, last >>
=============================================================================
