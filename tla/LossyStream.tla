---------------------------- MODULE LossyStream ----------------------------
(* What a receiver of several senders' packets is promised over a network  *)
(* that loses some: what it gets from one of them was sent by it, nothing  *)
(* comes twice and nothing comes late.                                     *)
EXTENDS Integers, Sequences

CONSTANT Sources

VARIABLES
  sent,   \* how many packets each source sent
  got     \* the packets received from each source, in the order they came

StreamInit ==
  /\ sent = [m \in Sources |-> 0]
  /\ got = [m \in Sources |-> <<>>]

Send(m) == sent' = [sent EXCEPT ![m] = @ + 1] /\ UNCHANGED got

\* A packet is received, those before it that did not come never will.
Receive(m) ==
  \E k \in 1 .. sent[m] :
    /\ \A i \in DOMAIN got[m] : got[m][i] < k
    /\ got' = [got EXCEPT ![m] = Append(@, k)]
    /\ UNCHANGED sent

StreamNext == \E m \in Sources : Send(m) \/ Receive(m)

StreamSpec == StreamInit /\ [][StreamNext]_<<sent, got>>
=============================================================================
