------------------------------ MODULE Streams ------------------------------
(***************************************************************************)
(* What a relay promises of each of its channels: what comes out is what   *)
(* went in, in order, once, and nothing is left out before what follows.   *)
(* The n-th unit that goes in is n.                                        *)
(***************************************************************************)
EXTENDS Integers, Sequences

CONSTANT Channel

VARIABLES
  sent,  \* units that went in
  got    \* what came out

TypeOK == sent \in [Channel -> Nat] /\ got \in [Channel -> Seq(Nat)]

Upto(n) == [i \in 1 .. n |-> i]

Init == sent = [c \in Channel |-> 0] /\ got = [c \in Channel |-> <<>>]

Send(c) ==
  /\ sent' = [sent EXCEPT ![c] = @ + 1]
  /\ UNCHANGED got

Deliver(c) ==
  /\ \E n \in Len(got[c]) + 1 .. sent[c] : got' = [got EXCEPT ![c] = Upto(n)]
  /\ UNCHANGED sent

Next == \E c \in Channel : Send(c) \/ Deliver(c)

Spec == Init /\ [][Next]_<<sent, got>>
=============================================================================
