----------------------------- MODULE MessageFifo -----------------------------
(***************************************************************************)
(* What the senders of a socket and the network thread that writes it rely *)
(* on a message queue for: each message is delivered once, and in the one  *)
(* order in which the queue accepted them.                                 *)
(***************************************************************************)
EXTENDS Naturals, Sequences

CONSTANT Messages

VARIABLES
    accepted,   \* every message accepted so far, in the queue's order
    delivered   \* how many of them have been delivered

vars == <<accepted, delivered>>

Init ==
    /\ accepted = << >>
    /\ delivered = 0

Accept(m) ==
    /\ \A i \in DOMAIN accepted : accepted[i] # m
    /\ accepted' = Append(accepted, m)
    /\ UNCHANGED delivered

\* A delivery hands over accepted[delivered + 1].
Deliver ==
    /\ delivered < Len(accepted)
    /\ delivered' = delivered + 1
    /\ UNCHANGED accepted

Next == (\E m \in Messages : Accept(m)) \/ Deliver

Spec == Init /\ [][Next]_vars
=============================================================================
