----------------------------- MODULE MCMPSCQueue -----------------------------
(* Two producers and four messages. *)
EXTENDS MPSCQueue

CONSTANTS p1, p2, m1, m2, m3, m4

MCProducers == {p1, p2}
MCMessages == {m1, m2, m3, m4}
=============================================================================
