------------------------ MODULE MCEnvelopeAdmission ------------------------
(* Small instances of EnvelopeAdmission for TLC. *)
EXTENDS EnvelopeAdmission, TLC

Env(s, n, t, v, e) ==
  [sender |-> s, nonce |-> n, ts |-> t, verb |-> v, forUs |-> TRUE,
   expires |-> 0, endpoint |-> e]

(* A peer's request announcing its endpoint, a ticket of another peer that *)
(* happens to carry the same nonce and may arrive at either door, and a    *)
(* request of the node to itself that may arrive just after the first is   *)
(* stale or once its nonce has expired; the other peer's second envelope   *)
(* is addressed to another node.                                           *)
MCMessage ==
  {Env("a", "n1", 2, "request", "url"), Env("b", "n1", 1, "ticket", "url"),
   Env("me", "n1", 5, "request", "url"),
   [Env("b", "n2", 1, "request", "url") EXCEPT !.forUs = FALSE]}

MCEndpoint == {"url"}

MCSymmetry == Permutations(Worker)
=============================================================================
