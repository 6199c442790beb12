--------------------------- MODULE MCWebhookServer ---------------------------
(* WebhookServer for TLC: an event at the limit, one above it, one with a bad *)
(* signature, one for a method without a route; and two registrations of one  *)
(* path, the second with the default limit and without a verifier.            *)
EXTENDS WebhookServer, TLC

MCEvents ==
    {[id |-> 1, method |-> "POST", path |-> "/a", size |-> 2, genuine |-> TRUE],
     [id |-> 2, method |-> "POST", path |-> "/a", size |-> 3, genuine |-> TRUE],
     [id |-> 3, method |-> "POST", path |-> "/a", size |-> 1, genuine |-> FALSE],
     [id |-> 4, method |-> "PUT", path |-> "/a", size |-> 1, genuine |-> TRUE]}

MCRegs ==
    {[method |-> "POST", path |-> "/a", limit |-> 2, verify |-> TRUE, key |-> TRUE],
     [method |-> "POST", path |-> "/a", limit |-> 0, verify |-> FALSE, key |-> FALSE]}

Symmetry == Permutations(Posts)

=============================================================================
