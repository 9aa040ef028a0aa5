--------------------------- MODULE MCLoadBalancer ---------------------------
(* Small instances of LoadBalancer for TLC. *)
EXTENDS LoadBalancer, TLC

CONSTANTS s1, s2, s3, u1, u2, d1, d2

\* One URL, or two that name different servers.
OneURL == {u1}
TwoURLs == {u1, u2}
OneHost == u1 :> s1
TwoHosts == (u1 :> s1) @@ (u2 :> s2)

\* The dialers are interchangeable; the servers are not, as a URL names each.
Symmetric == Permutations({d1, d2})
=============================================================================
