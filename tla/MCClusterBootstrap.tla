------------------------- MODULE MCClusterBootstrap -------------------------
(***************************************************************************)
(* Instances of ClusterBootstrap for TLC.                                  *)
(***************************************************************************)
EXTENDS ClusterBootstrap, TLC

CONSTANTS s1, s2, s3

\* With an external datastore nobody joins anybody.
NoJoin == [s \in Servers |-> None]

\* Embedded etcd: s1 is started with --cluster-init, s2 joins s1, and s3 joins
\* s2, so that the files go through two servers.
Chain == (s1 :> None) @@ (s2 :> s1) @@ (s3 :> s2)

Symmetric == Permutations({s1, s2, s3})

=============================================================================
