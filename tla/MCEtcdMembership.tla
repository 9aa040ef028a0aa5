-------------------------- MODULE MCEtcdMembership --------------------------
(***************************************************************************)
(* Instances of EtcdMembership for TLC.                                    *)
(***************************************************************************)
EXTENDS EtcdMembership, TLC

CONSTANTS s1, s2, s3

\* The servers that join are interchangeable.
Symmetric == Permutations({s2, s3})

=============================================================================
