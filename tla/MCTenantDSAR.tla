---------------------------- MODULE MCTenantDSAR ----------------------------
(* TenantDSAR for TLC.  Workers are interchangeable; members and requests    *)
(* are where every member is a learner.                                      *)
EXTENDS TenantDSAR, TLC

Symmetric == Permutations(Workers)
AllSymmetric == Symmetric \cup Permutations(Members) \cup Permutations(Requests)
=============================================================================
