---------------------------- MODULE MCSaaSDrain ----------------------------
(* SaaSDrain for TLC: liveness is checked in both runs, so no symmetry.    *)
EXTENDS SaaSDrain, TLC
=============================================================================
