-------------------------- MODULE MCMutationSession --------------------------
(* Instances of MutationSession for TLC. With MaxRequests = 1 the second of    *)
(* two requests meets the recycling after the first in each of its phases.     *)
EXTENDS MutationSession, TLC

CONSTANTS r1, r2, r3

Symmetric == Permutations({r1, r2, r3} \cap Requests)
=============================================================================
