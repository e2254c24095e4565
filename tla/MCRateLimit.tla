------------------------------ MODULE MCRateLimit ------------------------------
(* Small buckets for RateLimit.  A second is two ticks, so that a poll can    *)
(* come before a whole token has accrued.                                     *)
EXTENDS RateLimit, TLC

Symmetry == Permutations(Replicas)

=============================================================================
