------------------------------- MODULE MCCerts -------------------------------
(* Certs for TLC: replicas and domains as sets of model values.             *)
EXTENDS Certs

CONSTANTS r1, d1, d2

OneReplica == {r1}
TwoDomains == {d1, d2}

=============================================================================
