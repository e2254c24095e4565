------------------------------ MODULE MCIssuance ------------------------------
(* certd alone, with two domains, each ordered with its wildcard.           *)
EXTENDS Issuance

NoReplica == {}

===============================================================================
