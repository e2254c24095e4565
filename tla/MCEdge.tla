-------------------------------- MODULE MCEdge --------------------------------
(* Small fleets for Edge: one replica's clock may run ahead of the others'.  *)
EXTENDS Edge, TLC

CONSTANT r1

\* r1's SystemTime runs one second ahead
OneAhead == [r \in Replicas |-> IF r = r1 THEN 1 ELSE 0]

(* No step reads the last reply.  Replies to which the properties of a run  *)
(* (its types aside) are blind make no difference between states.           *)
SeenReply == <<keyVars, now, deadline, expiry, taken, waiting, cookies, held,
               IF resp.kind \in {"proxied", "interstitial"} THEN resp ELSE NoReply>>
SeenAdmission == <<keyVars, now, deadline, expiry, taken, waiting, cookies, held, Admitted>>

Symmetry == Permutations(Secrets) \cup Permutations(Challenges)
AddressSymmetry == Symmetry \cup Permutations(Ips)    \* sound only with no whitelist

=============================================================================
