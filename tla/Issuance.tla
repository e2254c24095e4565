------------------------------ MODULE Issuance ------------------------------
(***************************************************************************)
(* Certs with issue_cert in full (certd/src/acme.rs): an order at the ACME *)
(* server for a domain and its wildcard, whose two authorizations are both *)
(* answered by a TXT record of the one name _acme-challenge.<domain>; the  *)
(* records are set at Cloudflare, the challenges responded to, the order   *)
(* polled, finalized and its certificate fetched.                          *)
(*                                                                         *)
(* The value of a record is the authorization it answers, or Old when it   *)
(* is left over from another order.  The server validates what was         *)
(* responded to, or rejects it, or does neither, at its own time.  A       *)
(* failed order is one of Certs's faults: when none is left, none happens. *)
(***************************************************************************)
EXTENDS Certs

CONSTANTS
    Auths,         \* the authorizations of an order
    Old,           \* a record of another order
    MaxPolls       \* 30, the polls of an order, and again of a certificate

(* What certd issues is not due at once: 30 days of 80.                     *)
ASSUME IssuanceAssumption ==
    /\ MaxPolls \in Nat \ {0} /\ Old \notin Auths
    /\ Margin <= Lifetime

VARIABLES
    opc,           \* where issue_cert is
    left,          \* the authorizations this loop has yet to come to
    responded,     \* challenges responded to
    polls,         \* attempts made
    ca,            \* the server's view of the order
    dns,           \* the TXT records of _acme-challenge.<cur>
    outage         \* history: the time that passed while certd's loop stood still

orderVars == <<opc, left, responded, polls, ca, dns>>
allVars == <<vars, orderVars, outage>>

OrderTypeOK ==
    /\ opc \in {"idle", "auths", "delete", "create", "respond", "poll",
                "finalize", "fetch", "hung"}
    /\ left \subseteq Auths /\ responded \subseteq Auths
    /\ polls \in 0..MaxPolls
    /\ ca \in {"pending", "ready", "invalid"}
    /\ dns \subseteq Auths \cup {Old}
    /\ outage \in Nat
    /\ opc # "idle" => pc = "issue"

OrderInit ==
    /\ opc = "idle" /\ left = {} /\ responded = {} /\ polls = 0 /\ ca = "pending"
    /\ dns = {} /\ outage = 0

(* The order is over, one way or the other; its records stay.               *)
OrderOver ==
    /\ opc' = "idle" /\ left' = {} /\ responded' = {} /\ polls' = 0 /\ ca' = "pending"
    /\ dns' = IF dns = {} THEN {} ELSE {Old}

(* A failure is yet allowed to happen.                                      *)
MayFail == faults < MaxFaults

-----------------------------------------------------------------------------
(* Step 1: newOrder names the server's authorizations.                      *)
NewOrder ==
    /\ pc = "issue" /\ opc = "idle"
    /\ opc' = "auths" /\ left' = Auths
    /\ UNCHANGED <<responded, polls, ca, dns, vars>>

(* One pass over what is left; after the last the next stage begins with    *)
(* all of them again.                                                       *)
Through(a, next) ==
    /\ a \in left
    /\ left' = IF left = {a} THEN Auths ELSE left \ {a}
    /\ opc' = IF left = {a} THEN next ELSE opc

(* Step 2, first pass: each authorization and the value it wants.           *)
Authorization(a) ==
    /\ opc = "auths" /\ Through(a, "delete")
    /\ UNCHANGED <<responded, polls, ca, dns, vars>>

(* set_cloudflare_txt lists what the name has and deletes it; a list or a   *)
(* delete that fails is passed over.                                        *)
DeleteTxt(kept) ==
    /\ opc = "delete" /\ kept \subseteq dns
    /\ opc' = "create" /\ dns' = kept
    /\ UNCHANGED <<left, responded, polls, ca, vars>>

(* Faulty: the name is cleared for each value.                              *)
CreateTxtAlone(a) ==
    /\ opc = "create" /\ Through(a, "respond")
    /\ dns' = {a}
    /\ UNCHANGED <<responded, polls, ca, vars>>

(* ... and creates one record per value.                                    *)
CreateTxt(a) ==
    /\ opc = "create" /\ Through(a, "respond")
    /\ dns' = dns \cup {a}
    /\ UNCHANGED <<responded, polls, ca, vars>>

(* These requests have no time-out (reqwest::Client::new): one may never    *)
(* be answered.                                                             *)
Hang ==
    /\ opc \in {"delete", "create"} /\ Fault
    /\ opc' = "hung"
    /\ UNCHANGED <<left, responded, polls, ca, dns, now, certdVars, repVars>>

(* Second pass, after the wait for DNS: tell the server to look.            *)
Respond(a) ==
    /\ opc = "respond" /\ Through(a, "poll")
    /\ responded' = responded \cup {a}
    /\ UNCHANGED <<polls, ca, dns, vars>>

(* The server has found every record, or not found one.                     *)
Validate ==
    /\ ca = "pending" /\ responded = Auths
    /\ \/ Auths \subseteq dns /\ ca' = "ready"
       \/ MayFail /\ ca' = "invalid"
    /\ UNCHANGED <<opc, left, responded, polls, dns, vars>>

(* Faulty: polls until the order is ready.                                  *)
PollOrderOn ==
    /\ opc = "poll" /\ ca # "invalid"
    /\ opc' = IF ca = "ready" THEN "finalize" ELSE "poll"
    /\ UNCHANGED <<left, responded, polls, ca, dns, vars>>

(* Step 4: ready ends the polls, and so does the last of them.              *)
PollOrder ==
    /\ opc = "poll" /\ ca # "invalid"
    /\ \/ ca = "ready" /\ opc' = "finalize" /\ polls' = 0
       \/ /\ ca = "pending" /\ MayFail
          /\ opc' = IF polls + 1 < MaxPolls THEN "poll" ELSE "finalize"
          /\ polls' = IF polls + 1 < MaxPolls THEN polls + 1 ELSE 0
    /\ UNCHANGED <<left, responded, ca, dns, vars>>

(* Step 5: an order that is ready is finalized; the answer has its URL.     *)
Finalize ==
    /\ opc = "finalize" /\ ca = "ready"
    /\ opc' = "fetch"
    /\ UNCHANGED <<left, responded, polls, ca, dns, vars>>

(* Step 9: the certificate is there, ...                                    *)
FetchCert == opc = "fetch" /\ polls < MaxPolls /\ IssueDone /\ OrderOver

(* ... or not yet.                                                          *)
FetchAgain ==
    /\ opc = "fetch" /\ polls < MaxPolls /\ MayFail
    /\ polls' = polls + 1
    /\ UNCHANGED <<opc, left, responded, ca, dns, vars>>

(* A request of issue_cert fails, or its answer lacks what is looked for.   *)
RequestFails == opc \notin {"idle", "hung"} /\ IssueFails /\ OrderOver

(* The order is found invalid, has no certificate since it was finalized    *)
(* before it was ready, or its certificate did not come.                    *)
OrderFails ==
    /\ \/ opc = "poll" /\ ca = "invalid"
       \/ opc = "finalize" /\ ca # "ready"
       \/ opc = "fetch" /\ polls = MaxPolls
    /\ IssueFails /\ OrderOver

OrderStep ==
    \/ NewOrder
    \/ \E a \in Auths : Authorization(a) \/ CreateTxt(a) \/ Respond(a)
    \/ (\E kept \in SUBSET dns : DeleteTxt(kept)) \/ PollOrder
    \/ Finalize \/ FetchCert \/ FetchAgain \/ OrderFails

(* What run_acme_loop does around it.                                       *)
LoopStep ==
    /\ \/ CertdStart \/ (\E d \in Domains : PickFirst(d) \/ Check(d))
       \/ Connect \/ StoreCert \/ Publish \/ Sleep \/ Wake
    /\ UNCHANGED orderVars

(* Issuing takes minutes and the clock counts days: time passes in the      *)
(* sleep, and while the loop is not there, has ended or hangs.              *)
TimePasses ==
    /\ now < MaxTime /\ now' = now + 1
    /\ \/ pc = "sleep" /\ now < wake /\ UNCHANGED outage
       \/ pc \in {"off", "ended"} /\ outage' = outage + 1
       \/ opc = "hung" /\ outage' = outage + 1
    /\ UNCHANGED <<certdVars, repVars, faults, orderVars>>

CertdWorks == OrderStep \/ RequestFails \/ Validate \/ Hang \/ LoopStep

OrderNext ==
    \/ (CertdWorks \/ (CertdCrash /\ OrderOver)) /\ UNCHANGED outage
    \/ TimePasses

(* certd's one task goes on.  The server may take its time for ever, but    *)
(* for that one fault, too, must be left.                                   *)
OrderSpec ==
    /\ Init /\ OrderInit
    /\ [][OrderNext]_allVars
    /\ WF_<<vars, orderVars>>(OrderStep)
    /\ WF_<<vars, orderVars>>(~MayFail /\ Validate)

-----------------------------------------------------------------------------
(* No challenge is responded to without its record: the value of the domain *)
(* is still there when that of the wildcard, under the same name, has been  *)
(* set, whatever was left over and whatever could not be deleted.           *)
AnswerableChallenges == responded \subseteq dns

(* A stored certificate does not run out while certd sleeps from pass to    *)
(* pass, as long as its margin has room for the passes lost to failures and *)
(* for the time its loop stood still.                                       *)
RenewedInTime ==
    pc = "sleep" /\ (faults + 1) * Interval + outage <= Margin =>
        \A d \in Domains : stored[d] # None => now <= stored[d].exp

(* An order comes to its end, also when the server never decides, unless a  *)
(* request to Cloudflare hangs.                                             *)
IssueEnds == pc = "issue" ~> (pc # "issue" \/ opc = "hung")

=============================================================================
