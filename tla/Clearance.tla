------------------------------ MODULE Clearance ------------------------------
(***************************************************************************)
(* What NekoGuard promises a site, with no replicas, maps, keys or cookies *)
(* in it: a challenge is issued once and is good for one solve; a solve    *)
(* clears the address it came from for SessionTtl; no request enters       *)
(* without a standing clearance, except from the whitelist, and only what  *)
(* entered is let through to the origin, if it is.  Exempt, and not spoken *)
(* of here, are the paths the site opens to all and WebSocket upgrades.    *)
(***************************************************************************)
EXTENDS Integers

CONSTANTS
    Challenges,    \* the challenges that can be issued
    Ips,           \* client addresses
    Whitelist,     \* addresses let through without a clearance
    ChallengeTtl,  \* how long a challenge may be solved
    SessionTtl,    \* how long a clearance stands
    Tolerance,     \* how far the replicas' clocks may differ
    Nobody         \* no address

VARIABLES
    now,           \* true time
    deadline,      \* per challenge: until when it may be solved
    status,        \* per challenge: "unissued", "open", "spent"
    grants,        \* clearances given: [chal, ip, born]
    entered,       \* requests that may yet be let through: [ip, at]
    admitted       \* the request the last step let through, or Nobody

vars == <<now, deadline, status, grants, entered, admitted>>

Grant == [chal : Challenges, ip : Ips, born : Nat]

Init ==
    /\ now = 0
    /\ deadline = [c \in Challenges |-> -1]
    /\ status = [c \in Challenges |-> "unissued"]
    /\ grants = {}
    /\ entered = {}
    /\ admitted = Nobody

(* Time passes.                                                             *)
Advance ==
    /\ now' = now + 1
    /\ admitted' = Nobody
    /\ UNCHANGED <<deadline, status, grants, entered>>

(* A visitor is handed a challenge nobody has seen before.                  *)
Issue(c) ==
    /\ status[c] = "unissued"
    /\ status' = [status EXCEPT ![c] = "open"]
    /\ deadline' = [deadline EXCEPT ![c] = now + ChallengeTtl]
    /\ admitted' = Nobody
    /\ UNCHANGED <<now, grants, entered>>

(* An open challenge is solved from ip: spent, and ip is cleared.           *)
Redeem(c, ip) ==
    /\ status[c] = "open"
    /\ now <= deadline[c]
    /\ status' = [status EXCEPT ![c] = "spent"]
    /\ grants' = grants \cup {[chal |-> c, ip |-> ip, born |-> now]}
    /\ admitted' = Nobody
    /\ UNCHANGED <<now, deadline, entered>>

(* Open challenges are given up: tried and failed, expired, or forgotten.   *)
(* So are requests that entered: limited, without an upstream, or forgotten. *)
GiveUp(S, T) ==
    /\ \A c \in S : status[c] = "open"
    /\ status' = [c \in Challenges |-> IF c \in S THEN "spent" ELSE status[c]]
    /\ entered' = entered \ T
    /\ admitted' = Nobody
    /\ UNCHANGED <<now, deadline, grants>>

Cleared(ip) == \E g \in grants : g.ip = ip /\ now <= g.born + SessionTtl + Tolerance

(* A request from ip, which stands cleared, enters.                         *)
Enter(ip) ==
    /\ ip \in Whitelist \/ Cleared(ip)
    /\ entered' = entered \cup {[ip |-> ip, at |-> now]}
    /\ admitted' = Nobody
    /\ UNCHANGED <<now, deadline, status, grants>>

(* A request that entered reaches the origin; others like it may be left.   *)
Admit(e) ==
    /\ e \in entered
    /\ admitted' = e
    /\ entered' = entered \/ entered' = entered \ {e}
    /\ UNCHANGED <<now, deadline, status, grants>>

Next ==
    \/ Advance
    \/ \E c \in Challenges : Issue(c)
    \/ \E c \in Challenges, ip \in Ips : Redeem(c, ip)
    \/ \E S \in SUBSET Challenges, T \in SUBSET entered : GiveUp(S, T)
    \/ \E ip \in Ips : Enter(ip)
    \/ \E e \in entered : Admit(e)

Spec == Init /\ [][Next]_vars

=============================================================================
