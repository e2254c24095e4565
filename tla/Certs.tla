-------------------------------- MODULE Certs --------------------------------
(***************************************************************************)
(* How a certificate gets from the certificate daemon to a TLS handshake:  *)
(* run_acme_loop, store_cert and load_cert (certd/src/acme.rs), and        *)
(* NekoGuard's build_tls_config and its subscriber task                    *)
(* (nekoguard/src/main.rs).                                                *)
(*                                                                         *)
(* certd works through its domains, SETs what was issued and PUBLISHes the *)
(* domain.  A replica reads all certificates at start, subscribes, and     *)
(* reads all of them again for every message.  Each Redis command is a     *)
(* step of its own.  A failed command, a dropped connection, a refused     *)
(* issuance and a death are faults, and a run names how many it allows.    *)
(***************************************************************************)
EXTENDS Naturals, Sequences

CONSTANTS
    Replicas,      \* NekoGuard processes
    Domains,       \* the base domains of the configuration
    Lifetime,      \* 80 days, what certd writes into expires_at
    Margin,        \* 30 days, how early it renews
    Interval,      \* renewal_interval
    MaxCerts,      \* bound: certificates issued
    MaxFaults,     \* bound: faults
    MaxTime,       \* bound: the clock stops here
    None           \* no certificate

ASSUME CertsAssumption ==
    /\ Lifetime \in Nat /\ Margin \in Nat /\ Interval \in Nat
    /\ MaxCerts \in Nat /\ MaxFaults \in Nat /\ MaxTime \in Nat

ASSUME CertsNone == None \notin [no : Nat, exp : Nat]

VARIABLES
    now,           \* time, in the unit of the three spans
    pc,            \* certd: where run_acme_loop is
    first,         \* certd: whether it is in its first pass
    todo,          \* certd: domains left in this pass
    cur,           \* certd: the domain it works on
    cert,          \* certd: what was issued for it
    wake,          \* certd: the end of its sleep
    stored,        \* Redis: nekoguard:cert:<domain>
    sub,           \* per replica: where start-up and the subscriber task are
    link,          \* per replica: the subscription's connection
    inbox,         \* per replica: messages not yet taken from it
    keys,          \* per replica: keys listed and not yet read
    got,           \* per replica: the configuration being built
    certs,         \* per replica: the configuration in use
    missed,        \* history: per replica, domains with a read or a message
                   \* lost since it last listed the keys
    issued,        \* how many certificates were issued
    faults         \* how many faults there were

certdVars == <<pc, first, todo, cur, cert, wake, stored, issued>>
repVars == <<sub, link, inbox, keys, got, certs, missed>>
vars == <<now, certdVars, repVars, faults>>

Cert == [no : Nat, exp : Nat]

NoCerts == [d \in Domains |-> None]

TypeOK ==
    /\ now \in Nat
    /\ pc \in {"off", "next", "issue", "connect", "set", "publish", "sleep", "ended"}
    /\ first \in BOOLEAN
    /\ todo \subseteq Domains
    /\ cur \in Domains \cup {None}
    /\ cert \in Cert \cup {None}
    /\ wake \in Nat
    /\ stored \in [Domains -> Cert \cup {None}]
    /\ sub \in [Replicas -> {"off", "boot", "reload", "link", "on", "pause", "dead"}]
    /\ link \in [Replicas -> {"down", "deaf", "up"}]
    /\ inbox \in [Replicas -> Seq(Domains)]
    /\ keys \in [Replicas -> SUBSET Domains]
    /\ got \in [Replicas -> [Domains -> Cert \cup {None}]]
    /\ certs \in [Replicas -> [Domains -> Cert \cup {None}]]
    /\ missed \in [Replicas -> SUBSET Domains]
    /\ issued \in Nat
    /\ faults \in Nat
    /\ pc \in {"issue", "connect", "set", "publish"} => cur \in Domains
    /\ pc \in {"connect", "set", "publish"} => cert \in Cert

Init ==
    /\ now = 0
    /\ pc = "off" /\ first = TRUE /\ todo = {} /\ cur = None /\ cert = None /\ wake = 0
    /\ stored = NoCerts
    /\ sub = [r \in Replicas |-> "off"]
    /\ link = [r \in Replicas |-> "down"]
    /\ inbox = [r \in Replicas |-> <<>>]
    /\ keys = [r \in Replicas |-> {}]
    /\ got = [r \in Replicas |-> NoCerts]
    /\ certs = [r \in Replicas |-> NoCerts]
    /\ missed = [r \in Replicas |-> {}]
    /\ issued = 0
    /\ faults = 0

-----------------------------------------------------------------------------
Fault == faults < MaxFaults /\ faults' = faults + 1

NoFault == UNCHANGED faults

-----------------------------------------------------------------------------
(* certd.  Its account is created or found, or the loop ends with the error, *)
(* which nobody looks at: the task is gone and the HTTP server stays.        *)
CertdStart ==
    /\ pc = "off"
    /\ \/ pc' = "next" /\ first' = TRUE /\ todo' = Domains /\ NoFault
       \/ pc' = "ended" /\ UNCHANGED <<first, todo>> /\ Fault
    /\ UNCHANGED <<now, cur, cert, wake, stored, issued, repVars>>

(* Faulty: does not keep which domain it works on.                          *)
PickFirstForgets(d) ==
    /\ pc = "next" /\ first
    /\ d \in todo
    /\ pc' = "issue" /\ todo' = todo \ {d}
    /\ UNCHANGED <<now, first, cur, cert, wake, stored, issued, repVars, faults>>

(* The first pass asks for every domain, stored or not.                     *)
PickFirst(d) ==
    /\ pc = "next" /\ first
    /\ d \in todo
    /\ pc' = "issue" /\ cur' = d /\ todo' = todo \ {d}
    /\ UNCHANGED <<now, first, cert, wake, stored, issued, repVars, faults>>

(* Faulty: renews what has expired already.                                 *)
DueTooLate(d) == stored[d] # None /\ stored[d].exp < now

(* load_cert finds it, and it runs out within the margin.                   *)
Due(d) == stored[d] # None /\ stored[d].exp < now + Margin

(* Later passes renew what is due.  A failed GET reads as no certificate,   *)
(* and a domain without one is passed over.                                 *)
Check(d) ==
    /\ pc = "next" /\ ~first
    /\ d \in todo
    /\ todo' = todo \ {d}
    /\ \/ Due(d) /\ pc' = "issue" /\ cur' = d /\ NoFault
       \/ ~Due(d) /\ UNCHANGED <<pc, cur>> /\ NoFault
       \/ UNCHANGED <<pc, cur>> /\ Fault
    /\ UNCHANGED <<now, first, cert, wake, stored, issued, repVars>>

(* issue_cert came through.  The first pass now opens a connection; a later *)
(* one has one.                                                             *)
IssueDone ==
    /\ pc = "issue"
    /\ issued < MaxCerts
    /\ issued' = issued + 1
    /\ pc' = IF first THEN "connect" ELSE "set"
    /\ cert' = [no |-> issued + 1, exp |-> now + Lifetime]
    /\ UNCHANGED <<now, first, todo, cur, wake, stored, repVars, faults>>

(* issue_cert failed at one of its requests or polls: logged, next domain.  *)
IssueFails ==
    /\ pc = "issue"
    /\ Fault
    /\ pc' = "next" /\ cur' = None
    /\ UNCHANGED <<now, first, todo, cert, wake, stored, issued, repVars>>

(* Redis is reached, or the loop ends and the new certificate with it.      *)
Connect ==
    /\ pc = "connect"
    /\ \/ pc' = "set" /\ NoFault
       \/ pc' = "ended" /\ Fault
    /\ UNCHANGED <<now, first, todo, cur, cert, wake, stored, issued, repVars>>

(* store_cert: a failed SET is not noticed.                                 *)
StoreCert ==
    /\ pc = "set"
    /\ \/ stored' = [stored EXCEPT ![cur] = cert] /\ NoFault
       \/ UNCHANGED stored /\ Fault
    /\ pc' = "publish"
    /\ UNCHANGED <<now, first, todo, cur, cert, wake, issued, repVars>>

(* The replicas in R get a message about d, and nobody else ever will.      *)
Deliver(R, d) ==
    /\ inbox' = [r \in Replicas |-> IF r \in R THEN Append(inbox[r], d) ELSE inbox[r]]
    /\ missed' = [r \in Replicas |-> IF r \in R THEN missed[r] ELSE missed[r] \cup {d}]

(* PUBLISH reaches those subscribed at this moment; a failed one reaches    *)
(* nobody and is not noticed.                                               *)
Publish ==
    /\ pc = "publish"
    /\ \/ Deliver({r \in Replicas : link[r] = "up"}, cur) /\ NoFault
       \/ Deliver({}, cur) /\ Fault
    /\ pc' = "next" /\ cur' = None /\ cert' = None
    /\ UNCHANGED <<now, first, todo, wake, stored, issued, sub, link, keys, got, certs>>

(* The pass is over: sleep for the interval.                                *)
Sleep ==
    /\ pc = "next" /\ todo = {}
    /\ pc' = "sleep" /\ wake' = now + Interval
    /\ UNCHANGED <<now, first, todo, cur, cert, stored, issued, repVars, faults>>

(* A renewal pass begins with a connection, or the loop ends here.          *)
Wake ==
    /\ pc = "sleep" /\ now >= wake
    /\ \/ pc' = "next" /\ first' = FALSE /\ todo' = Domains /\ NoFault
       \/ pc' = "ended" /\ UNCHANGED <<first, todo>> /\ Fault
    /\ UNCHANGED <<now, cur, cert, wake, stored, issued, repVars>>

(* certd dies, or is restarted after its loop ended.  What it had stored    *)
(* and not announced stays so.                                              *)
CertdCrash ==
    /\ pc # "off"
    /\ Fault
    /\ pc' = "off" /\ first' = TRUE /\ todo' = {} /\ cur' = None /\ cert' = None /\ wake' = 0
    /\ missed' = [r \in Replicas |->
                    IF pc = "publish" THEN missed[r] \cup {cur} ELSE missed[r]]
    /\ UNCHANGED <<now, stored, issued, sub, link, inbox, keys, got, certs>>

-----------------------------------------------------------------------------
(* NekoGuard: build_tls_config begins with KEYS; when that fails it goes on *)
(* with no keys at all.                                                     *)
ReadKeys(r) ==
    /\ got' = [got EXCEPT ![r] = NoCerts]
    /\ \/ /\ NoFault
          /\ keys' = [keys EXCEPT ![r] = {d \in Domains : stored[d] # None}]
          /\ missed' = [missed EXCEPT ![r] = {}]
       \/ /\ Fault
          /\ keys' = [keys EXCEPT ![r] = {}]
          /\ missed' = [missed EXCEPT ![r] = Domains]

(* Start-up reads the certificates before it subscribes.                    *)
Boot(r) ==
    /\ sub[r] = "off"
    /\ sub' = [sub EXCEPT ![r] = "boot"]
    /\ ReadKeys(r)
    /\ UNCHANGED <<now, certdVars, link, inbox, certs>>

(* GET of one key; a failure leaves the domain out.                         *)
GetCert(r, d) ==
    /\ d \in keys[r]
    /\ keys' = [keys EXCEPT ![r] = @ \ {d}]
    /\ \/ /\ NoFault
          /\ got' = [got EXCEPT ![r][d] = stored[d]]
          /\ UNCHANGED missed
       \/ /\ Fault
          /\ missed' = [missed EXCEPT ![r] = @ \cup {d}]
          /\ UNCHANGED got
    /\ UNCHANGED <<now, certdVars, sub, link, inbox, certs>>

(* Faulty: messages that came in during a reload are taken as answered by it. *)
SwapDrains(r) ==
    /\ sub[r] \in {"boot", "reload"} /\ keys[r] = {}
    /\ sub' = [sub EXCEPT ![r] = IF @ = "boot" THEN "link" ELSE "on"]
    /\ certs' = [certs EXCEPT ![r] = got[r]]
    /\ inbox' = [inbox EXCEPT ![r] = <<>>]
    /\ UNCHANGED <<now, certdVars, link, keys, got, missed, faults>>

(* Faulty: the configuration is in use before it is complete.               *)
SwapEarly(r) ==
    /\ sub[r] \in {"boot", "reload"}
    /\ sub' = [sub EXCEPT ![r] = IF @ = "boot" THEN "link" ELSE "on"]
    /\ certs' = [certs EXCEPT ![r] = got[r]]
    /\ UNCHANGED <<now, certdVars, link, inbox, keys, got, missed, faults>>

(* The new configuration replaces the old one as a whole.                   *)
Swap(r) ==
    /\ sub[r] \in {"boot", "reload"} /\ keys[r] = {}
    /\ sub' = [sub EXCEPT ![r] = IF @ = "boot" THEN "link" ELSE "on"]
    /\ certs' = [certs EXCEPT ![r] = got[r]]
    /\ UNCHANGED <<now, certdVars, link, inbox, keys, got, missed, faults>>

(* The subscriber connects and subscribes.  A refused SUBSCRIBE is ignored, *)
(* and the task listens to a connection on which nothing comes.             *)
Subscribe(r) ==
    /\ sub[r] = "link"
    /\ \/ sub' = [sub EXCEPT ![r] = "on"] /\ link' = [link EXCEPT ![r] = "up"] /\ NoFault
       \/ sub' = [sub EXCEPT ![r] = "on"] /\ link' = [link EXCEPT ![r] = "deaf"] /\ Fault
       \/ sub' = [sub EXCEPT ![r] = "pause"] /\ UNCHANGED link /\ Fault
    /\ UNCHANGED <<now, certdVars, inbox, keys, got, certs, missed>>

(* Faulty: the message is taken and nothing is read.                        *)
ReceiveIgnores(r) ==
    /\ sub[r] = "on" /\ inbox[r] # <<>>
    /\ inbox' = [inbox EXCEPT ![r] = Tail(@)]
    /\ UNCHANGED <<now, certdVars, sub, link, keys, got, certs, missed, faults>>

(* A message: read everything again over a connection of its own.           *)
Receive(r) ==
    /\ sub[r] = "on" /\ inbox[r] # <<>>
    /\ inbox' = [inbox EXCEPT ![r] = Tail(@)]
    /\ sub' = [sub EXCEPT ![r] = "reload"]
    /\ ReadKeys(r)
    /\ UNCHANGED <<now, certdVars, link, certs>>

(* When there is no connection to be had, expect ends the task.             *)
ReceivePanics(r) ==
    /\ sub[r] = "on" /\ inbox[r] # <<>>
    /\ Fault
    /\ sub' = [sub EXCEPT ![r] = "dead"]
    /\ link' = [link EXCEPT ![r] = "down"]
    /\ inbox' = [inbox EXCEPT ![r] = <<>>]
    /\ missed' = [missed EXCEPT ![r] = Domains]
    /\ UNCHANGED <<now, certdVars, keys, got, certs>>

(* The subscription's connection drops, and messages on their way with it.  *)
Disconnect(r) ==
    /\ link[r] # "down"
    /\ Fault
    /\ link' = [link EXCEPT ![r] = "down"]
    /\ \E n \in 0..Len(inbox[r]) :
          /\ inbox' = [inbox EXCEPT ![r] = SubSeq(@, 1, n)]
          /\ missed' = [missed EXCEPT ![r] =
                          @ \cup {inbox[r][i] : i \in n + 1 .. Len(inbox[r])}]
    /\ UNCHANGED <<now, certdVars, sub, keys, got, certs>>

(* The stream is over: wait five seconds, ...                               *)
Pause(r) ==
    /\ sub[r] = "on" /\ link[r] = "down" /\ inbox[r] = <<>>
    /\ sub' = [sub EXCEPT ![r] = "pause"]
    /\ UNCHANGED <<now, certdVars, link, inbox, keys, got, certs, missed, faults>>

(* ... and subscribe again, without reading what changed meanwhile.         *)
Resume(r) ==
    /\ sub[r] = "pause"
    /\ sub' = [sub EXCEPT ![r] = "link"]
    /\ UNCHANGED <<now, certdVars, link, inbox, keys, got, certs, missed, faults>>

ReplicaCrash(r) ==
    /\ sub[r] # "off"
    /\ Fault
    /\ sub' = [sub EXCEPT ![r] = "off"]
    /\ link' = [link EXCEPT ![r] = "down"]
    /\ inbox' = [inbox EXCEPT ![r] = <<>>]
    /\ keys' = [keys EXCEPT ![r] = {}]
    /\ got' = [got EXCEPT ![r] = NoCerts]
    /\ certs' = [certs EXCEPT ![r] = NoCerts]
    /\ missed' = [missed EXCEPT ![r] = {}]
    /\ UNCHANGED <<now, certdVars>>

-----------------------------------------------------------------------------
(* Issuing takes minutes and the clock counts days: time passes in the sleep. *)
Tick ==
    /\ now < MaxTime
    /\ pc = "ended" \/ (pc = "sleep" /\ now < wake)
    /\ now' = now + 1
    /\ UNCHANGED <<certdVars, repVars, faults>>

CertdStep ==
    \/ CertdStart \/ (\E d \in Domains : PickFirst(d) \/ Check(d))
    \/ IssueDone \/ IssueFails \/ Connect \/ StoreCert \/ Publish \/ Sleep \/ Wake

ReplicaStep(r) ==
    \/ Boot(r) \/ (\E d \in Domains : GetCert(r, d)) \/ Swap(r)
    \/ Subscribe(r) \/ Receive(r) \/ ReceivePanics(r) \/ Pause(r) \/ Resume(r)

Next ==
    \/ CertdStep \/ CertdCrash
    \/ \E r \in Replicas : ReplicaStep(r) \/ Disconnect(r) \/ ReplicaCrash(r)
    \/ Tick

Spec == Init /\ [][Next]_vars

(* Both are tasks of their own on tokio's runtime, and every await in them  *)
(* ends, in an answer or an error.                                          *)
FairSpec == Spec /\ WF_vars(CertdStep) /\ \A r \in Replicas : WF_vars(ReplicaStep(r))

-----------------------------------------------------------------------------
(* A replica holds exactly what Redis stores as soon as it has worked off   *)
(* its messages, whatever was stored and announced while it was reading,    *)
(* unless a read of its own or an announcement was lost to it since it last *)
(* listed the keys.                                                         *)
SettledIsCurrent ==
    \A r \in Replicas, d \in Domains :
        /\ sub[r] \in {"link", "on", "pause"}
        /\ d \notin missed[r]
        /\ \A i \in 1..Len(inbox[r]) : inbox[r][i] # d
        /\ ~(pc = "publish" /\ cur = d)
        => certs[r][d] = stored[d]

(* A running replica never loses a certificate it serves to a reload, also  *)
(* one that overlaps with certd's writes, unless a read of that reload      *)
(* failed or a message was lost during it.                                  *)
HeldUnlessLost ==
    [][\A r \in Replicas, d \in Domains :
          certs[r][d] # None /\ certs'[r][d] = None =>
              sub'[r] = "off" \/ d \in missed[r]]_vars

(* An announced update is taken up: it is served, or replaced by a later    *)
(* one that is, unless the replica or its subscriber dies or a read fails.  *)
PickedUp ==
    \A r \in Replicas, d \in Domains :
        (\E i \in 1..Len(inbox[r]) : inbox[r][i] = d) ~>
            (certs[r][d] = stored[d] \/ d \in missed[r] \/ sub[r] \in {"off", "dead"})

=============================================================================
