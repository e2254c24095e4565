--------------------------------- MODULE Edge ---------------------------------
(***************************************************************************)
(* The request path of NekoGuard: handle (nekoguard/src/main.rs) with the  *)
(* challenge map of pow.rs and the sealed cookies of session.rs, in a      *)
(* fleet of replicas that start, crash and share only the sealing key      *)
(* (module SessionKey).                                                    *)
(*                                                                         *)
(* Each replica keeps its own challenge map; a verification takes its      *)
(* entry out of the map in one step and judges it in a later one, so       *)
(* verifications on the threads of one process interleave with each other, *)
(* with the sweep, with time and with a crash.  So does a request that has *)
(* been checked and awaits the rate limiter.  A cookie is the record       *)
(* sealed inside it.  The rate limiter's verdict is left open here (module *)
(* RateLimit computes it), and so is whether the Host has an upstream.     *)
(*                                                                         *)
(* Two ways to the origin are open to everyone: a path the configuration   *)
(* exempts, and a WebSocket upgrade, which is relayed before handle.  The  *)
(* promises below are about what handle forwards off the exempt paths.     *)
(***************************************************************************)
EXTENDS SessionKey, Integers

CONSTANTS
    Ips,           \* client addresses
    Perm,          \* the permanent whitelist
    Challenges,    \* the random challenges new_challenge can draw
    ChallengeTtl,  \* CHALLENGE_TTL
    SessionTtl,    \* session.ttl
    Skew,          \* per replica: how far its SystemTime runs ahead
    Tolerance,     \* bound on the difference of two replicas' SystemTime
    MaxWaiting,    \* bound: requests that await the rate limiter
    MaxTime,       \* bound: the clock stops here
    None           \* no address, no challenge, no cookie

ASSUME EdgeAssumption ==
    /\ Perm \subseteq Ips
    /\ ChallengeTtl \in Nat
    /\ SessionTtl \in Nat
    /\ MaxTime \in Nat /\ MaxWaiting \in Nat
    /\ Tolerance \in Nat
    /\ Skew \in [Replicas -> Nat]
    /\ \A r, q \in Replicas : Skew[r] <= Skew[q] + Tolerance
    /\ None \notin Ips \cup Challenges

VARIABLES
    now,           \* true time
    deadline,      \* history: per challenge, when it expires; Absent if not drawn
    expiry,        \* MAP: per replica and challenge, its expiry or Absent
    taken,         \* verifications between MAP.remove and their reply
    waiting,       \* requests between their check and the limiter's answer
    cookies,       \* the session cookies visitors hold
    resp,          \* the reply the last step sent
    held           \* history: challenges handed out by a process that still
                   \* lives, not yet sent in by the visitor

edgeVars == <<now, deadline, expiry, taken, waiting, cookies, resp, held>>
vars == <<keyVars, edgeVars>>

Absent == -1

Check == [rep : Replicas, chal : Challenges, exp : Nat, good : BOOLEAN, ip : Ips]

(* A request that may pass; at, history, is when it was checked.            *)
Request == [rep : Replicas, ip : Ips, at : Nat]

Cookie == [key : Secrets \cup {Blank}, ip : Ips, exp : Nat,
           chal : Challenges, born : Nat]      \* chal and born are history

Held == [rep : Replicas, chal : Challenges]

Kinds == {"none", "local", "challenge", "bad_request", "forbidden", "verified",
          "proxied", "no_upstream", "limited", "interstitial", "relayed"}

Reply == [kind : Kinds, ip : Ips \cup {None}, cookie : Cookie \cup {None},
          bypass : BOOLEAN, at : Nat]          \* at is history

NoReply == [kind |-> "none", ip |-> None, cookie |-> None, bypass |-> FALSE, at |-> 0]

Send(kind) == resp' = [NoReply EXCEPT !.kind = kind]

TypeOK ==
    /\ KeyTypeOK
    /\ now \in 0..MaxTime
    /\ deadline \in [Challenges -> Nat \cup {Absent}]
    /\ expiry \in [Replicas -> [Challenges -> Nat \cup {Absent}]]
    /\ taken \in SUBSET Check
    /\ waiting \in SUBSET Request
    /\ cookies \in SUBSET Cookie
    /\ resp \in Reply
    /\ held \in SUBSET Held

Init ==
    /\ KeyInit
    /\ now = 0
    /\ deadline = [c \in Challenges |-> Absent]
    /\ expiry = [r \in Replicas |-> [c \in Challenges |-> Absent]]
    /\ taken = {}
    /\ waiting = {}
    /\ cookies = {}
    /\ resp = NoReply
    /\ held = {}

-----------------------------------------------------------------------------
(* SystemTime::now() as replica r reads it.                                 *)
Wall(r) == now + Skew[r]

(* Faulty: the fallback to the peer address is missing.                     *)
RealIpHeaderOnly(header, peer) == header

(* X-Real-IP when a front proxy sent one, else the TCP peer.                *)
RealIp(header, peer) == IF header = None THEN peer ELSE header

(* The addresses a request can come to carry.                               *)
RealIps == {RealIp(header, peer) : header \in Ips \cup {None}, peer \in Ips}

(* pow::new_challenge: 16 random bytes never drawn before, live for the TTL. *)
NewChallenge(r, c) ==
    /\ deadline[c] = Absent
    /\ deadline' = [deadline EXCEPT ![c] = now + ChallengeTtl]
    /\ expiry' = [expiry EXCEPT ![r][c] = now + ChallengeTtl]
    /\ held' = held \cup {[rep |-> r, chal |-> c]}

(* create_cookie: the address and expiry, sealed with the replica's key.    *)
CreateCookie(r, ip, c) ==
    [key |-> key[r], ip |-> ip, exp |-> Wall(r) + SessionTtl,
     chal |-> c, born |-> now]

(* Faulty: the address in the cookie is not compared.                       *)
VerifyCookieAnyIp(r, cookie, ip) ==
    /\ cookie # None
    /\ cookie.key = key[r]
    /\ Wall(r) <= cookie.exp

(* verify_cookie on what the client sent; None stands for no cookie and for *)
(* any value this fleet never sealed, which does not decode or decrypt.     *)
VerifyCookie(r, cookie, ip) ==
    /\ cookie # None
    /\ cookie.key = key[r]
    /\ cookie.ip = ip
    /\ Wall(r) <= cookie.exp

Allowed(r, cookie, ip) == VerifyCookie(r, cookie, ip) \/ ip \in Perm

-----------------------------------------------------------------------------
(* GET /__ng/version, /__ng/assets/..., /__ng/favicon.ico: answered locally. *)
Local(r) ==
    /\ r \in Serving
    /\ Send("local")
    /\ UNCHANGED <<now, deadline, expiry, taken, waiting, cookies, held>>

(* GET /__ng/challenge: a challenge for a page that is already loaded.      *)
GetChallenge(r) ==
    /\ r \in Serving
    /\ \E c \in Challenges : NewChallenge(r, c)
    /\ Send("challenge")
    /\ UNCHANGED <<now, taken, waiting, cookies>>

(* POST /__ng/verify with a body that is too long or does not parse.        *)
VerifyBadBody(r) ==
    /\ r \in Serving
    /\ Send("bad_request")
    /\ UNCHANGED <<now, deadline, expiry, taken, waiting, cookies, held>>

(* Faulty: looks the entry up and leaves it in the map.                     *)
VerifyTakeLeaves(r, c, good, ip) ==
    /\ r \in Serving
    /\ IF expiry[r][c] = Absent
         THEN /\ Send("forbidden")
              /\ UNCHANGED taken
         ELSE /\ taken' = taken \cup {[rep |-> r, chal |-> c, good |-> good,
                                       exp |-> expiry[r][c], ip |-> ip]}
              /\ resp' = NoReply
    /\ held' = {h \in held : h.chal # c}
    /\ UNCHANGED <<now, deadline, expiry, waiting, cookies>>

(* POST /__ng/verify, check_pow's first step.  MAP.remove takes the entry   *)
(* out before anything is judged; without an entry the reply is 403.  good  *)
(* says whether the nonce meets the target.                                 *)
VerifyTake(r, c, good, ip) ==
    /\ r \in Serving
    /\ IF expiry[r][c] = Absent
         THEN /\ Send("forbidden")
              /\ UNCHANGED <<expiry, taken>>
         ELSE /\ taken' = taken \cup {[rep |-> r, chal |-> c, good |-> good,
                                       exp |-> expiry[r][c], ip |-> ip]}
              /\ expiry' = [expiry EXCEPT ![r][c] = Absent]
              /\ resp' = NoReply
    /\ held' = {h \in held : h.chal # c}
    /\ UNCHANGED <<now, deadline, waiting, cookies>>

(* Faulty: a challenge is good for ever.                                    *)
AcceptsLate(v) == v.good

(* check_pow's verdict on the entry that was taken.                         *)
Accepts(v) == now <= v.exp /\ v.good

(* The rest of the verification: 403, or a fresh cookie for the address.    *)
VerifyReply(v) ==
    /\ taken' = taken \ {v}
    /\ IF Accepts(v)
         THEN /\ cookies' = cookies \cup {CreateCookie(v.rep, v.ip, v.chal)}
              /\ Send("verified")
         ELSE /\ Send("forbidden")
              /\ UNCHANGED cookies
    /\ UNCHANGED <<now, deadline, expiry, waiting, held>>

(* Any other request whose path matches a bypass pattern of the site or the *)
(* catch-all: forwarded unchecked and unlimited.                            *)
RequestBypass(r, ip) ==
    /\ r \in Serving
    /\ \E kind \in {"proxied", "no_upstream"} :
          resp' = [NoReply EXCEPT !.kind = kind, !.ip = ip, !.bypass = TRUE]
    /\ UNCHANGED <<now, deadline, expiry, taken, waiting, cookies, held>>

(* Any other request with a cookie that holds, or from a whitelisted        *)
(* address: it may pass, and waits for the Redis connection and the rate    *)
(* limiter's commands on it.                                                *)
RequestChecked(r, cookie, ip) ==
    /\ r \in Serving
    /\ Allowed(r, cookie, ip)
    /\ Cardinality(waiting) < MaxWaiting
    /\ waiting' = waiting \cup {[rep |-> r, ip |-> ip, at |-> now]}
    /\ resp' = NoReply
    /\ UNCHANGED <<now, deadline, expiry, taken, cookies, held>>

(* The limiter has answered.  What was checked is not checked again.        *)
RequestPasses(w) ==
    /\ waiting' = waiting \ {w}
    /\ \E kind \in {"proxied", "no_upstream", "limited"} :
          resp' = [NoReply EXCEPT !.kind = kind, !.ip = w.ip, !.at = w.at]
    /\ UNCHANGED <<now, deadline, expiry, taken, cookies, held>>

(* Any other request at all: the interstitial, with a challenge of its own. *)
RequestInterstitial(r, cookie, ip) ==
    /\ r \in Serving
    /\ ~Allowed(r, cookie, ip)
    /\ \E c \in Challenges : NewChallenge(r, c)
    /\ resp' = [NoReply EXCEPT !.kind = "interstitial", !.ip = ip, !.cookie = cookie]
    /\ UNCHANGED <<now, taken, waiting, cookies>>

Handle(r) ==
    \/ Local(r)
    \/ GetChallenge(r)
    \/ VerifyBadBody(r)
    \/ \E c \in Challenges, good \in BOOLEAN, ip \in RealIps : VerifyTake(r, c, good, ip)
    \/ \E v \in {t \in taken : t.rep = r} : VerifyReply(v)
    \/ \E cookie \in cookies \cup {None}, ip \in RealIps :
          RequestChecked(r, cookie, ip) \/ RequestInterstitial(r, cookie, ip)
    \/ \E ip \in RealIps : RequestBypass(r, ip)
    \/ \E w \in {v \in waiting : v.rep = r} : RequestPasses(w)

(* A connection whose first bytes ask for a WebSocket upgrade never gets to *)
(* handle: with a site for its Host it is relayed to the upstream (module   *)
(* Relay), with no cookie, whitelist or limit looked at; else it is closed. *)
Upgrade(r) ==
    /\ r \in Serving
    /\ Send("relayed") \/ resp' = NoReply
    /\ UNCHANGED <<now, deadline, expiry, taken, waiting, cookies, held>>

(* Faulty: retain with the comparison the wrong way round.                  *)
SweepInverted(r) ==
    /\ r \in Serving
    /\ expiry' = [expiry EXCEPT ![r] =
                    [c \in Challenges |-> IF now >= expiry[r][c] THEN expiry[r][c]
                                                                 ELSE Absent]]
    /\ resp' = NoReply
    /\ UNCHANGED <<now, deadline, taken, waiting, cookies, held>>

(* The sweep task: pow::sweep keeps what has not expired.                   *)
Sweep(r) ==
    /\ r \in Serving
    /\ expiry' = [expiry EXCEPT ![r] =
                    [c \in Challenges |-> IF now < expiry[r][c] THEN expiry[r][c]
                                                                ELSE Absent]]
    /\ resp' = NoReply
    /\ UNCHANGED <<now, deadline, taken, waiting, cookies, held>>

(* A process dies with its map and the requests it was serving.             *)
EdgeCrash(r) ==
    /\ Crash(r)
    /\ expiry' = [expiry EXCEPT ![r] = [c \in Challenges |-> Absent]]
    /\ taken' = {v \in taken : v.rep # r}
    /\ waiting' = {w \in waiting : w.rep # r}
    /\ held' = {h \in held : h.rep # r}
    /\ resp' = NoReply
    /\ UNCHANGED <<now, deadline, cookies>>

(* Start-up steps, and the loss of the Redis key.                           *)
KeyStep ==
    /\ LoseSecret \/ \E r \in Replicas : Start(r) \/ StartUp(r)
    /\ resp' = NoReply
    /\ UNCHANGED <<now, deadline, expiry, taken, waiting, cookies, held>>

Tick ==
    /\ now < MaxTime
    /\ now' = now + 1
    /\ resp' = NoReply
    /\ UNCHANGED <<deadline, expiry, taken, waiting, cookies, held>>

Next ==
    \/ KeyStep
    \/ \E r \in Replicas : EdgeCrash(r)
    \/ (\E r \in Replicas : Handle(r) \/ Upgrade(r) \/ Sweep(r)) /\ UNCHANGED keyVars
    \/ Tick /\ UNCHANGED keyVars

(* The sweep task's interval keeps firing and a verification in progress    *)
(* runs to its reply; neither clients nor crashes nor restarts are assumed. *)
Fairness ==
    \A r \in Replicas :
        /\ WF_vars(Sweep(r) /\ UNCHANGED keyVars)
        /\ WF_vars((\E v \in {t \in taken : t.rep = r} : VerifyReply(v)) /\ UNCHANGED keyVars)

Spec == Init /\ [][Next]_vars
FairSpec == Spec /\ Fairness

-----------------------------------------------------------------------------
(* Where a challenge that was drawn can still be redeemed.                  *)
InMap(c) == {r \in Replicas : expiry[r][c] # Absent}
InFlight(c) == {v \in taken : v.chal = c}

(* A challenge buys at most one clearance: MAP.remove hands it to a single  *)
(* verification, and once it has bought a cookie no replica can redeem it   *)
(* again, however verifications, sweeps and crashes interleave.             *)
OneSolveOneClearance ==
    /\ \A k1, k2 \in cookies : k1.chal = k2.chal => k1 = k2
    /\ \A k \in cookies : InMap(k.chal) = {} /\ InFlight(k.chal) = {}

(* ip was whitelisted, or cleared by a solve of its own, at time t: not     *)
(* longer than the session TTL before (and the clock difference of the two  *)
(* replicas involved).                                                      *)
ClearedAt(ip, t) ==
    \/ ip \in Perm
    \/ \E k \in cookies : /\ k.ip = ip
                           /\ k.born <= t /\ t <= k.born + SessionTtl + Tolerance

(* What handle forwards off the bypass paths comes from an address that was *)
(* whitelisted or had solved a challenge when the request was checked,      *)
(* however long the rate limiter then kept it and whatever expired or       *)
(* crashed elsewhere meanwhile.  (WebSocket upgrades never get to handle.)  *)
AdmissionJustified ==
    resp.kind = "proxied" /\ ~resp.bypass => ClearedAt(resp.ip, resp.at)

(* As long as Redis keeps the sealing key, a cookie gets its own visitor    *)
(* past every replica, restarted ones included, for the whole session TTL   *)
(* (less the clock difference): no interstitial before that.                *)
ClearanceHonoured ==
    resp.kind = "interstitial" /\ resp.cookie # None /\ deletes = 0 =>
        \/ resp.cookie.ip # resp.ip
        \/ now + Tolerance > resp.cookie.born + SessionTtl

(* A challenge its visitor has not sent in yet stays redeemable until its   *)
(* deadline at the process that handed it out, whatever the sweep removes.  *)
HandedOutStaysLive ==
    \A h \in held : now < deadline[h.chal] => expiry[h.rep][h.chal] = deadline[h.chal]

(* The map does not grow for ever: an expired challenge nobody sends in is  *)
(* swept (or dies with the process).                                        *)
ExpiredSwept ==
    \A r \in Replicas, c \in Challenges :
        (expiry[r][c] # Absent /\ now >= expiry[r][c]) ~> (expiry[r][c] = Absent)

(* handle implements Clearance: a challenge is open while it is in a map or *)
(* in the hands of a verification, a grant is what a cookie seals, and who  *)
(* awaits the rate limiter has entered.  Upgrades and bypass paths are the  *)
(* exemptions Clearance names.                                              *)
Status == [c \in Challenges |->
              IF deadline[c] = Absent THEN "unissued"
              ELSE IF InMap(c) # {} \/ InFlight(c) # {} THEN "open" ELSE "spent"]

Grants == {[chal |-> k.chal, ip |-> k.ip, born |-> k.born] : k \in cookies}

Entered == {[ip |-> w.ip, at |-> w.at] : w \in waiting}

Admitted == IF resp.kind = "proxied" /\ ~resp.bypass
              THEN [ip |-> resp.ip, at |-> resp.at] ELSE None

Promise == INSTANCE Clearance WITH
    Whitelist <- Perm,
    Nobody <- None,
    status <- Status,
    grants <- Grants,
    entered <- Entered,
    admitted <- Admitted

ImplementsClearance == Promise!Spec

(* What makes these inductive.  A drawn challenge is in one place at most:  *)
(* one map, one verification, or spent.                                     *)
OnePlace ==
    /\ \A r \in Replicas, c \in Challenges :
          expiry[r][c] # Absent => /\ expiry[r][c] = deadline[c]
                                   /\ \A q \in Replicas : expiry[q][c] # Absent => q = r
    /\ \A v \in taken : /\ v.exp = deadline[v.chal]
                        /\ \A r \in Replicas : expiry[r][v.chal] = Absent
                        /\ \A w \in taken : w.chal = v.chal => w = v
    /\ \A k \in cookies : /\ deadline[k.chal] # Absent
                          /\ \A r \in Replicas : expiry[r][k.chal] = Absent
                          /\ \A v \in taken : v.chal # k.chal
                          /\ \A l \in cookies : l.chal = k.chal => l = k

(* Only a live process has requests under way and visitors to come back.    *)
OnlyServing ==
    /\ \A v \in taken : v.rep \in Serving
    /\ \A h \in held : h.rep \in Serving /\ deadline[h.chal] # Absent

(* What is sealed in a cookie: an expiry by some replica's clock, and the   *)
(* key that Redis holds, unless it was lost.                                *)
CookiesSealed ==
    /\ \A k \in cookies : k.born <= now
    /\ \A k \in cookies : \E r \in Replicas : k.exp = k.born + Skew[r] + SessionTtl
    /\ deletes = 0 => \A k \in cookies : k.key = secret

(* Who awaits the limiter was rightly let that far.                         *)
WaitingJustified == \A w \in waiting : ClearedAt(w.ip, w.at)

EdgeInv == OnePlace /\ OnlyServing /\ CookiesSealed /\ WaitingJustified

=============================================================================
