------------------------------ MODULE EdgeProofs ------------------------------
(* Proofs about Edge, for any fleet, any clocks within the tolerance, and    *)
(* any number of visitors, challenges and losses of the sealing key.         *)
EXTENDS Edge, SessionKeyProofs

(* Every step of the fleet is, for the sealing key, a step of SessionKey.    *)
LEMMA EdgeKeyStep == Next => [KeyNext]_keyVars
BY DEF Next, KeyStep, EdgeCrash, KeyNext

(* So what SessionKeyProofs shows of the start-up protocol holds here too.   *)
LEMMA EdgeKeyInvStep ==
    KeyTypeOK /\ KeyInv /\ [Next]_vars => (KeyTypeOK /\ KeyInv)'
<1>1. [Next]_vars => [KeyNext]_keyVars
  BY EdgeKeyStep DEF vars
<1>2. QED
  BY <1>1, KeyTypeStep, KeyInvStep

(* A replica that serves holds a key a cookie can be sealed with.            *)
LEMMA ServingKey ==
    ASSUME KeyTypeOK, KeyInv, NEW r \in Serving
    PROVE  r \in Replicas /\ key[r] \in Secrets \cup {Blank}
BY DEF KeyTypeOK, KeyInv, Serving

(* The empty reply is a reply.                                              *)
LEMMA ReplyTypes == NoReply \in Reply
BY DEF NoReply, Reply, Kinds

LEMMA SentTypes == \A s \in Kinds : [NoReply EXCEPT !.kind = s] \in Reply
<1> SUFFICES ASSUME NEW s \in Kinds PROVE [NoReply EXCEPT !.kind = s] \in Reply
  OBVIOUS
<1> QED
  BY DEF Reply, NoReply

LEMMA RealIpsAreIps == RealIps = Ips
BY EdgeAssumption DEF RealIps, RealIp

(* The variables of the request path, apart from the sealing key's.          *)
EdgeTypeOK ==
    /\ now \in 0..MaxTime
    /\ deadline \in [Challenges -> Nat \cup {Absent}]
    /\ expiry \in [Replicas -> [Challenges -> Nat \cup {Absent}]]
    /\ taken \in SUBSET Check
    /\ waiting \in SUBSET Request
    /\ cookies \in SUBSET Cookie
    /\ resp \in Reply
    /\ held \in SUBSET Held

(* Handing out a challenge keeps the types.                                  *)
LEMMA NewChallengeType ==
    ASSUME EdgeTypeOK, NEW r \in Replicas, NEW c \in Challenges, NewChallenge(r, c)
    PROVE  /\ deadline' \in [Challenges -> Nat \cup {Absent}]
           /\ expiry' \in [Replicas -> [Challenges -> Nat \cup {Absent}]]
           /\ held' \in SUBSET Held
<1>1. now + ChallengeTtl \in Nat
  BY EdgeAssumption DEF EdgeTypeOK
<1>2. QED
  BY <1>1 DEF NewChallenge, EdgeTypeOK, Held

(* Every handler, the sweep, a crash and the clock keep the types; a cookie  *)
(* is well-formed because the replica that seals it serves.                  *)
LEMMA EdgeTypeStep ==
    TypeOK /\ KeyInv /\ OnlyServing /\ [Next]_vars => EdgeTypeOK'
<1> SUFFICES ASSUME TypeOK, KeyInv, OnlyServing, [Next]_vars PROVE EdgeTypeOK'
  OBVIOUS
<1>0. EdgeTypeOK /\ KeyTypeOK
  BY DEF TypeOK, EdgeTypeOK
<1>1. ASSUME NEW r \in Replicas, Local(r) PROVE EdgeTypeOK'
  BY <1>0, <1>1, ReplyTypes DEF Local, Send, EdgeTypeOK, Reply, NoReply, Kinds
<1>2. ASSUME NEW r \in Replicas, GetChallenge(r) PROVE EdgeTypeOK'
  <2>1. PICK c \in Challenges : NewChallenge(r, c)
    BY <1>2 DEF GetChallenge
  <2>2. resp' \in Reply
    BY <1>2 DEF GetChallenge, Send, Reply, NoReply, Kinds
  <2>3. QED
    BY <1>0, <1>2, <2>1, <2>2, NewChallengeType DEF GetChallenge, EdgeTypeOK
<1>3. ASSUME NEW r \in Replicas, VerifyBadBody(r) PROVE EdgeTypeOK'
  BY <1>0, <1>3 DEF VerifyBadBody, Send, EdgeTypeOK, Reply, NoReply, Kinds
<1>4. ASSUME NEW r \in Replicas, NEW c \in Challenges, NEW good \in BOOLEAN,
             NEW ip \in Ips, VerifyTake(r, c, good, ip)
      PROVE  EdgeTypeOK'
  <2>1. resp' \in Reply
    <3>1. CASE expiry[r][c] = Absent
      <4>1. "forbidden" \in Kinds
        BY DEF Kinds
      <4> QED
        BY <1>4, <3>1, <4>1, SentTypes DEF VerifyTake, Send
    <3>2. CASE expiry[r][c] # Absent
      BY <1>4, <3>2, ReplyTypes DEF VerifyTake
    <3>3. QED
      BY <3>1, <3>2
  <2>2. expiry' \in [Replicas -> [Challenges -> Nat \cup {Absent}]]
    BY <1>0, <1>4 DEF VerifyTake, EdgeTypeOK
  <2>3. taken' \in SUBSET Check
    <3>1. expiry[r][c] \in Nat \cup {Absent}
      BY <1>0 DEF EdgeTypeOK
    <3>2. QED
      BY <1>0, <1>4, <3>1 DEF VerifyTake, EdgeTypeOK, Check
  <2>4. QED
    BY <1>0, <1>4, <2>1, <2>2, <2>3 DEF VerifyTake, EdgeTypeOK
<1>5. ASSUME NEW v \in taken, VerifyReply(v) PROVE EdgeTypeOK'
  <2>1. resp' \in Reply
    <3>1. "verified" \in Kinds /\ "forbidden" \in Kinds
      BY DEF Kinds
    <3> QED
      BY <1>5, <3>1, SentTypes DEF VerifyReply, Send
  <2>2. v \in Check /\ v.rep \in Serving
    BY <1>0 DEF EdgeTypeOK, OnlyServing
  <2>3. CreateCookie(v.rep, v.ip, v.chal) \in Cookie
    <3>1. key[v.rep] \in Secrets \cup {Blank} /\ v.rep \in Replicas
      BY <1>0, <2>2, ServingKey
    <3>2. now \in Nat /\ Wall(v.rep) + SessionTtl \in Nat
      BY <1>0, <3>1, EdgeAssumption DEF EdgeTypeOK, Wall
    <3>3. QED
      BY <2>2, <3>1, <3>2 DEF CreateCookie, Cookie, Check
  <2>4. QED
    BY <1>0, <1>5, <2>1, <2>3 DEF VerifyReply, EdgeTypeOK
<1>6. ASSUME NEW r \in Replicas, NEW ip \in Ips, NEW cookie,
             RequestBypass(r, ip) \/ RequestChecked(r, cookie, ip)
      PROVE  EdgeTypeOK'
  <2>1. CASE RequestBypass(r, ip)
    <3>1. resp' \in Reply
      <4>1. PICK kind \in {"proxied", "no_upstream"} :
               resp' = [NoReply EXCEPT !.kind = kind, !.ip = ip, !.bypass = TRUE]
        BY <2>1 DEF RequestBypass
      <4>2. resp' = [kind |-> kind, ip |-> ip, cookie |-> None, bypass |-> TRUE, at |-> 0]
        BY <4>1 DEF NoReply
      <4> QED
        BY <4>2 DEF Reply, Kinds
    <3> QED
      BY <1>0, <2>1, <3>1 DEF RequestBypass, EdgeTypeOK
  <2>2. CASE RequestChecked(r, cookie, ip)
    <3>1. now \in Nat
      BY <1>0, EdgeAssumption DEF EdgeTypeOK
    <3>2. waiting' \in SUBSET Request
      BY <1>0, <2>2, <3>1 DEF RequestChecked, EdgeTypeOK, Request
    <3> QED
      BY <1>0, <2>2, <3>2, ReplyTypes DEF RequestChecked, EdgeTypeOK
  <2> QED
    BY <1>6, <2>1, <2>2
<1>6b. ASSUME NEW w \in waiting, RequestPasses(w) PROVE EdgeTypeOK'
  <2>1. w \in Request
    BY <1>0 DEF EdgeTypeOK
  <2>2. resp' \in Reply
    BY <1>6b, <2>1 DEF RequestPasses, Reply, NoReply, Kinds, Request
  <2> QED
    BY <1>0, <1>6b, <2>2 DEF RequestPasses, EdgeTypeOK
<1>7. ASSUME NEW r \in Replicas, NEW cookie \in cookies \cup {None}, NEW ip \in Ips,
             RequestInterstitial(r, cookie, ip)
      PROVE  EdgeTypeOK'
  <2>1. PICK c \in Challenges : NewChallenge(r, c)
    BY <1>7 DEF RequestInterstitial
  <2>2. resp' \in Reply
    BY <1>0, <1>7 DEF RequestInterstitial, Reply, NoReply, Kinds, EdgeTypeOK
  <2>3. QED
    BY <1>0, <1>7, <2>1, <2>2, NewChallengeType DEF RequestInterstitial, EdgeTypeOK
<1>8. ASSUME NEW r \in Replicas, Sweep(r) PROVE EdgeTypeOK'
  <2>1. expiry' \in [Replicas -> [Challenges -> Nat \cup {Absent}]]
    BY <1>0, <1>8 DEF Sweep, EdgeTypeOK
  <2>2. QED
    BY <1>0, <1>8, <2>1, ReplyTypes DEF Sweep, EdgeTypeOK
<1>9. ASSUME NEW r \in Replicas, EdgeCrash(r) PROVE EdgeTypeOK'
  <2>1. expiry' \in [Replicas -> [Challenges -> Nat \cup {Absent}]]
    BY <1>0, <1>9 DEF EdgeCrash, EdgeTypeOK
  <2>2. QED
    BY <1>0, <1>9, <2>1, ReplyTypes DEF EdgeCrash, EdgeTypeOK
<1>10. CASE KeyStep
  BY <1>0, <1>10, ReplyTypes DEF KeyStep, EdgeTypeOK
<1>11. CASE Tick
  BY <1>0, <1>11, ReplyTypes, EdgeAssumption DEF Tick, EdgeTypeOK
<1>12. CASE UNCHANGED vars
  BY <1>0, <1>12 DEF vars, edgeVars, EdgeTypeOK
<1>13. ASSUME NEW r \in Replicas, Handle(r) PROVE EdgeTypeOK'
  BY <1>1, <1>2, <1>3, <1>4, <1>5, <1>6, <1>6b, <1>7, <1>13, RealIpsAreIps DEF Handle
<1>14. ASSUME NEW r \in Replicas, Upgrade(r) PROVE EdgeTypeOK'
  <2>1. resp' \in Reply
    BY <1>14, ReplyTypes DEF Upgrade, Send, Reply, NoReply, Kinds
  <2> QED
    BY <1>0, <1>14, <2>1 DEF Upgrade, EdgeTypeOK
<1>15. QED
  BY <1>8, <1>9, <1>10, <1>11, <1>12, <1>13, <1>14 DEF Next

(* A challenge is handed out by the one map that has it: what no map, no     *)
(* verification and no cookie has seen stays apart from what they have.      *)
LEMMA NewChallengeOnePlace ==
    ASSUME EdgeTypeOK, OnePlace, NEW r \in Replicas, NEW c \in Challenges,
           NewChallenge(r, c), UNCHANGED <<taken, cookies>>
    PROVE  OnePlace'
<1>1. now + ChallengeTtl \in Nat /\ Absent \notin Nat
  BY EdgeAssumption DEF EdgeTypeOK, Absent
<1>2. /\ \A q \in Replicas : expiry[q][c] = Absent
      /\ \A v \in taken : v.chal # c
      /\ \A k \in cookies : k.chal # c
  BY <1>1 DEF NewChallenge, OnePlace, EdgeTypeOK, Check, Cookie
<1>3. /\ \A q \in Replicas, d \in Challenges :
            expiry'[q][d] = IF q = r /\ d = c THEN now + ChallengeTtl ELSE expiry[q][d]
      /\ \A d \in Challenges :
            deadline'[d] = IF d = c THEN now + ChallengeTtl ELSE deadline[d]
  BY DEF NewChallenge, EdgeTypeOK
<1>4. (\A v \in taken : v.chal \in Challenges) /\ (\A k \in cookies : k.chal \in Challenges)
  BY DEF EdgeTypeOK, Check, Cookie
<1>5. QED
  BY <1>1, <1>2, <1>3, <1>4 DEF OnePlace

(* Taking entries out of the maps, and dropping verifications, disturbs      *)
(* nothing: this is the sweep, the crash and the loss of an entry.           *)
LEMMA ShrinkOnePlace ==
    ASSUME OnePlace, UNCHANGED <<deadline, cookies>>, taken' \subseteq taken,
           \A r \in Replicas, c \in Challenges : expiry'[r][c] \in {expiry[r][c], Absent},
           EdgeTypeOK
    PROVE  OnePlace'
<1>1. (\A v \in taken : v.chal \in Challenges) /\ (\A k \in cookies : k.chal \in Challenges)
  BY DEF EdgeTypeOK, Check, Cookie
<1>2. QED
  BY <1>1 DEF OnePlace

(* A drawn challenge is in one map, one verification or one cookie.          *)
LEMMA OnePlaceStep ==
    EdgeTypeOK /\ OnePlace /\ [Next]_vars => OnePlace'
<1> SUFFICES ASSUME EdgeTypeOK, OnePlace, [Next]_vars PROVE OnePlace'
  OBVIOUS
<1>1. ASSUME NEW r \in Replicas, Local(r) \/ VerifyBadBody(r) PROVE OnePlace'
  BY <1>1 DEF Local, VerifyBadBody, OnePlace
<1>2. ASSUME NEW r \in Replicas, GetChallenge(r) PROVE OnePlace'
  BY <1>2, NewChallengeOnePlace DEF GetChallenge
<1>3. ASSUME NEW r \in Replicas, NEW c \in Challenges, NEW good \in BOOLEAN,
             NEW ip \in Ips, VerifyTake(r, c, good, ip)
      PROVE  OnePlace'
  <2>1. CASE expiry[r][c] = Absent
    BY <1>3, <2>1 DEF VerifyTake, OnePlace
  <2>2. CASE expiry[r][c] # Absent
    <3> DEFINE new == [rep |-> r, chal |-> c, good |-> good, exp |-> expiry[r][c], ip |-> ip]
    <3>1. /\ taken' = taken \cup {new}
          /\ \A q \in Replicas, d \in Challenges :
                expiry'[q][d] = IF q = r /\ d = c THEN Absent ELSE expiry[q][d]
          /\ UNCHANGED <<deadline, cookies>>
      BY <1>3, <2>2 DEF VerifyTake, EdgeTypeOK
    <3>2. /\ expiry[r][c] = deadline[c]
          /\ \A v \in taken : v.chal # c
          /\ \A k \in cookies : k.chal # c
          /\ \A q \in Replicas : expiry[q][c] # Absent => q = r
      BY <2>2 DEF OnePlace
    <3>3. (\A v \in taken : v.chal \in Challenges) /\ (\A k \in cookies : k.chal \in Challenges)
      BY DEF EdgeTypeOK, Check, Cookie
    <3>4. new.chal = c /\ new.exp = expiry[r][c]
      OBVIOUS
    <3> HIDE DEF new
    <3>5. QED
      BY <3>1, <3>2, <3>3, <3>4 DEF OnePlace
  <2>3. QED
    BY <2>1, <2>2
<1>4. ASSUME NEW v \in taken, VerifyReply(v) PROVE OnePlace'
  <2>1. CASE Accepts(v)
    <3> DEFINE new == CreateCookie(v.rep, v.ip, v.chal)
    <3>1. /\ cookies' = cookies \cup {new}
          /\ taken' = taken \ {v}
          /\ UNCHANGED <<deadline, expiry>>
      BY <1>4, <2>1 DEF VerifyReply
    <3>2. /\ v.exp = deadline[v.chal] /\ v.exp \in Nat
          /\ \A r \in Replicas : expiry[r][v.chal] = Absent
          /\ \A w \in taken : w.chal = v.chal => w = v
          /\ \A k \in cookies : k.chal # v.chal
      BY DEF OnePlace, EdgeTypeOK, Check
    <3>3. new.chal = v.chal
      BY DEF CreateCookie
    <3>4. Absent \notin Nat
      BY DEF Absent
    <3> HIDE DEF new
    <3>5. QED
      BY <3>1, <3>2, <3>3, <3>4 DEF OnePlace
  <2>2. CASE ~Accepts(v)
    BY <1>4, <2>2 DEF VerifyReply, OnePlace
  <2>3. QED
    BY <2>1, <2>2
<1>5. ASSUME NEW r, NEW cookie, NEW ip, NEW w,
             RequestBypass(r, ip) \/ RequestChecked(r, cookie, ip) \/ RequestPasses(w) \/ Upgrade(r)
      PROVE  OnePlace'
  BY <1>5 DEF RequestBypass, RequestChecked, RequestPasses, Upgrade, OnePlace
<1>6. ASSUME NEW r \in Replicas, NEW cookie, NEW ip, RequestInterstitial(r, cookie, ip)
      PROVE  OnePlace'
  BY <1>6, NewChallengeOnePlace DEF RequestInterstitial
<1>7. ASSUME NEW r \in Replicas, Sweep(r) PROVE OnePlace'
  <2>1. \A q \in Replicas, c \in Challenges : expiry'[q][c] \in {expiry[q][c], Absent}
    BY <1>7 DEF Sweep, EdgeTypeOK
  <2>2. QED
    BY <1>7, <2>1, ShrinkOnePlace DEF Sweep
<1>8. ASSUME NEW r \in Replicas, EdgeCrash(r) PROVE OnePlace'
  <2>1. \A q \in Replicas, c \in Challenges : expiry'[q][c] \in {expiry[q][c], Absent}
    BY <1>8 DEF EdgeCrash, EdgeTypeOK
  <2>2. QED
    BY <1>8, <2>1, ShrinkOnePlace DEF EdgeCrash
<1>9. CASE KeyStep \/ Tick \/ UNCHANGED vars
  BY <1>9 DEF KeyStep, Tick, vars, edgeVars, OnePlace
<1>10. ASSUME NEW r \in Replicas, Handle(r) PROVE OnePlace'
  BY <1>1, <1>2, <1>3, <1>4, <1>5, <1>6, <1>10, RealIpsAreIps DEF Handle
<1>11. QED
  BY <1>5, <1>7, <1>8, <1>9, <1>10 DEF Next

(* No step but a crash stops a replica from serving.                         *)
LEMMA ServingStays ==
    ASSUME KeyTypeOK, KeyStep \/ UNCHANGED keyVars
    PROVE  Serving \subseteq Serving'
<1>1. CASE KeyStep
  BY <1>1 DEF KeyStep, LoseSecret, Start, StartUp, GetSecret, DrawSecret, SetNx,
              ReGet, Serving, KeyTypeOK
<1>2. CASE UNCHANGED keyVars
  BY <1>2 DEF keyVars, Serving
<1>3. QED
  BY <1>1, <1>2

(* Handing out a challenge at a replica that serves keeps OnlyServing.       *)
LEMMA NewChallengeOnlyServing ==
    ASSUME EdgeTypeOK, OnlyServing, NEW r \in Serving, NEW c \in Challenges,
           NewChallenge(r, c), UNCHANGED taken, Serving \subseteq Serving'
    PROVE  OnlyServing'
<1>1. now + ChallengeTtl \in Nat /\ Absent \notin Nat
  BY EdgeAssumption DEF EdgeTypeOK, Absent
<1>2. \A d \in Challenges :
         deadline'[d] = IF d = c THEN now + ChallengeTtl ELSE deadline[d]
  BY DEF NewChallenge, EdgeTypeOK
<1>3. \A h \in held : h.chal \in Challenges
  BY DEF EdgeTypeOK, Held
<1>4. \A h \in held' : h \in held \/ h = [rep |-> r, chal |-> c]
  BY DEF NewChallenge
<1>5. QED
  BY <1>1, <1>2, <1>3, <1>4 DEF OnlyServing

(* Verifications and waiting visitors belong to processes that serve.        *)
LEMMA OnlyServingStep ==
    KeyTypeOK /\ EdgeTypeOK /\ OnlyServing /\ [Next]_vars => OnlyServing'
<1> SUFFICES ASSUME KeyTypeOK, EdgeTypeOK, OnlyServing, [Next]_vars PROVE OnlyServing'
  OBVIOUS
<1>1. ASSUME NEW r \in Replicas, Handle(r) \/ Upgrade(r) \/ Sweep(r), UNCHANGED keyVars
      PROVE  OnlyServing'
  <2>0. Serving \subseteq Serving'
    BY <1>1, ServingStays
  <2>1. CASE Local(r) \/ VerifyBadBody(r) \/ Upgrade(r) \/ Sweep(r)
    BY <2>0, <2>1 DEF Local, VerifyBadBody, Upgrade, Sweep, OnlyServing
  <2>2. CASE GetChallenge(r)
    BY <2>0, <2>2, NewChallengeOnlyServing DEF GetChallenge
  <2>3. ASSUME NEW c \in Challenges, NEW good, NEW ip, VerifyTake(r, c, good, ip)
        PROVE  OnlyServing'
    <3>1. \A v \in taken' : v \in taken \/ v.rep = r
      BY <2>3 DEF VerifyTake
    <3>2. QED
      BY <2>0, <2>3, <3>1 DEF VerifyTake, OnlyServing
  <2>4. ASSUME NEW v \in taken, VerifyReply(v) PROVE OnlyServing'
    BY <2>0, <2>4 DEF VerifyReply, OnlyServing
  <2>5. ASSUME NEW cookie, NEW ip, NEW w,
               RequestBypass(r, ip) \/ RequestChecked(r, cookie, ip) \/ RequestPasses(w)
        PROVE  OnlyServing'
    BY <2>0, <2>5 DEF RequestBypass, RequestChecked, RequestPasses, OnlyServing
  <2>6. ASSUME NEW cookie, NEW ip, RequestInterstitial(r, cookie, ip) PROVE OnlyServing'
    BY <2>0, <2>6, NewChallengeOnlyServing DEF RequestInterstitial
  <2>7. QED
    BY <1>1, <2>1, <2>2, <2>3, <2>4, <2>5, <2>6 DEF Handle
<1>2. ASSUME NEW r \in Replicas, EdgeCrash(r) PROVE OnlyServing'
  <2>1. \A q \in Serving : q # r => q \in Serving'
    BY <1>2 DEF EdgeCrash, Crash, Serving, KeyTypeOK
  <2>2. QED
    BY <1>2, <2>1 DEF EdgeCrash, OnlyServing
<1>3. CASE KeyStep
  BY <1>3, ServingStays DEF KeyStep, OnlyServing
<1>4. CASE (Tick /\ UNCHANGED keyVars) \/ UNCHANGED vars
  <2>1. UNCHANGED <<keyVars, taken, held, deadline>>
    BY <1>4 DEF Tick, vars, edgeVars
  <2>2. QED
    BY <2>1, ServingStays DEF OnlyServing
<1>5. QED
  BY <1>1, <1>2, <1>3, <1>4 DEF Next

(* A cookie carries an expiry by its sealer's clock and, while Redis has     *)
(* kept it, the one key: SET NX cannot replace the key a cookie was sealed   *)
(* with.                                                                     *)
LEMMA CookiesSealedStep ==
    TypeOK /\ KeyInv /\ OnlyServing /\ CookiesSealed /\ [Next]_vars => CookiesSealed'
<1> SUFFICES ASSUME TypeOK, KeyInv, OnlyServing, CookiesSealed, [Next]_vars
             PROVE  CookiesSealed'
  OBVIOUS
<1>0. now \in Nat /\ \A k \in cookies : k.born \in Nat
  BY EdgeAssumption DEF TypeOK, Cookie
<1>1. CASE UNCHANGED <<cookies, secret, deletes>> /\ now' \in {now, now + 1}
  BY <1>0, <1>1 DEF CookiesSealed
<1>2. CASE KeyStep
  <2>1. UNCHANGED <<cookies, now>>
    BY <1>2 DEF KeyStep
  <2>2. CASE UNCHANGED <<secret, deletes>>
    BY <1>1, <2>1, <2>2
  <2>3. CASE LoseSecret
    <3>1. deletes' # 0
      BY <2>3, SessionKeyAssumption DEF LoseSecret, TypeOK, KeyTypeOK
    <3>2. QED
      BY <2>1, <3>1 DEF CookiesSealed
  <2>4. ASSUME NEW r \in Replicas, SetNx(r) PROVE CookiesSealed'
    <3>1. CASE secret = NoSecret /\ deletes = 0
      <4>1. cookies = {}
        BY <3>1, SessionKeyAssumption DEF CookiesSealed, TypeOK, Cookie
      <4>2. QED
        BY <2>1, <4>1 DEF CookiesSealed
    <3>2. CASE secret # NoSecret \/ deletes # 0
      BY <2>1, <2>4, <3>2 DEF SetNx, CookiesSealed
    <3>3. QED
      BY <3>1, <3>2
  <2>5. QED
    BY <1>2, <2>2, <2>3, <2>4 DEF KeyStep, Start, StartUp, GetSecret, DrawSecret, ReGet
<1>3. ASSUME NEW v \in taken, VerifyReply(v), UNCHANGED keyVars PROVE CookiesSealed'
  <2>1. v.rep \in Serving /\ v.rep \in Replicas
    BY DEF OnlyServing, Serving
  <2>2. \A k \in cookies' : k \in cookies \/ k = CreateCookie(v.rep, v.ip, v.chal)
    BY <1>3 DEF VerifyReply
  <2>3. CreateCookie(v.rep, v.ip, v.chal).exp
           = CreateCookie(v.rep, v.ip, v.chal).born + Skew[v.rep] + SessionTtl
    BY <2>1, EdgeAssumption DEF CreateCookie, Wall, TypeOK
  <2>4. deletes = 0 => CreateCookie(v.rep, v.ip, v.chal).key = secret
    BY <2>1 DEF KeyInv, CreateCookie
  <2>5. UNCHANGED <<secret, deletes>>
    BY <1>3 DEF keyVars
  <2>6. UNCHANGED now /\ CreateCookie(v.rep, v.ip, v.chal).born = now
    BY <1>3 DEF VerifyReply, CreateCookie
  <2>7. QED
    BY <1>0, <2>1, <2>2, <2>3, <2>4, <2>5, <2>6 DEF CookiesSealed
<1>4. ASSUME NEW r \in Replicas, EdgeCrash(r)
      PROVE  UNCHANGED <<cookies, secret, deletes>> /\ now' \in {now, now + 1}
  BY <1>4 DEF EdgeCrash, Crash
<1>5. ASSUME NEW r \in Replicas, Handle(r) \/ Upgrade(r) \/ Sweep(r), UNCHANGED keyVars
      PROVE  CookiesSealed'
  <2>1. ASSUME UNCHANGED <<cookies, now>> PROVE CookiesSealed'
    BY <1>1, <1>5, <2>1 DEF keyVars
  <2>2. QED
    BY <1>3, <1>5, <2>1 DEF Handle, Local, GetChallenge, VerifyBadBody, VerifyTake,
          RequestBypass, RequestChecked, RequestPasses, RequestInterstitial, Upgrade, Sweep
<1>6. CASE (Tick /\ UNCHANGED keyVars) \/ UNCHANGED vars
  BY <1>1, <1>6 DEF Tick, keyVars, vars, edgeVars
<1>7. QED
  BY <1>1, <1>2, <1>4, <1>5, <1>6 DEF Next

(* Taking an entry out of the map answers 403 or nothing yet.                *)
LEMMA VerifyTakeReply ==
    ASSUME NEW r, NEW c, NEW good, NEW ip, VerifyTake(r, c, good, ip)
    PROVE  resp'.kind \in {"forbidden", "none"}
<1>1. CASE expiry[r][c] = Absent
  <2>1. resp'.kind = "forbidden"
    BY <1>1, Zenon DEF VerifyTake, Send, NoReply
  <2>2. QED
    BY <2>1
<1>2. CASE expiry[r][c] # Absent
  BY <1>2 DEF VerifyTake, NoReply
<1>3. QED
  BY <1>1, <1>2

(* A request passes its check on a cookie its sealer's clock has not run out *)
(* on; the tolerance bounds what that means in true time.                    *)
LEMMA AllowedIsCleared ==
    ASSUME TypeOK, CookiesSealed, NEW r \in Replicas, NEW cookie \in cookies \cup {None},
           NEW ip \in Ips, Allowed(r, cookie, ip)
    PROVE  ClearedAt(ip, now)
<1>1. CASE ip \in Perm
  BY <1>1 DEF ClearedAt
<1>2. CASE VerifyCookie(r, cookie, ip)
  <2>1. cookie \in cookies /\ cookie.ip = ip /\ now + Skew[r] <= cookie.exp
    BY <1>2 DEF VerifyCookie, Wall
  <2>2. PICK q \in Replicas : cookie.exp = cookie.born + Skew[q] + SessionTtl
    BY <2>1 DEF CookiesSealed
  <2>3. now \in Nat /\ cookie.born \in Nat /\ Skew[r] \in Nat /\ Skew[q] \in Nat
    BY <2>1, EdgeAssumption DEF TypeOK, Cookie
  <2>4. Skew[q] <= Skew[r] + Tolerance /\ Tolerance \in Nat /\ SessionTtl \in Nat
    BY EdgeAssumption
  <2>5. now <= cookie.born + SessionTtl + Tolerance
    BY <2>1, <2>2, <2>3, <2>4
  <2>6. cookie.born <= now
    BY <2>1 DEF CookiesSealed
  <2> QED
    BY <2>1, <2>5, <2>6 DEF ClearedAt
<1> QED
  BY <1>1, <1>2 DEF Allowed

(* Cookies are never taken back, so what was cleared then stays so.          *)
LEMMA CookiesStay == Next => cookies \subseteq cookies'
BY DEF Next, KeyStep, EdgeCrash, Handle, Local, GetChallenge, VerifyBadBody, VerifyTake,
       VerifyReply, RequestBypass, RequestChecked, RequestPasses, RequestInterstitial,
       Upgrade, Sweep, Tick

LEMMA ClearedStays ==
    ASSUME cookies \subseteq cookies', NEW ip, NEW t, ClearedAt(ip, t)
    PROVE  ClearedAt(ip, t)'
BY DEF ClearedAt

(* Who awaits the limiter was rightly let that far.                          *)
LEMMA WaitingStep ==
    TypeOK /\ CookiesSealed /\ WaitingJustified /\ [Next]_vars => WaitingJustified'
<1> SUFFICES ASSUME TypeOK, CookiesSealed, WaitingJustified, [Next]_vars
             PROVE  WaitingJustified'
  OBVIOUS
<1>1. cookies \subseteq cookies'
  BY CookiesStay DEF vars, edgeVars
<1>2. CASE waiting' \subseteq waiting
  BY <1>1, <1>2, ClearedStays DEF WaitingJustified
<1>3. ASSUME NEW r \in Replicas, NEW cookie \in cookies \cup {None}, NEW ip \in Ips,
             RequestChecked(r, cookie, ip)
      PROVE  WaitingJustified'
  <2>1. ClearedAt(ip, now)
    BY <1>3, AllowedIsCleared DEF RequestChecked
  <2>2. \A w \in waiting' : w \in waiting \/ (w.ip = ip /\ w.at = now)
    BY <1>3 DEF RequestChecked
  <2>3. \A w \in waiting' : ClearedAt(w.ip, w.at)
    BY <2>1, <2>2 DEF WaitingJustified
  <2> QED
    BY <1>1, <2>3, ClearedStays DEF WaitingJustified
<1>4. ASSUME NEW r \in Replicas, Handle(r) PROVE WaitingJustified'
  <2>1. CASE waiting' \subseteq waiting
    BY <1>2, <2>1
  <2> QED
    BY <1>3, <1>4, <2>1, RealIpsAreIps
       DEF Handle, Local, GetChallenge, VerifyBadBody, VerifyTake, VerifyReply,
           RequestBypass, RequestPasses, RequestInterstitial
<1>5. CASE \E r \in Replicas : Upgrade(r) \/ Sweep(r) \/ EdgeCrash(r)
  BY <1>2, <1>5 DEF Upgrade, Sweep, EdgeCrash
<1>6. CASE KeyStep \/ Tick \/ UNCHANGED vars
  BY <1>2, <1>6 DEF KeyStep, Tick, vars, edgeVars
<1> QED
  BY <1>4, <1>5, <1>6 DEF Next

(* Forwarding sends on what had been rightly let that far.                   *)
LEMMA AdmissionStep ==
    TypeOK /\ WaitingJustified /\ AdmissionJustified /\ [Next]_vars => AdmissionJustified'
<1> SUFFICES ASSUME TypeOK, WaitingJustified, AdmissionJustified, [Next]_vars
             PROVE  AdmissionJustified'
  OBVIOUS
<1>1. ASSUME NEW w \in waiting, RequestPasses(w) PROVE AdmissionJustified'
  <2>1. UNCHANGED cookies /\ resp'.ip = w.ip /\ resp'.at = w.at
    BY <1>1 DEF RequestPasses, NoReply
  <2>2. ClearedAt(w.ip, w.at)
    BY DEF WaitingJustified
  <2> QED
    BY <2>1, <2>2 DEF ClearedAt, AdmissionJustified
<1>2. CASE resp'.kind # "proxied" \/ resp'.bypass
  BY <1>2 DEF AdmissionJustified
<1>3. ASSUME NEW r \in Replicas, Handle(r) PROVE AdmissionJustified'
  <2>1. CASE Local(r) \/ GetChallenge(r) \/ VerifyBadBody(r)
    BY <1>2, <2>1 DEF Local, GetChallenge, VerifyBadBody, Send, NoReply
  <2>2. ASSUME NEW c, NEW good, NEW ip, VerifyTake(r, c, good, ip)
        PROVE  AdmissionJustified'
    BY <1>2, <2>2, VerifyTakeReply
  <2>3. ASSUME NEW v, VerifyReply(v) PROVE AdmissionJustified'
    BY <1>2, <2>3 DEF VerifyReply, Send, NoReply
  <2>4. ASSUME NEW cookie, NEW ip, RequestInterstitial(r, cookie, ip)
        PROVE  AdmissionJustified'
    BY <1>2, <2>4 DEF RequestInterstitial, NoReply
  <2>5. ASSUME NEW cookie, NEW ip, RequestChecked(r, cookie, ip) \/ RequestBypass(r, ip)
        PROVE  AdmissionJustified'
    <3>1. CASE RequestBypass(r, ip)
      <4>1. resp'.bypass = TRUE
        BY <3>1 DEF RequestBypass, NoReply
      <4> QED
        BY <1>2, <4>1
    <3>2. CASE RequestChecked(r, cookie, ip)
      BY <1>2, <3>2 DEF RequestChecked, NoReply
    <3> QED
      BY <2>5, <3>1, <3>2
  <2>6. QED
    BY <1>1, <1>3, <2>1, <2>2, <2>3, <2>4, <2>5 DEF Handle
<1>4. ASSUME NEW r \in Replicas, Upgrade(r) \/ Sweep(r) \/ EdgeCrash(r)
      PROVE  AdmissionJustified'
  BY <1>2, <1>4 DEF Upgrade, Send, Sweep, EdgeCrash, NoReply
<1>5. CASE KeyStep \/ Tick
  BY <1>2, <1>5 DEF KeyStep, Tick, NoReply
<1>6. CASE UNCHANGED vars
  BY <1>6 DEF vars, edgeVars, AdmissionJustified, ClearedAt
<1>7. QED
  BY <1>3, <1>4, <1>5, <1>6 DEF Next

(* An interstitial in spite of a cookie: with one key for all, it can only   *)
(* be somebody else's cookie or one that has run out.                        *)
LEMMA HonouredStep ==
    TypeOK /\ KeyInv /\ CookiesSealed /\ ClearanceHonoured /\ [Next]_vars
        => ClearanceHonoured'
<1> SUFFICES ASSUME TypeOK, KeyInv, CookiesSealed, ClearanceHonoured, [Next]_vars
             PROVE  ClearanceHonoured'
  OBVIOUS
<1>1. ASSUME NEW r \in Replicas, NEW cookie \in cookies \cup {None}, NEW ip \in Ips,
             RequestInterstitial(r, cookie, ip), UNCHANGED keyVars
      PROVE  ClearanceHonoured'
  <2> SUFFICES ASSUME cookie # None, deletes = 0, cookie.ip = ip
               PROVE  now + Tolerance > cookie.born + SessionTtl
    BY <1>1 DEF RequestInterstitial, ClearanceHonoured, NoReply, keyVars
  <2>1. cookie \in cookies /\ r \in Serving /\ ~VerifyCookie(r, cookie, ip)
    BY <1>1 DEF RequestInterstitial, Allowed
  <2>2. cookie.key = key[r]
    BY <2>1 DEF KeyInv, CookiesSealed
  <2>3. PICK q \in Replicas : cookie.exp = cookie.born + Skew[q] + SessionTtl
    BY <2>1 DEF CookiesSealed
  <2>4. now \in Nat /\ cookie.born \in Nat /\ Skew[r] \in Nat /\ Skew[q] \in Nat
    BY <2>1, EdgeAssumption DEF TypeOK, Cookie
  <2>5. ~(now + Skew[r] <= cookie.exp)
    BY <2>1, <2>2 DEF VerifyCookie, Wall
  <2>6. Skew[r] <= Skew[q] + Tolerance /\ Tolerance \in Nat /\ SessionTtl \in Nat
    BY EdgeAssumption
  <2>7. QED
    BY <2>3, <2>4, <2>5, <2>6
<1>2. CASE resp'.kind # "interstitial"
  BY <1>2 DEF ClearanceHonoured
<1>3. ASSUME NEW r \in Replicas, Handle(r), UNCHANGED keyVars PROVE ClearanceHonoured'
  <2>1. CASE Local(r) \/ GetChallenge(r) \/ VerifyBadBody(r)
    BY <1>2, <2>1 DEF Local, GetChallenge, VerifyBadBody, Send, NoReply
  <2>2. ASSUME NEW c, NEW good, NEW ip, VerifyTake(r, c, good, ip)
        PROVE  ClearanceHonoured'
    BY <1>2, <2>2, VerifyTakeReply
  <2>3. ASSUME NEW v, VerifyReply(v) PROVE ClearanceHonoured'
    BY <1>2, <2>3 DEF VerifyReply, Send, NoReply
  <2>4. ASSUME NEW cookie, NEW ip, NEW w,
               RequestBypass(r, ip) \/ RequestChecked(r, cookie, ip) \/ RequestPasses(w)
        PROVE  ClearanceHonoured'
    <3>1. resp'.kind \in {"proxied", "no_upstream", "limited", "none"}
      <4>1. CASE RequestBypass(r, ip)
        BY <4>1 DEF RequestBypass, NoReply
      <4>2. CASE RequestChecked(r, cookie, ip)
        BY <4>2 DEF RequestChecked, NoReply
      <4>3. CASE RequestPasses(w)
        BY <4>3 DEF RequestPasses, NoReply
      <4> QED
        BY <2>4, <4>1, <4>2, <4>3
    <3> QED
      BY <1>2, <3>1
  <2>5. QED
    BY <1>1, <1>3, <2>1, <2>2, <2>3, <2>4, RealIpsAreIps DEF Handle
<1>4. ASSUME NEW r \in Replicas, Upgrade(r) \/ Sweep(r) \/ EdgeCrash(r)
      PROVE  ClearanceHonoured'
  BY <1>2, <1>4 DEF Upgrade, Send, Sweep, EdgeCrash, NoReply
<1>5. CASE KeyStep \/ Tick
  BY <1>2, <1>5 DEF KeyStep, Tick, NoReply
<1>6. CASE UNCHANGED vars
  BY <1>6 DEF vars, edgeVars, keyVars, ClearanceHonoured
<1>7. QED
  BY <1>3, <1>4, <1>5, <1>6 DEF Next

LEMMA EdgeInitially ==
    Init => TypeOK /\ KeyInv /\ EdgeInv /\ AdmissionJustified /\ ClearanceHonoured
<1> SUFFICES ASSUME Init
             PROVE  TypeOK /\ KeyInv /\ EdgeInv /\ AdmissionJustified /\ ClearanceHonoured
  OBVIOUS
<1>1. KeyTypeOK /\ KeyInv
  BY KeyInitially DEF Init
<1>2. TypeOK
  BY <1>1, ReplyTypes, EdgeAssumption DEF Init, TypeOK
<1>3. EdgeInv
  BY DEF Init, EdgeInv, OnePlace, OnlyServing, CookiesSealed, WaitingJustified
<1>4. AdmissionJustified /\ ClearanceHonoured
  BY DEF Init, AdmissionJustified, ClearanceHonoured, NoReply
<1>5. QED
  BY <1>1, <1>2, <1>3, <1>4

LEMMA EdgeInvariant ==
    Spec => [](TypeOK /\ KeyInv /\ EdgeInv /\ AdmissionJustified /\ ClearanceHonoured)
<1> DEFINE I == TypeOK /\ KeyInv /\ EdgeInv /\ AdmissionJustified /\ ClearanceHonoured
<1>1. I /\ [Next]_vars => I'
  <2> SUFFICES ASSUME I, [Next]_vars PROVE I'
    OBVIOUS
  <2>1. KeyTypeOK' /\ KeyInv'
    BY EdgeKeyInvStep DEF TypeOK
  <2>2. EdgeTypeOK'
    BY EdgeTypeStep DEF EdgeInv
  <2>3. TypeOK'
    BY <2>1, <2>2 DEF TypeOK, EdgeTypeOK
  <2>4. EdgeTypeOK /\ KeyTypeOK
    BY DEF TypeOK, EdgeTypeOK
  <2>5. EdgeInv'
    BY <2>4, OnePlaceStep, OnlyServingStep, CookiesSealedStep, WaitingStep DEF EdgeInv
  <2>6. AdmissionJustified' /\ ClearanceHonoured'
    BY AdmissionStep, HonouredStep DEF EdgeInv
  <2>7. QED
    BY <2>1, <2>3, <2>5, <2>6
<1>2. QED
  BY <1>1, EdgeInitially, PTL DEF Spec

(* The request path is type-correct.                                         *)
THEOREM EdgeTypeCorrect == Spec => []TypeOK
BY EdgeInvariant, PTL

(* check_pow's remove-first makes a challenge buy one cookie at most, in a   *)
(* fleet of any size and under any interleaving of verifications, sweeps,    *)
(* crashes and restarts.                                                     *)
THEOREM OneSolveOneClearanceHolds == Spec => []OneSolveOneClearance
<1>1. OnePlace => OneSolveOneClearance
  BY DEF OnePlace, OneSolveOneClearance, InMap, InFlight
<1>2. EdgeInv => OnePlace
  BY DEF EdgeInv
<1>3. QED
  BY <1>1, <1>2, EdgeInvariant, PTL

(* handle forwards nothing, off the bypass paths and the whitelist, without  *)
(* a solve from that address within the session TTL before the request was   *)
(* checked, however long it waits for the rate limiter after that.           *)
THEOREM AdmissionJustifiedHolds == Spec => []AdmissionJustified
BY EdgeInvariant, PTL

(* Until Redis loses the sealing key, a cookie is honoured by every replica  *)
(* of the fleet for the whole session TTL.                                   *)
THEOREM ClearanceHonouredHolds == Spec => []ClearanceHonoured
BY EdgeInvariant, PTL

(* The sweep spares what has not expired, a verification takes only the      *)
(* challenge it was sent, and a fresh challenge is nobody else's.            *)
LEMMA StaysLiveStep ==
    TypeOK /\ OnlyServing /\ HandedOutStaysLive /\ [Next]_vars => HandedOutStaysLive'
<1> SUFFICES ASSUME TypeOK, OnlyServing, HandedOutStaysLive, [Next]_vars,
                    NEW h \in held', now' < deadline'[h.chal]
             PROVE  expiry'[h.rep][h.chal] = deadline'[h.chal]
  BY DEF HandedOutStaysLive
<1>1. ASSUME NEW r \in Replicas, NEW c \in Challenges, NewChallenge(r, c), UNCHANGED now
      PROVE  expiry'[h.rep][h.chal] = deadline'[h.chal]
  <2>1. CASE h \in held
    <3>1. h.rep \in Replicas /\ h.chal \in Challenges /\ h.chal # c
      BY <1>1, <2>1 DEF NewChallenge, OnlyServing, TypeOK, Held
    <3>2. expiry'[h.rep][h.chal] = expiry[h.rep][h.chal] /\ deadline'[h.chal] = deadline[h.chal]
      BY <1>1, <3>1 DEF NewChallenge, TypeOK
    <3>3. QED
      BY <1>1, <2>1, <3>2 DEF HandedOutStaysLive
  <2>2. CASE h = [rep |-> r, chal |-> c]
    BY <1>1, <2>2 DEF NewChallenge, TypeOK
  <2>3. QED
    BY <1>1, <2>1, <2>2 DEF NewChallenge
<1>2. ASSUME NEW r \in Replicas, NEW c \in Challenges, NEW good, NEW ip,
             VerifyTake(r, c, good, ip)
      PROVE  expiry'[h.rep][h.chal] = deadline'[h.chal]
  <2>1. h \in held /\ h.chal # c /\ UNCHANGED <<now, deadline>>
    BY <1>2 DEF VerifyTake
  <2>2. h.rep \in Replicas /\ h.chal \in Challenges
    BY <2>1 DEF TypeOK, Held
  <2>3. expiry'[h.rep][h.chal] = expiry[h.rep][h.chal]
    BY <1>2, <2>1, <2>2 DEF VerifyTake, TypeOK
  <2>4. QED
    BY <2>1, <2>3 DEF HandedOutStaysLive
<1>3. ASSUME NEW r \in Replicas, Sweep(r)
      PROVE  expiry'[h.rep][h.chal] = deadline'[h.chal]
  <2>1. h \in held /\ UNCHANGED <<now, deadline>> /\ h.rep \in Replicas /\ h.chal \in Challenges
    BY <1>3 DEF Sweep, TypeOK, Held
  <2>2. now < expiry[h.rep][h.chal] /\ expiry[h.rep][h.chal] = deadline[h.chal]
    BY <2>1 DEF HandedOutStaysLive
  <2>3. QED
    BY <1>3, <2>1, <2>2 DEF Sweep, TypeOK
<1>4. ASSUME NEW r \in Replicas, EdgeCrash(r)
      PROVE  expiry'[h.rep][h.chal] = deadline'[h.chal]
  <2>1. h \in held /\ h.rep # r /\ UNCHANGED <<now, deadline>> /\ h.rep \in Replicas
    BY <1>4 DEF EdgeCrash, TypeOK, Held
  <2>2. QED
    BY <1>4, <2>1 DEF EdgeCrash, HandedOutStaysLive, TypeOK
<1>5. CASE UNCHANGED <<now, deadline, expiry, held>>
  BY <1>5 DEF HandedOutStaysLive
<1>6. CASE Tick
  <2>1. h \in held /\ UNCHANGED <<deadline, expiry>> /\ now' = now + 1 /\ now \in Nat
    BY <1>6, EdgeAssumption DEF Tick, TypeOK
  <2>2. deadline[h.chal] \in Nat \cup {Absent}
    BY <2>1 DEF TypeOK, Held
  <2>3. now < deadline[h.chal]
    BY <2>1, <2>2 DEF Absent
  <2>4. QED
    BY <2>1, <2>3 DEF HandedOutStaysLive
<1>7. ASSUME NEW r \in Replicas, Handle(r)
      PROVE  expiry'[h.rep][h.chal] = deadline'[h.chal]
  BY <1>1, <1>2, <1>5, <1>7
     DEF Handle, Local, GetChallenge, VerifyBadBody, VerifyReply, RequestBypass,
         RequestChecked, RequestPasses, RequestInterstitial
<1>8. QED
  BY <1>3, <1>4, <1>5, <1>6, <1>7 DEF Next, KeyStep, Upgrade, vars, edgeVars

(* A visitor's challenge is kept by the process that handed it out until its *)
(* deadline, whatever that process does meanwhile.                           *)
THEOREM HandedOutStaysLiveHolds == Spec => []HandedOutStaysLive
<1>1. Init => HandedOutStaysLive
  BY DEF Init, HandedOutStaysLive
<1>2. EdgeInv => OnlyServing
  BY DEF EdgeInv
<1>3. QED
  BY <1>1, <1>2, EdgeInvariant, StaysLiveStep, PTL DEF Spec

-----------------------------------------------------------------------------
(* The refinement of Clearance.  Which of its actions a step is, said of    *)
(* Status, Grants and Admitted first.                                       *)
StatusFacts ==
    /\ Status = [c \in Challenges |-> Status[c]]
    /\ \A c \in Challenges :
          /\ Status[c] \in {"unissued", "open", "spent"}
          /\ Status[c] = "unissued" <=> deadline[c] = Absent
          /\ Status[c] = "open" <=>
                /\ deadline[c] # Absent
                /\ \/ \E r \in Replicas : expiry[r][c] # Absent
                   \/ \E v \in taken : v.chal = c

LEMMA StatusOf == StatusFacts
<1>0. Status = [c \in Challenges |-> Status[c]]
  BY DEF Status
<1> SUFFICES ASSUME NEW c \in Challenges
             PROVE  /\ Status[c] \in {"unissued", "open", "spent"}
                    /\ Status[c] = "unissued" <=> deadline[c] = Absent
                    /\ Status[c] = "open" <=>
                          /\ deadline[c] # Absent
                          /\ \/ \E r \in Replicas : expiry[r][c] # Absent
                             \/ \E v \in taken : v.chal = c
  BY <1>0 DEF StatusFacts
<1>1. InMap(c) # {} <=> \E r \in Replicas : expiry[r][c] # Absent
  BY DEF InMap
<1>2. InFlight(c) # {} <=> \E v \in taken : v.chal = c
  BY DEF InFlight
<1>3. Status[c] = IF deadline[c] = Absent THEN "unissued"
                  ELSE IF InMap(c) # {} \/ InFlight(c) # {} THEN "open" ELSE "spent"
  BY DEF Status
<1>4. CASE deadline[c] = Absent
  BY <1>3, <1>4
<1>5. CASE deadline[c] # Absent /\ (InMap(c) # {} \/ InFlight(c) # {})
  BY <1>1, <1>2, <1>3, <1>5
<1>6. CASE deadline[c] # Absent /\ ~(InMap(c) # {} \/ InFlight(c) # {})
  BY <1>1, <1>2, <1>3, <1>6
<1> QED
  BY <1>4, <1>5, <1>6

LEMMA StatusNext == StatusFacts'
BY StatusOf, PTL

(* A step that clears nobody, lets nobody through and only closes           *)
(* challenges and drops requests gives those up.                            *)
LEMMA Retires ==
    ASSUME UNCHANGED <<now, deadline, cookies>>, Admitted' = None,
           waiting' \subseteq waiting,
           \A c \in Challenges : \/ Status'[c] = Status[c]
                                 \/ Status[c] = "open" /\ Status'[c] = "spent"
    PROVE  Promise!Next
<1> DEFINE S == {c \in Challenges : Status[c] = "open" /\ Status'[c] = "spent"}
<1>1. \A c \in S : Status[c] = "open"
  OBVIOUS
<1>2. Status' = [c \in Challenges |-> IF c \in S THEN "spent" ELSE Status[c]]
  <2>1. Status' = [c \in Challenges |-> Status'[c]]
    BY StatusNext DEF StatusFacts
  <2>2. \A c \in Challenges : Status'[c] = IF c \in S THEN "spent" ELSE Status[c]
    OBVIOUS
  <2> QED
    BY <2>1, <2>2
<1>3. Grants' = Grants
  BY DEF Grants
<1> HIDE DEF S
<1> DEFINE T == Entered \ Entered'
<1>4. Entered' = Entered \ T /\ T \in SUBSET Entered
  <2>1. Entered' \subseteq Entered
    BY DEF Entered
  <2> QED
    BY <2>1
<1> HIDE DEF T
<1>5. Promise!GiveUp(S, T)
  BY <1>1, <1>2, <1>3, <1>4 DEF Promise!GiveUp
<1>6. S \in SUBSET Challenges
  BY DEF S
<1> QED
  BY <1>4, <1>5, <1>6 DEF Promise!Next

(* Maps and verifications that only lose entries close challenges.          *)
LEMMA ShrinkRetires ==
    ASSUME UNCHANGED <<now, deadline, cookies>>, Admitted' = None,
           \A r \in Replicas, c \in Challenges : expiry'[r][c] \in {expiry[r][c], Absent},
           taken' \subseteq taken, waiting' \subseteq waiting
    PROVE  Promise!Next
<1>1. ASSUME NEW c \in Challenges
      PROVE  \/ Status'[c] = Status[c]
             \/ Status[c] = "open" /\ Status'[c] = "spent"
  <2>1. Status'[c] = "open" => Status[c] = "open"
    BY StatusOf, StatusNext DEF StatusFacts
  <2>2. Status'[c] = "unissued" <=> Status[c] = "unissued"
    BY StatusOf, StatusNext DEF StatusFacts
  <2>3. /\ Status[c] \in {"unissued", "open", "spent"}
        /\ Status'[c] \in {"unissued", "open", "spent"}
    BY StatusOf, StatusNext DEF StatusFacts
  <2> QED
    BY <2>1, <2>2, <2>3
<1> QED
  BY <1>1, Retires

(* Handing out a challenge issues it.                                       *)
LEMMA NewChallengeIssues ==
    ASSUME EdgeTypeOK, OnePlace, NEW r \in Replicas, NEW c \in Challenges, NewChallenge(r, c),
           UNCHANGED <<now, taken, waiting, cookies>>, Admitted' = None
    PROVE  Promise!Next
<1>1. deadline[c] = Absent /\ deadline' = [deadline EXCEPT ![c] = now + ChallengeTtl]
  BY DEF NewChallenge
<1>2. now + ChallengeTtl \in Nat /\ Absent \notin Nat
  BY EdgeAssumption DEF EdgeTypeOK, Absent
<1>3. deadline'[c] # Absent /\ expiry'[r][c] # Absent
  BY <1>2 DEF NewChallenge, EdgeTypeOK
<1>4. Status[c] = "unissued" /\ Status'[c] = "open"
  BY <1>1, <1>3, StatusOf, StatusNext DEF StatusFacts
<1>5. ASSUME NEW d \in Challenges, d # c PROVE Status'[d] = Status[d]
  <2>1. deadline'[d] = deadline[d] /\ \A q \in Replicas : expiry'[q][d] = expiry[q][d]
    BY <1>5 DEF NewChallenge, EdgeTypeOK
  <2>2. /\ Status'[d] = "open" <=> Status[d] = "open"
        /\ Status'[d] = "unissued" <=> Status[d] = "unissued"
    BY <2>1, StatusOf, StatusNext DEF StatusFacts
  <2>3. /\ Status[d] \in {"unissued", "open", "spent"}
        /\ Status'[d] \in {"unissued", "open", "spent"}
    BY StatusOf, StatusNext DEF StatusFacts
  <2> QED
    BY <2>2, <2>3
<1>6. Status' = [Status EXCEPT ![c] = "open"]
  <2>1. /\ Status = [d \in Challenges |-> Status[d]]
        /\ Status' = [d \in Challenges |-> Status'[d]]
    BY StatusOf, StatusNext DEF StatusFacts
  <2> QED
    BY <1>4, <1>5, <2>1
<1>7. Grants' = Grants /\ Entered' = Entered
  BY DEF Grants, Entered
<1>8. Promise!Issue(c)
  BY <1>1, <1>4, <1>6, <1>7 DEF Promise!Issue
<1> QED
  BY <1>8 DEF Promise!Next

(* Taking an entry out of the map leaves its challenge open, in the hands   *)
(* of the verification.                                                     *)
LEMMA VerifyTakeRetires ==
    ASSUME EdgeTypeOK, OnePlace, NEW r \in Replicas, NEW c \in Challenges, NEW good, NEW ip,
           VerifyTake(r, c, good, ip)
    PROVE  Promise!Next
<1>1. Admitted' = None /\ UNCHANGED <<now, deadline, waiting, cookies>>
  <2>1. resp'.kind # "proxied"
    BY VerifyTakeReply
  <2> QED
    BY <2>1 DEF Admitted, VerifyTake
<1>2. CASE expiry[r][c] = Absent
  <2>1. UNCHANGED <<expiry, taken>>
    BY <1>2 DEF VerifyTake
  <2> QED
    BY <1>1, <2>1, ShrinkRetires
<1>3. CASE expiry[r][c] # Absent
  <2>1. PICK v : v.chal = c /\ taken' = taken \cup {v}
    BY <1>3 DEF VerifyTake
  <2>2. deadline[c] # Absent
    BY <1>3 DEF OnePlace
  <2>3. \A q \in Replicas, d \in Challenges :
           expiry'[q][d] = IF q = r /\ d = c THEN Absent ELSE expiry[q][d]
    BY <1>3 DEF VerifyTake, EdgeTypeOK
  <2>4. ASSUME NEW d \in Challenges PROVE Status'[d] = Status[d]
    <3>1. CASE d = c
      <4>1. Status[d] = "open"
        BY <1>3, <2>2, <3>1, StatusOf DEF StatusFacts
      <4>2. Status'[d] = "open"
        BY <1>1, <2>1, <2>2, <3>1, StatusNext DEF StatusFacts
      <4> QED
        BY <4>1, <4>2
    <3>2. CASE d # c
      <4>1. /\ \A q \in Replicas : expiry'[q][d] = expiry[q][d]
            /\ (\E w \in taken' : w.chal = d) <=> (\E w \in taken : w.chal = d)
        BY <2>1, <2>3, <3>2
      <4>2. /\ Status'[d] = "open" <=> Status[d] = "open"
            /\ Status'[d] = "unissued" <=> Status[d] = "unissued"
        BY <1>1, <4>1, StatusOf, StatusNext DEF StatusFacts
      <4>3. /\ Status[d] \in {"unissued", "open", "spent"}
            /\ Status'[d] \in {"unissued", "open", "spent"}
        BY StatusOf, StatusNext DEF StatusFacts
      <4> QED
        BY <4>2, <4>3
    <3> QED
      BY <3>1, <3>2
  <2> QED
    BY <1>1, <2>4, Retires
<1> QED
  BY <1>2, <1>3

(* A verification that accepts redeems its challenge before its deadline;   *)
(* one that does not retires it.                                            *)
LEMMA VerifyReplyRedeems ==
    ASSUME EdgeTypeOK, OnePlace, NEW v \in taken, VerifyReply(v)
    PROVE  Promise!Next
<1>1. UNCHANGED <<now, deadline, expiry, waiting>> /\ taken' = taken \ {v}
  BY DEF VerifyReply
<1>2. Admitted' = None
  <2>1. resp'.kind # "proxied"
    BY DEF VerifyReply, Send, NoReply
  <2> QED
    BY <2>1 DEF Admitted
<1>3. CASE ~Accepts(v)
  <2>1. UNCHANGED cookies
    BY <1>3 DEF VerifyReply
  <2> QED
    BY <1>1, <1>2, <2>1, ShrinkRetires
<1>4. CASE Accepts(v)
  <2> DEFINE c == v.chal
  <2>1. c \in Challenges /\ v.ip \in Ips /\ v.exp \in Nat /\ v.rep \in Replicas
    BY DEF EdgeTypeOK, Check
  <2>2. /\ v.exp = deadline[c]
        /\ \A q \in Replicas : expiry[q][c] = Absent
        /\ \A w \in taken : w.chal = c => w = v
    BY DEF OnePlace
  <2>3. deadline[c] # Absent /\ now <= deadline[c]
    BY <1>4, <2>1, <2>2 DEF Accepts, Absent
  <2>4. Status[c] = "open"
    BY <2>1, <2>3, StatusOf DEF StatusFacts
  <2>5. Status'[c] = "spent"
    <3>1. Status'[c] \in {"unissued", "open", "spent"} /\ Status'[c] # "unissued"
      BY <1>1, <2>1, <2>3, StatusNext DEF StatusFacts
    <3>2. ~ \E w \in taken' : w.chal = c
      BY <1>1, <2>2
    <3>3. ~ \E q \in Replicas : expiry'[q][c] # Absent
      BY <1>1, <2>2
    <3>4. Status'[c] # "open"
      BY <2>1, <3>2, <3>3, StatusNext DEF StatusFacts
    <3> QED
      BY <3>1, <3>4
  <2>6. ASSUME NEW d \in Challenges, d # c PROVE Status'[d] = Status[d]
    <3>1. (\E w \in taken' : w.chal = d) <=> (\E w \in taken : w.chal = d)
      BY <1>1, <2>6
    <3>2. /\ Status'[d] = "open" <=> Status[d] = "open"
          /\ Status'[d] = "unissued" <=> Status[d] = "unissued"
      BY <1>1, <3>1, StatusOf, StatusNext DEF StatusFacts
    <3>3. /\ Status[d] \in {"unissued", "open", "spent"}
          /\ Status'[d] \in {"unissued", "open", "spent"}
      BY StatusOf, StatusNext DEF StatusFacts
    <3> QED
      BY <3>2, <3>3
  <2>7. Status' = [Status EXCEPT ![c] = "spent"]
    <3>1. /\ Status = [d \in Challenges |-> Status[d]]
          /\ Status' = [d \in Challenges |-> Status'[d]]
      BY StatusOf, StatusNext DEF StatusFacts
    <3> QED
      BY <2>5, <2>6, <3>1
  <2>8. Grants' = Grants \cup {[chal |-> c, ip |-> v.ip, born |-> now]}
    <3> DEFINE k == CreateCookie(v.rep, v.ip, c)
    <3>1. cookies' = cookies \cup {k}
      BY <1>4 DEF VerifyReply
    <3>2. k.chal = c /\ k.ip = v.ip /\ k.born = now
      BY DEF CreateCookie
    <3> HIDE DEF k, c
    <3>3. Grants' = {[chal |-> l.chal, ip |-> l.ip, born |-> l.born] : l \in cookies'}
      BY DEF Grants
    <3>4. Grants' = Grants \cup {[chal |-> k.chal, ip |-> k.ip, born |-> k.born]}
      BY <3>1, <3>3 DEF Grants
    <3> QED
      BY <3>2, <3>4
  <2>10. Entered' = Entered
    BY <1>1 DEF Entered
  <2> HIDE DEF c
  <2>9. Promise!Redeem(c, v.ip)
    BY <1>1, <1>2, <2>3, <2>4, <2>7, <2>8, <2>10 DEF Promise!Redeem
  <2> QED
    BY <2>1, <2>9 DEF Promise!Next
<1> QED
  BY <1>3, <1>4

(* A request that passes its check enters.                                  *)
LEMMA RequestCheckedEnters ==
    ASSUME TypeOK, CookiesSealed, NEW r \in Replicas, NEW cookie \in cookies \cup {None},
           NEW ip \in Ips, RequestChecked(r, cookie, ip)
    PROVE  Promise!Next
<1>1. UNCHANGED <<now, deadline, expiry, taken, cookies>> /\ resp' = NoReply
  BY DEF RequestChecked
<1>2. Admitted' = None
  BY <1>1 DEF Admitted, NoReply
<1>3. Status' = Status /\ Grants' = Grants
  BY <1>1 DEF Status, InMap, InFlight, Grants
<1>4. ip \in Perm \/ Promise!Cleared(ip)
  <2>1. ClearedAt(ip, now)
    BY AllowedIsCleared DEF RequestChecked
  <2>2. ASSUME NEW k \in cookies, k.ip = ip, now <= k.born + SessionTtl + Tolerance
        PROVE  Promise!Cleared(ip)
    <3> DEFINE g == [chal |-> k.chal, ip |-> k.ip, born |-> k.born]
    <3>1. g \in Grants /\ g.ip = ip /\ g.born = k.born
      BY <2>2 DEF Grants
    <3> HIDE DEF g
    <3> QED
      BY <2>2, <3>1 DEF Promise!Cleared
  <2> QED
    BY <2>1, <2>2 DEF ClearedAt
<1>5. Entered' = Entered \cup {[ip |-> ip, at |-> now]}
  <2> DEFINE w == [rep |-> r, ip |-> ip, at |-> now]
  <2>1. waiting' = waiting \cup {w} /\ w.ip = ip /\ w.at = now
    BY DEF RequestChecked
  <2> HIDE DEF w
  <2>2. Entered' = {[ip |-> v.ip, at |-> v.at] : v \in waiting'}
    BY DEF Entered
  <2>3. Entered' = Entered \cup {[ip |-> w.ip, at |-> w.at]}
    BY <2>1, <2>2 DEF Entered
  <2> QED
    BY <2>1, <2>3
<1>6. Promise!Enter(ip)
  BY <1>1, <1>2, <1>3, <1>4, <1>5 DEF Promise!Enter
<1> QED
  BY <1>6 DEF Promise!Next

(* A request the limiter lets go on to the origin is one that entered; one  *)
(* that ends otherwise is given up.                                         *)
LEMMA RequestPassesAdmits ==
    ASSUME NEW w \in waiting, RequestPasses(w)
    PROVE  Promise!Next
<1>1. /\ UNCHANGED <<now, deadline, expiry, taken, cookies>>
      /\ waiting' = waiting \ {w}
      /\ resp'.ip = w.ip /\ resp'.at = w.at
  BY DEF RequestPasses, NoReply
<1>2. CASE ~(resp'.kind = "proxied" /\ ~resp'.bypass)
  <2>1. Admitted' = None
    BY <1>2 DEF Admitted
  <2> QED
    BY <1>1, <2>1, ShrinkRetires
<1>3. CASE resp'.kind = "proxied" /\ ~resp'.bypass
  <2> DEFINE e == [ip |-> w.ip, at |-> w.at]
  <2>1. Admitted' = e
    BY <1>1, <1>3 DEF Admitted
  <2>2. Status' = Status /\ Grants' = Grants
    BY <1>1 DEF Status, InMap, InFlight, Grants
  <2>3. e \in Entered
    BY DEF Entered
  <2>4. Entered' \subseteq Entered /\ \A f \in Entered : f # e => f \in Entered'
    BY <1>1 DEF Entered
  <2> HIDE DEF e
  <2>5. Entered' = Entered \/ Entered' = Entered \ {e}
    BY <2>4
  <2>6. Promise!Admit(e)
    BY <1>1, <2>1, <2>2, <2>3, <2>5 DEF Promise!Admit
  <2> QED
    BY <2>3, <2>6 DEF Promise!Next
<1> QED
  BY <1>2, <1>3

(* Every step of the fleet is a step of Clearance, or none.                 *)
LEMMA ClearanceStep ==
    TypeOK /\ OnePlace /\ CookiesSealed /\ [Next]_vars => [Promise!Next]_Promise!vars
<1> SUFFICES ASSUME TypeOK, OnePlace, CookiesSealed, [Next]_vars
             PROVE  Promise!Next \/ UNCHANGED Promise!vars
  OBVIOUS
<1>0. EdgeTypeOK
  BY DEF TypeOK, EdgeTypeOK
<1>1. ASSUME NEW r \in Replicas, Handle(r) PROVE Promise!Next
  <2>1. CASE Local(r) \/ VerifyBadBody(r)
    <3>1. UNCHANGED <<now, deadline, expiry, taken, waiting, cookies>> /\ resp'.kind # "proxied"
      BY <2>1 DEF Local, VerifyBadBody, Send, NoReply
    <3>2. Admitted' = None
      BY <3>1 DEF Admitted
    <3> QED
      BY <3>1, <3>2, ShrinkRetires
  <2>2. CASE GetChallenge(r)
    <3>1. Admitted' = None
      BY <2>2 DEF GetChallenge, Send, NoReply, Admitted
    <3> QED
      BY <1>0, <2>2, <3>1, NewChallengeIssues DEF GetChallenge
  <2>3. ASSUME NEW c \in Challenges, NEW good, NEW ip, VerifyTake(r, c, good, ip)
        PROVE  Promise!Next
    BY <1>0, <2>3, VerifyTakeRetires
  <2>4. ASSUME NEW v \in taken, VerifyReply(v) PROVE Promise!Next
    BY <1>0, <2>4, VerifyReplyRedeems
  <2>5. ASSUME NEW cookie \in cookies \cup {None}, NEW ip \in Ips, RequestChecked(r, cookie, ip)
        PROVE  Promise!Next
    BY <2>5, RequestCheckedEnters
  <2>6. ASSUME NEW cookie, NEW ip, RequestInterstitial(r, cookie, ip) PROVE Promise!Next
    <3>1. Admitted' = None
      BY <2>6 DEF RequestInterstitial, NoReply, Admitted
    <3> QED
      BY <1>0, <2>6, <3>1, NewChallengeIssues DEF RequestInterstitial
  <2>7. ASSUME NEW ip, RequestBypass(r, ip) PROVE Promise!Next
    <3>1. UNCHANGED <<now, deadline, expiry, taken, waiting, cookies>> /\ resp'.bypass
      BY <2>7 DEF RequestBypass, NoReply
    <3>2. Admitted' = None
      BY <3>1 DEF Admitted
    <3> QED
      BY <3>1, <3>2, ShrinkRetires
  <2>8. ASSUME NEW w \in waiting, RequestPasses(w) PROVE Promise!Next
    BY <2>8, RequestPassesAdmits
  <2> QED
    BY <1>1, <2>1, <2>2, <2>3, <2>4, <2>5, <2>6, <2>7, <2>8, RealIpsAreIps DEF Handle
<1>2a. ASSUME NEW r \in Replicas, Upgrade(r) PROVE Promise!Next
  <2>1. UNCHANGED <<now, deadline, expiry, taken, waiting, cookies>> /\ resp'.kind # "proxied"
    BY <1>2a DEF Upgrade, Send, NoReply
  <2>2. Admitted' = None
    BY <2>1 DEF Admitted
  <2> QED
    BY <2>1, <2>2, ShrinkRetires
<1>2. ASSUME NEW r \in Replicas, Sweep(r) \/ EdgeCrash(r) PROVE Promise!Next
  <2>1. /\ UNCHANGED <<now, deadline, cookies>> /\ taken' \subseteq taken
        /\ waiting' \subseteq waiting /\ resp' = NoReply
    BY <1>2 DEF Sweep, EdgeCrash
  <2>2. \A q \in Replicas, c \in Challenges : expiry'[q][c] \in {expiry[q][c], Absent}
    BY <1>0, <1>2 DEF Sweep, EdgeCrash, EdgeTypeOK
  <2>3. Admitted' = None
    BY <2>1 DEF Admitted, NoReply
  <2> QED
    BY <2>1, <2>2, <2>3, ShrinkRetires
<1>3. CASE KeyStep
  <2>1. UNCHANGED <<now, deadline, expiry, taken, waiting, cookies>> /\ resp' = NoReply
    BY <1>3 DEF KeyStep
  <2>2. Admitted' = None
    BY <2>1 DEF Admitted, NoReply
  <2> QED
    BY <2>1, <2>2, ShrinkRetires
<1>4. CASE Tick
  <2>1. UNCHANGED <<deadline, expiry, taken, waiting, cookies>> /\ resp' = NoReply /\ now' = now + 1
    BY <1>4 DEF Tick
  <2>2. Admitted' = None
    BY <2>1 DEF Admitted, NoReply
  <2>3. Status' = Status /\ Grants' = Grants /\ Entered' = Entered
    BY <2>1 DEF Status, InMap, InFlight, Grants, Entered
  <2>4. Promise!Advance
    BY <2>1, <2>2, <2>3 DEF Promise!Advance
  <2> QED
    BY <2>4 DEF Promise!Next
<1>5. CASE UNCHANGED vars
  <2>1. UNCHANGED <<now, deadline, expiry, taken, waiting, cookies, resp>>
    BY <1>5 DEF vars, edgeVars
  <2>2. UNCHANGED <<Status, Grants, Entered, Admitted>>
    BY <2>1 DEF Status, InMap, InFlight, Grants, Entered, Admitted
  <2> QED
    BY <2>1, <2>2 DEF Promise!vars
<1> QED
  BY <1>1, <1>2, <1>2a, <1>3, <1>4, <1>5 DEF Next

(* A fleet of any size, whose replicas share nothing but a sealing key and  *)
(* crash and restart at any time, behaves as the one guard that Clearance   *)
(* describes: one solve per challenge, in time; one clearance per solve; no *)
(* request forwarded by handle that did not enter under a clearance.        *)
(* WebSocket upgrades and bypass paths are exempt from the promise.         *)
THEOREM EdgeImplementsClearance == Spec => ImplementsClearance
<1>1. Init => Promise!Init
  <2> SUFFICES ASSUME Init PROVE Promise!Init
    OBVIOUS
  <2>1. now = 0 /\ deadline = [c \in Challenges |-> -1] /\ cookies = {} /\ resp = NoReply
       /\ waiting = {}
    BY DEF Init, Absent
  <2>2. Grants = {} /\ Entered = {} /\ Admitted = None
    BY <2>1 DEF Grants, Entered, Admitted, NoReply
  <2>3. Status = [c \in Challenges |-> "unissued"]
    BY DEF Init, Status
  <2> QED
    BY <2>1, <2>2, <2>3 DEF Promise!Init
<1>2. EdgeInv => OnePlace /\ CookiesSealed
  BY DEF EdgeInv
<1> QED
  BY <1>1, <1>2, ClearanceStep, EdgeInvariant, PTL DEF Spec, ImplementsClearance, Promise!Spec

=============================================================================
