------------------------------- MODULE RateLimit -------------------------------
(***************************************************************************)
(* The per-address token bucket: ratelimit::allow                          *)
(* (nekoguard/src/ratelimit.rs) as handle calls it.  The bucket is a Redis *)
(* hash shared by all replicas; one check reads the clock, then issues     *)
(* HMGET, HMSET and EXPIRE as separate commands.  Inside a process the     *)
(* checks take turns, because handle holds the tokio mutex around the one  *)
(* connection for the whole check; across replicas nothing orders them.    *)
(*                                                                         *)
(* Time is counted in ticks, Second of them to the second.  The f64        *)
(* arithmetic is exact here.  Any command may fail, and the code carries   *)
(* on as if the bucket were full (HMGET) or as if nothing had happened.    *)
(***************************************************************************)
EXTENDS Integers

CONSTANTS
    Replicas,      \* the processes
    Ips,           \* client addresses: one bucket each
    Rps, Rpm, Burst, \* RateLimitConfig, enabled and with rps > 0
    Second,        \* ticks per second (1000 in the code)
    KeyTtl,        \* ticks the EXPIRE gives a bucket (an hour)
    MaxTime,       \* bound: the clock stops here
    MaxFaults,     \* bound: commands that fail and processes that die
    MaxRaces,      \* bound: after as many races, checks begin one by one
    None           \* no bucket, no time to live, no address

ASSUME RateLimitAssumption ==
    /\ Rps \in Nat \ {0}
    /\ Rpm \in Nat
    /\ Burst \in Nat \ {0}
    /\ Second \in Nat \ {0}
    /\ KeyTtl \in Nat
    /\ MaxTime \in Nat
    /\ MaxFaults \in Nat
    /\ MaxRaces \in Nat
    /\ None \notin Nat
    /\ None \notin Ips
    /\ None \notin [tokens : Nat, last : Nat]

VARIABLES
    now,           \* SystemTime, the same at every replica
    bucket,        \* Redis: per address, {tokens, last_refill_ms} or None
    ttl,           \* Redis: per address, when the key expires, or None
    pc,            \* per replica: the command its check is about to send
    check,         \* per replica: the address, now_ms and HMGET's answer
    verdict,       \* what the last step answered handle, or None
    since,         \* history: start of a window, chosen once and for all
    admitted,      \* history: per address, requests let in from then on
    stamp,         \* history: per address, now_ms of the latest check
    lastOk,        \* history: per address, now_ms of the latest admission
    races,         \* history: writes made while another replica was in the
                   \* middle of a check of the same address
    mishaps        \* history: commands that failed, processes that died and
                   \* buckets that expired in the middle of a check

redis == <<bucket, ttl>>
history == <<since, admitted, stamp, lastOk, races>>
vars == <<now, redis, pc, check, verdict, history, mishaps>>

Bucket == [tokens : Nat, last : Nat]
Full(t) == [tokens |-> Burst, last |-> t]

TypeOK ==
    /\ now \in 0..MaxTime
    /\ bucket \in [Ips -> Bucket \cup {None}]
    /\ ttl \in [Ips -> Nat \cup {None}]
    /\ pc \in [Replicas -> {"idle", "hmget", "hmset", "expire"}]
    /\ check \in [Replicas -> [ip : Ips, at : Nat, read : Bucket] \cup {None}]
    /\ verdict \in [ip : Ips, ok : BOOLEAN, gap : Int, starved : Int] \cup {None}
    /\ since \in Nat
    /\ admitted \in [Ips -> Nat]
    /\ stamp \in [Ips -> Int]
    /\ lastOk \in [Ips -> Int]
    /\ races \in Nat
    /\ mishaps \in Nat

Init ==
    /\ now = 0
    /\ bucket = [i \in Ips |-> None]
    /\ ttl = [i \in Ips |-> None]
    /\ pc = [r \in Replicas |-> "idle"]
    /\ check = [r \in Replicas |-> None]
    /\ verdict = None
    /\ since \in 0..MaxTime
    /\ admitted = [i \in Ips |-> 0]
    /\ stamp = [i \in Ips |-> 0]
    /\ lastOk = [i \in Ips |-> 0]
    /\ races = 0
    /\ mishaps = 0

-----------------------------------------------------------------------------
(* A command that fails is paid for out of the fault budget.                *)
Works == UNCHANGED mishaps
Fails == mishaps < MaxFaults /\ mishaps' = mishaps + 1

Least(a, b) == IF a < b THEN a ELSE b

(* saturating_sub                                                           *)
Elapsed(t, last) == IF t > last THEN t - last ELSE 0

(* Faulty: the bucket is not refilled.                                      *)
RefilledNever(b, t) == Least(b.tokens, Burst)

(* The refill, capped at the burst and floored: the fraction is dropped.    *)
Refilled(b, t) ==
    Least(b.tokens + (Elapsed(t, b.last) * Rps) \div Second, Burst)

(* "Also enforce RPM limit": a test on the level of the bucket.             *)
WithinRpm(tokens) == Rpm > 0 => tokens <= Rpm

(* Faulty: an empty bucket passes, and its level goes below zero.           *)
PermitsAtZero(b, t) == WithinRpm(Refilled(b, t))

(* A whole token is there to take.                                          *)
Permits(b, t) == Refilled(b, t) >= 1 /\ WithinRpm(Refilled(b, t))

(* Faulty: a request that is let in is not charged for.                     *)
WrittenUncharged(b, t) == [tokens |-> Refilled(b, t), last |-> t]

(* The bucket the check writes back, with either verdict.                   *)
Written(b, t) ==
    [tokens |-> IF Permits(b, t) THEN Refilled(b, t) - 1
                ELSE IF Rpm > 0 THEN Least(Refilled(b, t), Rpm) ELSE Refilled(b, t),
     last |-> t]

-----------------------------------------------------------------------------
(* Another replica has begun a check of i and not yet written its outcome.  *)
Raced(r, i) ==
    \E q \in Replicas \ {r} : pc[q] \in {"hmget", "hmset"} /\ check[q].ip = i

(* handle takes the connection's mutex; allow reads the clock.              *)
Begin(r, i) ==
    /\ pc[r] = "idle"
    /\ Raced(r, i) => races < MaxRaces
    /\ pc' = [pc EXCEPT ![r] = "hmget"]
    /\ check' = [check EXCEPT ![r] = [ip |-> i, at |-> now, read |-> Full(now)]]
    /\ verdict' = None
    /\ UNCHANGED <<now, redis, history, mishaps>>

(* HMGET: a missing hash and a failed command both leave a full bucket.     *)
Hmget(r) ==
    /\ pc[r] = "hmget"
    /\ LET i == check[r].ip IN
          \/ Works /\ check' = [check EXCEPT ![r].read =
                                  IF bucket[i] = None THEN @ ELSE bucket[i]]
          \/ Fails /\ UNCHANGED check
    /\ pc' = [pc EXCEPT ![r] = "hmset"]
    /\ verdict' = None
    /\ UNCHANGED <<now, redis, history>>

(* The verdict, and HMSET with what is left; a failed HMSET is ignored.     *)
(* HMSET leaves the key's time to live as it was.                           *)
Hmset(r) ==
    /\ pc[r] = "hmset"
    /\ LET i == check[r].ip
           t == check[r].at
           ok == Permits(check[r].read, t)
       IN /\ \/ Works /\ bucket' = [bucket EXCEPT ![i] = Written(check[r].read, t)]
             \/ Fails /\ UNCHANGED bucket
          /\ verdict' = [ip |-> i, ok |-> ok, gap |-> t - stamp[i],
                         starved |-> t - lastOk[i]]
          /\ admitted' = IF ok /\ t >= since THEN [admitted EXCEPT ![i] = @ + 1]
                                             ELSE admitted
          /\ stamp' = [stamp EXCEPT ![i] = t]
          /\ lastOk' = IF ok THEN [lastOk EXCEPT ![i] = t] ELSE lastOk
          /\ races' = IF Raced(r, i) THEN races + 1 ELSE races
    /\ pc' = [pc EXCEPT ![r] = "expire"]
    /\ UNCHANGED <<now, ttl, check, since>>

(* EXPIRE, if there is a key to set it on; then the mutex is released.      *)
Expire(r) ==
    /\ pc[r] = "expire"
    /\ LET i == check[r].ip IN
          \/ Works /\ ttl' = IF bucket[i] = None THEN ttl
                              ELSE [ttl EXCEPT ![i] = now + KeyTtl]
          \/ Fails /\ UNCHANGED ttl
    /\ pc' = [pc EXCEPT ![r] = "idle"]
    /\ check' = [check EXCEPT ![r] = None]
    /\ verdict' = None
    /\ UNCHANGED <<now, bucket, history>>

(* The process dies in the middle of a check.                               *)
Die(r) ==
    /\ pc[r] # "idle"
    /\ Fails
    /\ pc' = [pc EXCEPT ![r] = "idle"]
    /\ check' = [check EXCEPT ![r] = None]
    /\ verdict' = None
    /\ UNCHANGED <<now, redis, history>>

UnderCheck(i) == \E r \in Replicas : pc[r] # "idle" /\ check[r].ip = i

(* Redis drops a bucket whose hour is up -- also between a check's HMSET,   *)
(* which does not renew the hour, and its EXPIRE.                           *)
KeyExpires(i) ==
    /\ ttl[i] # None
    /\ now >= ttl[i]
    /\ mishaps' = IF UnderCheck(i) THEN mishaps + 1 ELSE mishaps
    /\ bucket' = [bucket EXCEPT ![i] = None]
    /\ ttl' = [ttl EXCEPT ![i] = None]
    /\ verdict' = None
    /\ UNCHANGED <<now, pc, check, history>>

Tick ==
    /\ now < MaxTime
    /\ now' = now + 1
    /\ verdict' = None
    /\ UNCHANGED <<redis, pc, check, history, mishaps>>

Allow(r) == Hmget(r) \/ Hmset(r) \/ Expire(r)

Next ==
    \/ \E r \in Replicas, i \in Ips : Begin(r, i)
    \/ \E r \in Replicas : Allow(r) \/ Die(r)
    \/ \E i \in Ips : KeyExpires(i)
    \/ Tick

Spec == Init /\ [][Next]_vars

-----------------------------------------------------------------------------
(* The tokens that accrue in n ticks, in units of 1/Second of a token.      *)
Accrual(n) == Rps * n

(* Token-bucket conformance: in any window, the requests let in for an      *)
(* address are at most a burst plus what accrued since the window began --  *)
(* with each failed command, each death or expiry in the middle of a check, *)
(* and each write that races with another replica's check, costing one more *)
(* burst at most.  Otherwise losing the bucket to its time to live gives    *)
(* nothing away, provided a burst refills within it.                        *)
Conforms ==
    Second * Burst <= Accrual(KeyTtl) =>
        \A i \in Ips : Second * admitted[i] <=
            Second * Burst * (1 + mishaps + races)
              + Accrual(IF now > since THEN now - since ELSE 0)

(* A client that leaves the time of one token between its requests is never *)
(* refused, whichever replicas they go to, provided the per-minute test     *)
(* lets a full bucket pass and no two checks raced.                         *)
PatientNeverRefused ==
    (Rpm = 0 \/ Burst <= Rpm) /\ verdict # None /\ races = 0 =>
        verdict.ok \/ Accrual(verdict.gap) < Second

(* ratelimit.rs: "Rate limited -- still update last_refill_ms so tokens     *)
(* refill correctly".  Were they, a client would be refused only while less *)
(* than one token accrued since it was last let in.                         *)
RefusedOnlyWhenEmpty ==
    verdict # None => verdict.ok \/ Accrual(verdict.starved) < Second

=============================================================================
