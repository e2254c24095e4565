--------------------------- MODULE RateLimitProofs ---------------------------
(* Proofs about RateLimit, for any rate, burst, time to live and number of   *)
(* addresses.  The types are proved for any fleet; conformance and the       *)
(* promise to the patient where one process does the checking, because the   *)
(* checks of two replicas are ordered by nothing: what their races cost is   *)
(* only model-checked.                                                       *)
EXTENDS RateLimit, TLAPS

OneProcess == \A r, s \in Replicas : r = s

Check == [ip : Ips, at : Nat, read : Bucket]

(* A replica in the middle of a check knows of which address, and takes the  *)
(* bucket to be full until HMGET has answered.                               *)
CheckInv ==
    \A r \in Replicas :
        /\ pc[r] # "idle" => check[r] \in Check
        /\ pc[r] = "hmget" => check[r].read = Full(check[r].at)

(* Time does not run backwards between the checks of one process.            *)
ClockInv ==
    /\ \A i \in Ips : stamp[i] <= now
    /\ \A i \in Ips : bucket[i] # None => bucket[i].last <= stamp[i]
    /\ \A r \in Replicas : pc[r] # "idle" =>
          stamp[check[r].ip] <= check[r].at /\ check[r].at <= now
    /\ \A r \in Replicas : pc[r] = "hmset" =>
          \/ check[r].read = Full(check[r].at)
          \/ check[r].read.last <= stamp[check[r].ip]

-----------------------------------------------------------------------------
(* The books of one address, in units of 1/Second of a token.                *)
Cost(n) == Second * n
Bursts(m) == Second * Burst * m

(* What has accrued by time u since the window began at s.                   *)
Acc(s, u) == Accrual(IF u > s THEN u - s ELSE 0)

(* n requests let in, and the tokens of bucket b besides, are paid for.      *)
Covered(n, b, m, s) ==
    /\ Cost(n) + Cost(b.tokens) <= Bursts(1 + m) + Acc(s, b.last)
    /\ b.last < s => Cost(n) <= Bursts(m)

(* A burst more than b is paid for: b may be lost.                           *)
Slack(n, b, m, s) == Cost(n) + Cost(b.tokens) <= Bursts(m) + Acc(s, b.last)

(* A full bucket at time u is paid for, besides n requests let in.           *)
Spare(n, u, m, s) == Cost(n) <= Bursts(m) + Acc(s, u)

(* A check of i is going to take a bucket it does not find for a full one.   *)
Pending(r, i) == pc[r] \in {"hmget", "hmset"} /\ check[r].ip = i

BudgetInv ==
    /\ \A i \in Ips : bucket[i] # None => Covered(admitted[i], bucket[i], mishaps, since)
    /\ \A i \in Ips : bucket[i] = None /\ (\A r \in Replicas : ~Pending(r, i)) =>
          Spare(admitted[i], now, mishaps, since)
    /\ \A r \in Replicas, i \in Ips : bucket[i] = None /\ Pending(r, i) =>
          Spare(admitted[i], check[r].at, mishaps, since)
    /\ \A r \in Replicas : pc[r] = "hmset" =>
          /\ Covered(admitted[check[r].ip], check[r].read, mishaps, since)
          /\ check[r].read.last <= check[r].at
    /\ \A i \in Ips :
          /\ bucket[i] # None /\ ttl[i] # None
          /\ \A r \in Replicas : ~(pc[r] = "expire" /\ check[r].ip = i)
          => \/ bucket[i].last + KeyTtl <= ttl[i]
             \/ Slack(admitted[i], bucket[i], mishaps, since)

(* A burst refills within the time to live.                                  *)
Refills == Second * Burst <= Accrual(KeyTtl)

(* The inductive invariant of one process.                                   *)
RateInv ==
    /\ TypeOK /\ CheckInv /\ ClockInv
    /\ PatientNeverRefused
    /\ races = 0
    /\ Refills => BudgetInv

-----------------------------------------------------------------------------
(* The books are kept in natural numbers, and are linear.                    *)
LEMMA Books ==
    /\ \A n \in Nat : Cost(n) \in Nat /\ Cost(n + 1) = Cost(n) + Second
    /\ \A n, k \in Nat : n <= k => Cost(n) <= Cost(k)
    /\ \A m \in Nat : Bursts(m) \in Nat /\ Bursts(m + 1) = Bursts(m) + Cost(Burst)
                        /\ Bursts(1 + m) = Bursts(m) + Cost(Burst)
    /\ Second \in Nat /\ Second <= Cost(Burst)
<1>1. Second \in Nat /\ Second > 0 /\ Burst \in Nat /\ Burst > 0
  BY RateLimitAssumption
<1>2. \A n \in Nat : Cost(n) \in Nat /\ Cost(n + 1) = Cost(n) + Second
  BY <1>1 DEF Cost
<1>3. \A n, k \in Nat : n <= k => Cost(n) <= Cost(k)
  BY <1>1 DEF Cost
<1>4. \A m \in Nat : Bursts(m) \in Nat /\ Bursts(m + 1) = Bursts(m) + Cost(Burst)
                       /\ Bursts(1 + m) = Bursts(m) + Cost(Burst)
  BY <1>1 DEF Bursts, Cost
<1>5. Second <= Cost(Burst)
  BY <1>1 DEF Cost
<1>6. QED
  BY <1>1, <1>2, <1>3, <1>4, <1>5

LEMMA Accrues ==
    ASSUME NEW s \in Nat, NEW u \in Nat, NEW v \in Nat, u <= v
    PROVE  /\ Acc(s, u) \in Nat /\ Acc(s, v) \in Nat /\ Acc(s, u) <= Acc(s, v)
           /\ s <= u => Acc(s, v) = Acc(s, u) + Rps * (v - u)
<1>1. Rps \in Nat
  BY RateLimitAssumption
<1>2. Acc(s, u) \in Nat /\ Acc(s, v) \in Nat
  BY <1>1 DEF Acc, Accrual
<1>3. s <= u => Acc(s, v) = Acc(s, u) + Rps * (v - u)
  <2>1. ASSUME s <= u PROVE Acc(s, u) = Rps * (u - s) /\ Acc(s, v) = Rps * (v - s)
    BY <1>1, <2>1 DEF Acc, Accrual
  <2>2. Rps * (v - s) = Rps * (u - s) + Rps * (v - u)
    BY <1>1
  <2>3. QED
    BY <2>1, <2>2
<1>4. Acc(s, u) <= Acc(s, v)
  <2>1. CASE s <= u
    <3>1. Rps * (v - u) \in Nat
      BY <1>1
    <3>2. QED
      BY <1>2, <1>3, <2>1, <3>1
  <2>2. CASE u < s
    <3>1. Acc(s, u) = 0
      BY <1>1, <2>2 DEF Acc, Accrual
    <3>2. QED
      BY <1>2, <3>1
  <2>3. QED
    BY <2>1, <2>2
<1>5. QED
  BY <1>2, <1>3, <1>4

(* The refill never gives more than a burst, nor more than accrued; and a    *)
(* token's time is worth a token.                                            *)
LEMMA RefillBounds ==
    ASSUME NEW b \in Bucket, NEW t \in Nat
    PROVE  /\ Refilled(b, t) \in Nat /\ Refilled(b, t) <= Burst
           /\ b.last <= t => Cost(Refilled(b, t)) <= Cost(b.tokens) + Rps * (t - b.last)
           /\ b.last <= t /\ Rps * (t - b.last) >= Second => Refilled(b, t) >= 1
           /\ b.tokens >= 1 => Refilled(b, t) >= 1
<1>0. Rps \in Nat /\ Second \in Nat /\ Second > 0 /\ Burst \in Nat /\ Burst >= 1
  BY RateLimitAssumption
<1>1. b.tokens \in Nat /\ b.last \in Nat
  BY DEF Bucket
<1>2. Elapsed(t, b.last) \in Nat /\ (b.last <= t => Elapsed(t, b.last) = t - b.last)
  BY <1>1 DEF Elapsed
<1> DEFINE e == Elapsed(t, b.last)
           d == (e * Rps) \div Second
<1>3. e * Rps \in Nat /\ e * Rps = Rps * e
  BY <1>0, <1>2
<1>4. d \in Nat /\ Second * d <= e * Rps /\ (e * Rps >= Second => d >= 1)
  BY <1>0, <1>2, <1>3
<1>5. Refilled(b, t) = IF b.tokens + d < Burst THEN b.tokens + d ELSE Burst
  BY DEF Refilled, Least
<1> HIDE DEF d
<1>6. Refilled(b, t) \in Nat /\ Refilled(b, t) <= Burst /\ Refilled(b, t) <= b.tokens + d
  BY <1>0, <1>1, <1>4, <1>5
<1>7. ASSUME b.last <= t PROVE Cost(Refilled(b, t)) <= Cost(b.tokens) + Rps * (t - b.last)
  <2>1. Cost(Refilled(b, t)) <= Cost(b.tokens + d)
    <3>1. b.tokens + d \in Nat
      BY <1>1, <1>4
    <3>2. QED
      BY <1>6, <3>1, Books
  <2>2. Cost(b.tokens + d) = Cost(b.tokens) + Second * d
    BY <1>0, <1>1, <1>4 DEF Cost
  <2>3. Second * d <= Rps * (t - b.last)
    BY <1>2, <1>3, <1>4, <1>7
  <2>4. Cost(Refilled(b, t)) \in Nat /\ Cost(b.tokens) \in Nat
    BY <1>1, <1>6, Books
  <2>5. Second * d \in Nat
    BY <1>0, <1>4
  <2>6. Rps * (t - b.last) \in Nat
    BY <1>2, <1>3, <1>7
  <2>7. QED
    BY <2>1, <2>2, <2>3, <2>4, <2>5, <2>6
<1>8. ASSUME b.last <= t, Rps * (t - b.last) >= Second PROVE Refilled(b, t) >= 1
  BY <1>0, <1>1, <1>2, <1>3, <1>4, <1>5, <1>8
<1>9. ASSUME b.tokens >= 1 PROVE Refilled(b, t) >= 1
  BY <1>0, <1>1, <1>4, <1>5, <1>9
<1>10. QED
  BY <1>6, <1>7, <1>8, <1>9

(* What is written back is a bucket, charged for a request that is let in.   *)
LEMMA WrittenBounds ==
    ASSUME NEW b \in Bucket, NEW t \in Nat
    PROVE  /\ Written(b, t) \in Bucket /\ Written(b, t).last = t
           /\ Written(b, t).tokens <= Refilled(b, t)
           /\ Permits(b, t) => Written(b, t).tokens = Refilled(b, t) - 1
           /\ Permits(b, t) \in BOOLEAN
<1>1. Refilled(b, t) \in Nat
  BY RefillBounds
<1>2. Rpm \in Nat
  BY RateLimitAssumption
<1>3. Permits(b, t) \in BOOLEAN /\ (Permits(b, t) => Refilled(b, t) >= 1)
  BY DEF Permits
<1> DEFINE k == IF Permits(b, t) THEN Refilled(b, t) - 1
                ELSE IF Rpm > 0 THEN Least(Refilled(b, t), Rpm) ELSE Refilled(b, t)
<1>4. k \in Nat /\ k <= Refilled(b, t) /\ (Permits(b, t) => k = Refilled(b, t) - 1)
  BY <1>1, <1>2, <1>3 DEF Least
<1>5. Written(b, t) = [tokens |-> k, last |-> t]
  BY DEF Written
<1> HIDE DEF k
<1>6. QED
  BY <1>3, <1>4, <1>5 DEF Bucket

-----------------------------------------------------------------------------
(* How the books change: one more mishap, a request let in, a bucket lost.   *)
LEMMA MishapPays ==
    ASSUME NEW n \in Nat, NEW b \in Bucket, NEW m \in Nat, NEW s \in Nat
    PROVE  /\ Covered(n, b, m, s) => /\ Covered(n, b, m + 1, s)
                                     /\ Covered(n + 1, b, m + 1, s)
                                     /\ Slack(n, b, m + 1, s)
           /\ Slack(n, b, m, s) => Slack(n, b, m + 1, s)
<1>1. b.tokens \in Nat /\ b.last \in Nat
  BY DEF Bucket
<1>2. Acc(s, b.last) \in Nat
  <2>1. b.last <= b.last
    BY <1>1
  <2>2. QED
    BY <1>1, <2>1, Accrues
<1>3. /\ Cost(n) \in Nat /\ Cost(n + 1) = Cost(n) + Second /\ Cost(b.tokens) \in Nat
      /\ Bursts(m) \in Nat /\ Bursts(m + 1) = Bursts(m) + Cost(Burst)
      /\ Bursts(1 + m) = Bursts(m) + Cost(Burst)
      /\ Bursts(1 + (m + 1)) = Bursts(m) + Cost(Burst) + Cost(Burst)
      /\ Second \in Nat /\ Second <= Cost(Burst) /\ Cost(Burst) \in Nat
  <2>1. m + 1 \in Nat /\ Burst \in Nat
    BY RateLimitAssumption
  <2>2. Bursts(1 + (m + 1)) = Bursts(m + 1) + Cost(Burst)
    BY <2>1, Books
  <2>3. QED
    BY <1>1, <2>1, <2>2, Books
<1>4. QED
  BY <1>2, <1>3 DEF Covered, Slack

LEMMA SpareKept ==
    ASSUME NEW n \in Nat, NEW u \in Nat, NEW v \in Nat, u <= v, NEW m \in Nat, NEW s \in Nat,
           Spare(n, u, m, s)
    PROVE  Spare(n, v, m, s) /\ Spare(n, v, m + 1, s) /\ Spare(n + 1, v, m + 1, s)
<1>1. Acc(s, u) \in Nat /\ Acc(s, v) \in Nat /\ Acc(s, u) <= Acc(s, v)
  BY Accrues
<1>2. /\ Cost(n) \in Nat /\ Cost(n + 1) = Cost(n) + Second
      /\ Bursts(m) \in Nat /\ Bursts(m + 1) = Bursts(m) + Cost(Burst)
      /\ Second \in Nat /\ Second <= Cost(Burst) /\ Cost(Burst) \in Nat
  BY Books, RateLimitAssumption
<1>3. QED
  BY <1>1, <1>2 DEF Spare

(* A bucket that is not there is read as a full one.                         *)
LEMMA SpareIsFull ==
    ASSUME NEW n \in Nat, NEW t \in Nat, NEW m \in Nat, NEW s \in Nat, Spare(n, t, m, s)
    PROVE  Covered(n, Full(t), m, s)
<1>1. Full(t).tokens = Burst /\ Full(t).last = t
  BY DEF Full
<1>2. Acc(s, t) \in Nat /\ (t < s => Acc(s, t) = 0)
  BY Accrues, RateLimitAssumption DEF Acc, Accrual
<1>3. Cost(n) \in Nat /\ Cost(Burst) \in Nat /\ Bursts(m) \in Nat
      /\ Bursts(1 + m) = Bursts(m) + Cost(Burst)
  BY Books, RateLimitAssumption
<1>4. QED
  BY <1>1, <1>2, <1>3 DEF Covered, Spare

(* Losing a bucket is paid for by a mishap, by slack, or by a burst's time.  *)
LEMMA LossPaid ==
    ASSUME NEW n \in Nat, NEW b \in Bucket, NEW u \in Nat, b.last <= u,
           NEW m \in Nat, NEW s \in Nat
    PROVE  /\ Covered(n, b, m, s) => Spare(n, u, m + 1, s)
           /\ Slack(n, b, m, s) => Spare(n, u, m, s)
           /\ Covered(n, b, m, s) /\ Refills /\ b.last + KeyTtl <= u => Spare(n, u, m, s)
<1>1. b.tokens \in Nat /\ b.last \in Nat
  BY DEF Bucket
<1>2. Acc(s, b.last) \in Nat /\ Acc(s, u) \in Nat /\ Acc(s, b.last) <= Acc(s, u)
  BY <1>1, Accrues
<1>3. /\ Cost(n) \in Nat /\ Cost(b.tokens) \in Nat /\ Cost(Burst) \in Nat
      /\ Bursts(m) \in Nat /\ Bursts(m + 1) = Bursts(m) + Cost(Burst)
      /\ Bursts(1 + m) = Bursts(m) + Cost(Burst)
  BY <1>1, Books, RateLimitAssumption
<1>4. Covered(n, b, m, s) => Spare(n, u, m + 1, s)
  BY <1>2, <1>3 DEF Covered, Spare
<1>5. Slack(n, b, m, s) => Spare(n, u, m, s)
  BY <1>2, <1>3 DEF Slack, Spare
<1>6. ASSUME Covered(n, b, m, s), Refills, b.last + KeyTtl <= u PROVE Spare(n, u, m, s)
  <2>1. CASE b.last < s
    BY <1>2, <1>3, <1>6, <2>1 DEF Covered, Spare
  <2>2. CASE s <= b.last
    <3>1. Acc(s, u) = Acc(s, b.last) + Rps * (u - b.last)
      BY <1>1, <2>2, Accrues
    <3>2. Rps * KeyTtl <= Rps * (u - b.last)
      <4>1. KeyTtl \in Nat /\ u - b.last \in Nat /\ KeyTtl <= u - b.last /\ Rps \in Nat
        BY <1>1, <1>6, RateLimitAssumption
      <4>2. QED
        BY <4>1
    <3>3. Cost(Burst) <= Rps * KeyTtl
      BY <1>6 DEF Refills, Cost, Accrual
    <3>4. Rps * KeyTtl \in Nat /\ Rps * (u - b.last) \in Nat
      BY <1>1, RateLimitAssumption
    <3>5. QED
      BY <1>2, <1>3, <1>6, <3>1, <3>2, <3>3, <3>4 DEF Covered, Spare
  <2>3. QED
    BY <1>1, <2>1, <2>2
<1>7. QED
  BY <1>4, <1>5, <1>6

(* The verdict and the bucket written back with it balance the books.        *)
LEMMA CheckBalances ==
    ASSUME NEW n \in Nat, NEW k \in Nat, NEW b \in Bucket, NEW t \in Nat, b.last <= t,
           NEW m \in Nat, NEW s \in Nat, Covered(n, b, m, s),
           k = IF Permits(b, t) /\ t >= s THEN n + 1 ELSE n
    PROVE  Covered(k, Written(b, t), m, s)
<1>1. b.tokens \in Nat /\ b.last \in Nat
  BY DEF Bucket
<1> DEFINE f == Refilled(b, t)
           w == Written(b, t)
<1>2. /\ w.tokens \in Nat /\ w.last = t /\ w.tokens <= f
      /\ Permits(b, t) => w.tokens = f - 1
  BY WrittenBounds DEF Bucket
<1>3. /\ f \in Nat /\ f <= Burst
      /\ Cost(f) <= Cost(b.tokens) + Rps * (t - b.last)
  BY RefillBounds
<1> HIDE DEF f, w
<1>4. Cost(k) + Cost(w.tokens) <= Cost(n) + Cost(f)
  <2>1. Cost(n) \in Nat /\ Cost(n + 1) = Cost(n) + Second /\ Cost(w.tokens) \in Nat
        /\ Cost(w.tokens + 1) = Cost(w.tokens) + Second /\ Cost(f) \in Nat /\ Second \in Nat
        /\ Cost(w.tokens) <= Cost(f)
    BY <1>2, <1>3, Books
  <2>2. CASE k = n
    BY <2>1, <2>2
  <2>3. CASE k = n + 1 /\ Permits(b, t)
    <3>1. w.tokens + 1 = f
      BY <1>2, <1>3, <2>3
    <3>2. QED
      BY <2>1, <2>3, <3>1
  <2>4. QED
    BY <2>2, <2>3
<1>5. /\ Acc(s, b.last) \in Nat /\ Acc(s, t) \in Nat /\ Acc(s, b.last) <= Acc(s, t)
      /\ s <= b.last => Acc(s, t) = Acc(s, b.last) + Rps * (t - b.last)
  BY <1>1, Accrues
<1>6. /\ Cost(n) \in Nat /\ Cost(k) \in Nat /\ Cost(f) \in Nat /\ Cost(b.tokens) \in Nat
      /\ Cost(w.tokens) \in Nat /\ Cost(f) <= Cost(Burst) /\ Cost(Burst) \in Nat
      /\ Bursts(m) \in Nat /\ Bursts(1 + m) = Bursts(m) + Cost(Burst)
  BY <1>1, <1>2, <1>3, Books, RateLimitAssumption
<1>7. Rps * (t - b.last) \in Nat
  BY <1>1, RateLimitAssumption
<1>8. CASE b.last < s
  <2>1. Cost(n) <= Bursts(m)
    BY <1>8 DEF Covered
  <2>2. t < s => k = n
    OBVIOUS
  <2>3. QED
    BY <1>2, <1>4, <1>5, <1>6, <2>1, <2>2 DEF Covered, w
<1>9. CASE s <= b.last
  <2>1. ~(t < s)
    BY <1>1, <1>9
  <2>2. Cost(n) + Cost(b.tokens) <= Bursts(1 + m) + Acc(s, b.last)
    BY DEF Covered
  <2>3. Cost(k) + Cost(w.tokens) <= Bursts(1 + m) + Acc(s, t)
    BY <1>3, <1>4, <1>5, <1>6, <1>7, <1>9, <2>2
  <2>4. QED
    BY <1>2, <2>1, <2>3 DEF Covered, w
<1>10. QED
  BY <1>1, <1>8, <1>9

-----------------------------------------------------------------------------
LEMMA FullType == \A t \in Nat : Full(t) \in Bucket /\ Full(t).tokens = Burst /\ Full(t).last = t
BY RateLimitAssumption DEF Full, Bucket

(* What HMGET's answer does to the check of r.                               *)
LEMMA HmgetStep ==
    ASSUME TypeOK, CheckInv, NEW r \in Replicas, Hmget(r)
    PROVE  /\ check[r] \in Check
           /\ check' \in [Replicas -> Check \cup {None}] /\ check'[r] \in Check
           /\ check'[r].ip = check[r].ip /\ check'[r].at = check[r].at
           /\ \/ mishaps' = mishaps /\ check'[r].read = IF bucket[check[r].ip] = None
                                        THEN check[r].read ELSE bucket[check[r].ip]
              \/ mishaps' = mishaps + 1 /\ check'[r].read = check[r].read
           /\ pc' = [pc EXCEPT ![r] = "hmset"]
           /\ \A s \in Replicas \ {r} : check'[s] = check[s] /\ pc'[s] = pc[s]
           /\ pc'[r] = "hmset" /\ pc' \in [Replicas -> {"idle", "hmget", "hmset", "expire"}]
<1> DEFINE i == check[r].ip
<1>1. check[r] \in Check /\ i \in Ips
  BY DEF CheckInv, Check, Hmget
<1>2. check \in [Replicas -> Check \cup {None}]
  BY DEF TypeOK, Check
<1>3. bucket[i] = None \/ bucket[i] \in Bucket
  BY <1>1 DEF TypeOK
<1>4. CASE Works /\ check' = [check EXCEPT ![r].read =
                                 IF bucket[i] = None THEN check[r].read ELSE bucket[i]]
  <2> DEFINE b == IF bucket[i] = None THEN check[r].read ELSE bucket[i]
  <2>1. b \in Bucket
    BY <1>1, <1>3 DEF Check
  <2>2. check' = [check EXCEPT ![r].read = b]
    BY <1>4
  <2> HIDE DEF b
  <2>3. /\ check' \in [Replicas -> Check \cup {None}] /\ check'[r] \in Check
        /\ check'[r].ip = check[r].ip /\ check'[r].at = check[r].at /\ check'[r].read = b
        /\ \A s \in Replicas \ {r} : check'[s] = check[s]
    BY <1>1, <1>2, <2>1, <2>2 DEF Check
  <2>4. QED
    BY <1>1, <1>4, <2>3 DEF Hmget, Works, TypeOK, b
<1>5. CASE Fails /\ UNCHANGED check
  BY <1>1, <1>2, <1>5 DEF Hmget, Fails, TypeOK
<1>6. QED
  BY <1>4, <1>5 DEF Hmget

(* What the verdict does.                                                    *)
LEMMA HmsetStep ==
    ASSUME TypeOK, CheckInv, NEW r \in Replicas, Hmset(r)
    PROVE  LET i == check[r].ip
               t == check[r].at
               b == check[r].read
               ok == Permits(b, t)
           IN /\ i \in Ips /\ t \in Nat /\ b \in Bucket /\ ok \in BOOLEAN
              /\ \/ mishaps' = mishaps /\ bucket'[i] = Written(b, t)
                 \/ mishaps' = mishaps + 1 /\ bucket'[i] = bucket[i]
              /\ bucket' \in [Ips -> Bucket \cup {None}]
              /\ admitted'[i] = IF ok /\ t >= since THEN admitted[i] + 1 ELSE admitted[i]
              /\ admitted' \in [Ips -> Nat]
              /\ stamp'[i] = t /\ stamp' \in [Ips -> Int]
              /\ \A j \in Ips \ {i} : /\ bucket'[j] = bucket[j]
                                      /\ admitted'[j] = admitted[j]
                                      /\ stamp'[j] = stamp[j]
              /\ verdict'.ok = ok /\ verdict'.gap = t - stamp[i]
              /\ verdict' \in [ip : Ips, ok : BOOLEAN, gap : Int, starved : Int]
              /\ \A s \in Replicas \ {r} : pc'[s] = pc[s]
              /\ pc'[r] = "expire"
              /\ pc' \in [Replicas -> {"idle", "hmget", "hmset", "expire"}]
<1> DEFINE i == check[r].ip
           t == check[r].at
           b == check[r].read
           ok == Permits(b, t)
<1>1. i \in Ips /\ t \in Nat /\ b \in Bucket
  BY DEF CheckInv, Hmset, Check
<1>2. ok \in BOOLEAN /\ Written(b, t) \in Bucket
  BY <1>1, WrittenBounds
<1>3. /\ \/ mishaps' = mishaps /\ bucket' = [bucket EXCEPT ![i] = Written(b, t)]
         \/ mishaps' = mishaps + 1 /\ bucket' = bucket
      /\ verdict' = [ip |-> i, ok |-> ok, gap |-> t - stamp[i], starved |-> t - lastOk[i]]
      /\ admitted' = IF ok /\ t >= since THEN [admitted EXCEPT ![i] = admitted[i] + 1]
                                         ELSE admitted
      /\ stamp' = [stamp EXCEPT ![i] = t]
      /\ pc' = [pc EXCEPT ![r] = "expire"]
  BY DEF Hmset, Works, Fails
<1> HIDE DEF i, t, b, ok
<1>4. bucket \in [Ips -> Bucket \cup {None}] /\ admitted \in [Ips -> Nat]
      /\ stamp \in [Ips -> Int] /\ lastOk \in [Ips -> Int]
      /\ pc \in [Replicas -> {"idle", "hmget", "hmset", "expire"}]
  BY DEF TypeOK
<1>5. /\ bucket' \in [Ips -> Bucket \cup {None}]
      /\ \/ mishaps' = mishaps /\ bucket'[i] = Written(b, t)
         \/ mishaps' = mishaps + 1 /\ bucket'[i] = bucket[i]
      /\ \A j \in Ips \ {i} : bucket'[j] = bucket[j]
  BY <1>1, <1>2, <1>3, <1>4
<1>6. /\ admitted' \in [Ips -> Nat]
      /\ admitted'[i] = IF ok /\ t >= since THEN admitted[i] + 1 ELSE admitted[i]
      /\ \A j \in Ips \ {i} : admitted'[j] = admitted[j]
  <2>1. admitted[i] + 1 \in Nat
    BY <1>1, <1>4
  <2>2. CASE ok /\ t >= since
    BY <1>1, <1>3, <1>4, <2>1, <2>2
  <2>3. CASE ~(ok /\ t >= since)
    BY <1>1, <1>3, <1>4, <2>3
  <2>4. QED
    BY <2>2, <2>3
<1>7. stamp'[i] = t /\ stamp' \in [Ips -> Int] /\ \A j \in Ips \ {i} : stamp'[j] = stamp[j]
  BY <1>1, <1>3, <1>4
<1>8. t - stamp[i] \in Int /\ t - lastOk[i] \in Int
  BY <1>1, <1>4
<1>9. /\ verdict'.ok = ok /\ verdict'.gap = t - stamp[i]
      /\ verdict' \in [ip : Ips, ok : BOOLEAN, gap : Int, starved : Int]
  BY <1>1, <1>2, <1>3, <1>8
<1>10. /\ \A s \in Replicas \ {r} : pc'[s] = pc[s]
       /\ pc'[r] = "expire"
       /\ pc' \in [Replicas -> {"idle", "hmget", "hmset", "expire"}]
  BY <1>3, <1>4
<1>11. QED
  BY <1>1, <1>2, <1>5, <1>6, <1>7, <1>9, <1>10 DEF i, t, b, ok

(* What EXPIRE does.                                                         *)
LEMMA ExpireStep ==
    ASSUME TypeOK, CheckInv, NEW r \in Replicas, Expire(r)
    PROVE  LET i == check[r].ip IN
           /\ i \in Ips
           /\ \/ /\ mishaps' = mishaps
                 /\ ttl'[i] = IF bucket[i] = None THEN ttl[i] ELSE now + KeyTtl
              \/ mishaps' = mishaps + 1 /\ ttl'[i] = ttl[i]
           /\ ttl' \in [Ips -> Nat \cup {None}]
           /\ \A j \in Ips \ {i} : ttl'[j] = ttl[j]
<1> DEFINE i == check[r].ip
<1>1. i \in Ips
  BY DEF CheckInv, Expire, Check
<1>2. now + KeyTtl \in Nat
  BY RateLimitAssumption DEF TypeOK
<1>3. \/ mishaps' = mishaps /\ ttl' = IF bucket[i] = None THEN ttl
                                      ELSE [ttl EXCEPT ![i] = now + KeyTtl]
      \/ mishaps' = mishaps + 1 /\ ttl' = ttl
  BY DEF Expire, Works, Fails
<1> HIDE DEF i
<1>4. ttl \in [Ips -> Nat \cup {None}]
  BY DEF TypeOK
<1>5. QED
  BY <1>1, <1>2, <1>3, <1>4 DEF i

(* A check that ends, or dies, leaves the others alone.                      *)
LEMMA EndStep ==
    ASSUME TypeOK, NEW r \in Replicas, pc' = [pc EXCEPT ![r] = "idle"],
           check' = [check EXCEPT ![r] = None]
    PROVE  /\ pc' \in [Replicas -> {"idle", "hmget", "hmset", "expire"}]
           /\ check' \in [Replicas -> Check \cup {None}]
           /\ pc'[r] = "idle" /\ check'[r] = None
           /\ \A s \in Replicas \ {r} : pc'[s] = pc[s] /\ check'[s] = check[s]
BY DEF TypeOK, Check

(* Every step keeps the types.                                               *)
LEMMA RateTypeStep == TypeOK /\ CheckInv /\ [Next]_vars => (TypeOK /\ CheckInv)'
<1> SUFFICES ASSUME TypeOK, CheckInv, [Next]_vars PROVE TypeOK' /\ CheckInv'
  OBVIOUS
<1> USE DEF redis, history
<1>0. now \in Nat /\ mishaps \in Nat /\ KeyTtl \in Nat
  BY RateLimitAssumption DEF TypeOK
<1>1. ASSUME NEW r \in Replicas, NEW i \in Ips, Begin(r, i) PROVE TypeOK' /\ CheckInv'
  <2>1. [ip |-> i, at |-> now, read |-> Full(now)] \in Check
    BY <1>0, FullType DEF Check
  <2> DEFINE c == [ip |-> i, at |-> now, read |-> Full(now)]
  <2>2. check' = [check EXCEPT ![r] = c] /\ pc' = [pc EXCEPT ![r] = "hmget"]
    BY <1>1 DEF Begin
  <2>3. c.read = Full(c.at)
    OBVIOUS
  <2> HIDE DEF c
  <2>4. check' \in [Replicas -> Check \cup {None}] /\ CheckInv'
        /\ pc' \in [Replicas -> {"idle", "hmget", "hmset", "expire"}]
    BY <2>1, <2>2, <2>3 DEF c, TypeOK, CheckInv, Check
  <2>5. QED
    BY <1>1, <2>4 DEF Begin, TypeOK, Check
<1>2. ASSUME NEW r \in Replicas, Hmget(r) PROVE TypeOK' /\ CheckInv'
  <2>1. /\ check' \in [Replicas -> Check \cup {None}] /\ check'[r] \in Check
        /\ mishaps' \in Nat /\ pc' \in [Replicas -> {"idle", "hmget", "hmset", "expire"}]
        /\ \A s \in Replicas \ {r} : check'[s] = check[s] /\ pc'[s] = pc[s]
        /\ pc'[r] = "hmset"
    BY <1>0, <1>2, HmgetStep
  <2>2. CheckInv'
    BY <2>1 DEF CheckInv
  <2>3. QED
    BY <1>2, <2>1, <2>2 DEF Hmget, TypeOK, Check
<1>3. ASSUME NEW r \in Replicas, Hmset(r) PROVE TypeOK' /\ CheckInv'
  <2>1. /\ mishaps' \in Nat /\ bucket' \in [Ips -> Bucket \cup {None}]
        /\ admitted' \in [Ips -> Nat] /\ stamp' \in [Ips -> Int]
        /\ verdict' \in [ip : Ips, ok : BOOLEAN, gap : Int, starved : Int]
        /\ pc' \in [Replicas -> {"idle", "hmget", "hmset", "expire"}]
        /\ \A s \in Replicas \ {r} : pc'[s] = pc[s]
        /\ pc'[r] = "expire" /\ check[r].ip \in Ips /\ check[r].at \in Nat
    BY <1>0, <1>3, HmsetStep
  <2>2. CheckInv'
    BY <1>3, <2>1 DEF Hmset, CheckInv
  <2>3. lastOk' \in [Ips -> Int]
    BY <1>3, <2>1 DEF Hmset, TypeOK
  <2>4. QED
    BY <1>3, <2>1, <2>2, <2>3 DEF Hmset, TypeOK
<1>4. ASSUME NEW r \in Replicas, Expire(r) PROVE TypeOK' /\ CheckInv'
  <2>1. mishaps' \in Nat /\ ttl' \in [Ips -> Nat \cup {None}]
    BY <1>0, <1>4, ExpireStep
  <2>2. /\ pc' \in [Replicas -> {"idle", "hmget", "hmset", "expire"}]
        /\ check' \in [Replicas -> Check \cup {None}] /\ pc'[r] = "idle"
        /\ \A s \in Replicas \ {r} : pc'[s] = pc[s] /\ check'[s] = check[s]
    BY <1>4, EndStep DEF Expire
  <2>3. CheckInv'
    BY <2>2 DEF CheckInv
  <2>4. QED
    BY <1>4, <2>1, <2>2, <2>3 DEF Expire, TypeOK, Check
<1>5. ASSUME NEW r \in Replicas, Die(r) PROVE TypeOK' /\ CheckInv'
  <2>1. /\ pc' \in [Replicas -> {"idle", "hmget", "hmset", "expire"}]
        /\ check' \in [Replicas -> Check \cup {None}] /\ pc'[r] = "idle"
        /\ \A s \in Replicas \ {r} : pc'[s] = pc[s] /\ check'[s] = check[s]
    BY <1>5, EndStep DEF Die
  <2>2. CheckInv'
    BY <2>1 DEF CheckInv
  <2>3. QED
    BY <1>5, <2>1, <2>2 DEF Die, Fails, TypeOK, Check
<1>6. ASSUME NEW i \in Ips, KeyExpires(i) PROVE TypeOK' /\ CheckInv'
  <2>1. mishaps' \in Nat
    BY <1>0, <1>6 DEF KeyExpires
  <2>2. QED
    BY <1>6, <2>1 DEF KeyExpires, TypeOK, CheckInv
<1>7. CASE Tick
  BY <1>7, RateLimitAssumption DEF Tick, TypeOK, CheckInv
<1>8. CASE UNCHANGED vars
  BY <1>8 DEF vars, TypeOK, CheckInv
<1>9. QED
  BY <1>1, <1>2, <1>3, <1>4, <1>5, <1>6, <1>7, <1>8 DEF Next, Allow

-----------------------------------------------------------------------------
(* The checks of one process come in the order of their clock readings.      *)
LEMMA ClockStep ==
    OneProcess /\ TypeOK /\ CheckInv /\ ClockInv /\ [Next]_vars => ClockInv'
<1> SUFFICES ASSUME OneProcess, TypeOK, CheckInv, ClockInv, [Next]_vars PROVE ClockInv'
  OBVIOUS
<1> USE DEF redis, history
<1>0. /\ now \in Nat /\ stamp \in [Ips -> Int] /\ bucket \in [Ips -> Bucket \cup {None}]
      /\ \A r \in Replicas : pc[r] # "idle" => check[r] \in Check
      /\ \A r, s \in Replicas : r = s
  BY RateLimitAssumption DEF TypeOK, CheckInv, OneProcess
<1>1. ASSUME NEW r \in Replicas, NEW i \in Ips, Begin(r, i) PROVE ClockInv'
  <2>1. /\ pc'[r] = "hmget" /\ check'[r] = [ip |-> i, at |-> now, read |-> Full(now)]
    BY <1>1 DEF Begin, TypeOK
  <2>2. check'[r].ip = i /\ check'[r].at = now
    BY <2>1
  <2>3. QED
    BY <1>0, <1>1, <2>1, <2>2 DEF Begin, ClockInv
<1>2. ASSUME NEW r \in Replicas, Hmget(r) PROVE ClockInv'
  <2>1. /\ check'[r].ip = check[r].ip /\ check'[r].at = check[r].at /\ pc'[r] = "hmset"
        /\ check'[r].read \in {check[r].read, bucket[check[r].ip]}
        /\ \/ check'[r].read = bucket[check[r].ip] /\ bucket[check[r].ip] # None
           \/ check'[r].read = check[r].read
        /\ check[r].ip \in Ips
    BY <1>2, HmgetStep DEF Check
  <2>2. pc[r] = "hmget" /\ check[r].read = Full(check[r].at)
    BY <1>2 DEF Hmget, CheckInv
  <2>3. \/ check'[r].read = Full(check'[r].at)
        \/ check'[r].read.last <= stamp[check'[r].ip]
    BY <2>1, <2>2 DEF ClockInv
  <2>4. stamp[check'[r].ip] <= check'[r].at /\ check'[r].at <= now
    BY <2>1, <2>2 DEF ClockInv
  <2>5. QED
    BY <1>0, <1>2, <2>1, <2>3, <2>4 DEF Hmget, ClockInv
<1>3. ASSUME NEW r \in Replicas, Hmset(r) PROVE ClockInv'
  <2> DEFINE i == check[r].ip
             t == check[r].at
  <2>1. /\ i \in Ips /\ t \in Nat /\ check[r].read \in Bucket
        /\ bucket'[i] = Written(check[r].read, t) \/ bucket'[i] = bucket[i]
        /\ stamp'[i] = t
        /\ \A j \in Ips \ {i} : bucket'[j] = bucket[j] /\ stamp'[j] = stamp[j]
        /\ pc'[r] = "expire"
    BY <1>3, HmsetStep
  <2>2. pc[r] = "hmset" /\ UNCHANGED <<now, check>>
    BY <1>3 DEF Hmset
  <2>3. stamp[i] <= t /\ t <= now
    BY <2>2 DEF ClockInv
  <2>4. bucket'[i] # None => bucket'[i].last <= t
    <3>1. CASE bucket'[i] = Written(check[r].read, t)
      BY <2>1, <3>1, WrittenBounds
    <3>2. CASE bucket'[i] = bucket[i]
      <4>1. bucket[i] # None => bucket[i].last <= stamp[i] /\ bucket[i].last \in Nat
        BY <1>0, <2>1 DEF ClockInv, Bucket
      <4>2. stamp[i] \in Int
        BY <1>0, <2>1
      <4>3. QED
        BY <2>1, <2>3, <3>2, <4>1, <4>2
    <3>3. QED
      BY <2>1, <3>1, <3>2
  <2>5. /\ check'[r].ip = i /\ check'[r].at = t /\ t <= t
    BY <2>1, <2>2
  <2> HIDE DEF i, t
  <2>6. QED
    BY <1>0, <2>1, <2>2, <2>3, <2>4, <2>5 DEF ClockInv
<1>4. ASSUME NEW r \in Replicas, Expire(r) \/ Die(r) PROVE ClockInv'
  <2>1. pc'[r] = "idle" /\ UNCHANGED <<now, bucket, stamp>>
    BY <1>4, EndStep DEF Expire, Die
  <2>2. QED
    BY <1>0, <2>1 DEF ClockInv
<1>5. ASSUME NEW i \in Ips, KeyExpires(i) PROVE ClockInv'
  BY <1>0, <1>5 DEF KeyExpires, ClockInv
<1>6. CASE Tick
  <2>1. now' = now + 1 /\ UNCHANGED <<bucket, pc, check, stamp>>
    BY <1>6 DEF Tick
  <2>2. \A i \in Ips : stamp[i] \in Int
    BY <1>0
  <2>3. \A r \in Replicas : pc[r] # "idle" => check[r].at \in Nat
    BY <1>0 DEF Check
  <2>4. QED
    BY <1>0, <2>1, <2>2, <2>3 DEF ClockInv
<1>7. CASE UNCHANGED vars
  BY <1>7 DEF vars, ClockInv
<1>8. QED
  BY <1>1, <1>2, <1>3, <1>4, <1>5, <1>6, <1>7 DEF Next, Allow

(* A verdict is only given with HMSET, and a refusal means an empty bucket.  *)
LEMMA PatientStep ==
    TypeOK /\ CheckInv /\ ClockInv /\ PatientNeverRefused /\ [Next]_vars
        => PatientNeverRefused'
<1> SUFFICES ASSUME TypeOK, CheckInv, ClockInv, PatientNeverRefused, [Next]_vars
             PROVE  PatientNeverRefused'
  OBVIOUS
<1>1. ASSUME NEW r \in Replicas, Hmset(r) PROVE PatientNeverRefused'
  <2> DEFINE i == check[r].ip
             t == check[r].at
             b == check[r].read
  <2>1. /\ i \in Ips /\ t \in Nat /\ b \in Bucket
        /\ verdict'.ok = Permits(b, t) /\ verdict'.gap = t - stamp[i]
    BY <1>1, HmsetStep
  <2>2. stamp[i] <= t /\ (b = Full(t) \/ b.last <= stamp[i])
    BY <1>1 DEF Hmset, ClockInv
  <2> HIDE DEF i, t, b
  <2>3. SUFFICES ASSUME Rpm = 0 \/ Burst <= Rpm, ~Permits(b, t)
                 PROVE  Accrual(t - stamp[i]) < Second
    BY <2>1 DEF PatientNeverRefused
  <2>4. Refilled(b, t) \in Nat /\ Refilled(b, t) <= Burst
    BY <2>1, RefillBounds
  <2>5. ~(Refilled(b, t) >= 1)
    BY <2>3, <2>4, RateLimitAssumption DEF Permits, WithinRpm
  <2>6. b # Full(t)
    <3>1. ~(b.tokens >= 1)
      BY <2>1, <2>5, RefillBounds
    <3>2. Full(t).tokens >= 1
      BY <2>1, FullType, RateLimitAssumption
    <3>3. QED
      BY <3>1, <3>2
  <2>7. stamp[i] \in Int /\ b.last \in Nat /\ b.last <= stamp[i] /\ b.last <= t
    BY <2>1, <2>2, <2>6 DEF TypeOK, Bucket
  <2>8. ~(Rps * (t - b.last) >= Second)
    BY <2>1, <2>5, <2>7, RefillBounds
  <2>9. t - stamp[i] \in Nat /\ t - b.last \in Nat /\ t - stamp[i] <= t - b.last
    BY <2>1, <2>2, <2>7
  <2>10. /\ Rps * (t - stamp[i]) <= Rps * (t - b.last)
         /\ Rps * (t - stamp[i]) \in Nat /\ Rps * (t - b.last) \in Nat
    BY <2>9, RateLimitAssumption
  <2>11. QED
    BY <2>8, <2>10, RateLimitAssumption DEF Accrual
<1>2. CASE verdict' = None
  BY <1>2 DEF PatientNeverRefused
<1>3. CASE UNCHANGED vars
  BY <1>3 DEF vars, history, PatientNeverRefused
<1>4. QED
  BY <1>1, <1>2, <1>3 DEF Next, Allow, Begin, Hmget, Expire, Die, KeyExpires, Tick

-----------------------------------------------------------------------------
(* Each step keeps the books of every address, whoever is being checked.     *)
LEMMA BudgetStep ==
    OneProcess /\ Refills /\ TypeOK /\ CheckInv /\ ClockInv /\ BudgetInv /\ [Next]_vars
        => BudgetInv'
<1> SUFFICES ASSUME OneProcess, Refills, TypeOK, CheckInv, ClockInv, BudgetInv, [Next]_vars
             PROVE  BudgetInv'
  OBVIOUS
<1> USE DEF redis, history
<1>0. /\ now \in Nat /\ mishaps \in Nat /\ since \in Nat /\ KeyTtl \in Nat
      /\ bucket \in [Ips -> Bucket \cup {None}]
      /\ \A i \in Ips : admitted[i] \in Nat
      /\ \A i \in Ips : bucket[i] # None => bucket[i] \in Bucket /\ bucket[i].last \in Nat
      /\ \A r \in Replicas : pc[r] # "idle" =>
            check[r].ip \in Ips /\ check[r].at \in Nat /\ check[r].read \in Bucket
      /\ \A r, s \in Replicas : r = s
  BY RateLimitAssumption DEF TypeOK, CheckInv, OneProcess, Bucket, Check
(* A bucket is never from the future, nor later than the check under way.    *)
<1>c. /\ \A i \in Ips : bucket[i] # None => bucket[i].last <= now
      /\ \A r \in Replicas : pc[r] # "idle" /\ bucket[check[r].ip] # None =>
            bucket[check[r].ip].last <= check[r].at
      /\ \A r \in Replicas : pc[r] # "idle" => check[r].at <= now
  <2>1. \A i \in Ips : stamp[i] \in Int
    BY DEF TypeOK
  <2>2. QED
    BY <1>0, <2>1 DEF ClockInv
<1>1. ASSUME NEW r \in Replicas, NEW i \in Ips, Begin(r, i) PROVE BudgetInv'
  <2>1. /\ pc'[r] = "hmget" /\ check'[r].ip = i /\ check'[r].at = now /\ pc[r] = "idle"
        /\ UNCHANGED <<now, bucket, ttl, admitted, since, mishaps>>
    BY <1>1 DEF Begin, TypeOK
  <2>2. \A j \in Ips : bucket[j] = None => Spare(admitted[j], now, mishaps, since)
    BY <1>0, <2>1 DEF BudgetInv, Pending
  <2>3. QED
    BY <1>0, <2>1, <2>2 DEF BudgetInv, Pending
<1>2. ASSUME NEW r \in Replicas, Hmget(r) PROVE BudgetInv'
  <2> DEFINE i == check[r].ip
             t == check[r].at
             n == admitted[i]
  <2>1. /\ check'[r].ip = i /\ check'[r].at = t /\ pc'[r] = "hmset" /\ pc[r] = "hmget"
        /\ \/ mishaps' = mishaps /\ check'[r].read = IF bucket[i] = None
                                        THEN check[r].read ELSE bucket[i]
           \/ mishaps' = mishaps + 1 /\ check'[r].read = check[r].read
        /\ check[r].read = Full(t)
        /\ UNCHANGED <<now, bucket, ttl, admitted, since>>
    BY <1>2, HmgetStep DEF Hmget, CheckInv
  <2>2. i \in Ips /\ t \in Nat /\ n \in Nat /\ t <= now
    BY <1>0, <1>c, <2>1
  <2>3. bucket[i] = None => Spare(n, t, mishaps, since)
    BY <2>1, <2>2 DEF BudgetInv, Pending
  <2>4. /\ bucket[i] = None => Covered(n, Full(t), mishaps, since)
                                 /\ Covered(n, Full(t), mishaps + 1, since)
    <3>1. ASSUME bucket[i] = None PROVE Covered(n, Full(t), mishaps, since)
      BY <1>0, <2>2, <2>3, <3>1, SpareIsFull
    <3>2. QED
      BY <1>0, <2>2, <3>1, FullType, MishapPays
  <2>5. bucket[i] # None => Covered(n, Full(t), mishaps + 1, since)
    <3>1. ASSUME bucket[i] # None PROVE Spare(n, t, mishaps + 1, since)
      <4>1. bucket[i] \in Bucket /\ bucket[i].last <= t
        BY <1>0, <1>c, <2>1, <2>2, <3>1
      <4>2. Covered(n, bucket[i], mishaps, since)
        BY <2>2, <3>1 DEF BudgetInv
      <4>3. QED
        BY <1>0, <2>2, <4>1, <4>2, LossPaid
    <3>2. mishaps + 1 \in Nat
      BY <1>0
    <3>3. QED
      BY <1>0, <2>2, <3>1, <3>2, SpareIsFull
  <2>6. /\ Covered(n, check'[r].read, mishaps', since)
        /\ check'[r].read.last <= t
    <3>1. Full(t).last <= t
      BY <2>2, FullType
    <3>2. bucket[i] # None => Covered(n, bucket[i], mishaps, since) /\ bucket[i].last <= t
      BY <1>0, <1>c, <2>1, <2>2 DEF BudgetInv
    <3>3. QED
      BY <2>1, <2>4, <2>5, <3>1, <3>2
  <2>7. /\ \A j \in Ips : bucket[j] # None => Covered(admitted[j], bucket[j], mishaps', since)
        /\ \A j \in Ips : bucket[j] = None /\ (\A s \in Replicas : ~Pending(s, j)) =>
              Spare(admitted[j], now, mishaps', since)
        /\ bucket[i] = None => Spare(n, t, mishaps', since)
    <3>1. CASE mishaps' = mishaps
      BY <2>3, <3>1 DEF BudgetInv
    <3>2. CASE mishaps' = mishaps + 1
      <4>1. \A j \in Ips : bucket[j] # None =>
               Covered(admitted[j], bucket[j], mishaps + 1, since)
        BY <1>0, MishapPays DEF BudgetInv
      <4>2. ASSUME NEW j \in Ips, bucket[j] = None, \A s \in Replicas : ~Pending(s, j)
            PROVE  Spare(admitted[j], now, mishaps + 1, since)
        <5>1. Spare(admitted[j], now, mishaps, since)
          BY <4>2 DEF BudgetInv
        <5>2. now <= now
          BY <1>0
        <5>3. QED
          BY <1>0, <5>1, <5>2, SpareKept
      <4>3. bucket[i] = None => Spare(n, t, mishaps + 1, since)
        <5>1. t <= t
          BY <2>2
        <5>2. QED
          BY <1>0, <2>2, <2>3, <5>1, SpareKept
      <4>4. QED
        BY <3>2, <4>1, <4>2, <4>3
    <3>3. QED
      BY <2>1, <3>1, <3>2
  <2>8. \A j \in Ips : bucket[j] # None /\ ttl[j] # None =>
           \/ bucket[j].last + KeyTtl <= ttl[j]
           \/ Slack(admitted[j], bucket[j], mishaps', since)
    <3>1. \A j \in Ips : bucket[j] # None /\ ttl[j] # None =>
           \/ bucket[j].last + KeyTtl <= ttl[j]
           \/ Slack(admitted[j], bucket[j], mishaps, since)
      BY <1>0, <2>1 DEF BudgetInv
    <3>2. CASE mishaps' = mishaps
      BY <3>1, <3>2
    <3>3. CASE mishaps' = mishaps + 1
      BY <1>0, <3>1, <3>3, MishapPays
    <3>4. QED
      BY <2>1, <3>2, <3>3
  <2> HIDE DEF i, t, n
  <2>9. \A j \in Ips : Pending(r, j)' <=> j = i
    BY <2>1 DEF Pending
  <2>10. \A j \in Ips : Pending(r, j) <=> j = i
    BY <2>1 DEF Pending, i
  <2>11. QED
    BY <1>0, <2>1, <2>6, <2>7, <2>8, <2>9, <2>10 DEF BudgetInv, n
<1>3. ASSUME NEW r \in Replicas, Hmset(r) PROVE BudgetInv'
  <2> DEFINE i == check[r].ip
             t == check[r].at
             b == check[r].read
             n == admitted[i]
             k == admitted'[i]
  <2>1. /\ i \in Ips /\ t \in Nat /\ b \in Bucket
        /\ \/ mishaps' = mishaps /\ bucket'[i] = Written(b, t)
           \/ mishaps' = mishaps + 1 /\ bucket'[i] = bucket[i]
        /\ k = IF Permits(b, t) /\ t >= since THEN n + 1 ELSE n
        /\ k \in Nat
        /\ \A j \in Ips \ {i} : bucket'[j] = bucket[j] /\ admitted'[j] = admitted[j]
        /\ pc'[r] = "expire"
    BY <1>3, HmsetStep
  <2>2. pc[r] = "hmset" /\ UNCHANGED <<now, ttl, check, since>>
    BY <1>3 DEF Hmset
  <2>3. Covered(n, b, mishaps, since) /\ b.last <= t /\ t <= now /\ n \in Nat
    BY <1>0, <1>c, <2>1, <2>2 DEF BudgetInv
  <2>4. bucket[i] # None => Covered(n, bucket[i], mishaps, since) /\ bucket[i] \in Bucket
    BY <1>0, <2>1 DEF BudgetInv
  <2>5. bucket[i] = None => Spare(n, t, mishaps, since)
    BY <2>1, <2>2 DEF BudgetInv, Pending
  <2>6. \A j \in Ips : Pending(r, j) <=> j = i
    BY <2>2 DEF Pending
  <2> HIDE DEF i, t, b, n, k
  <2>7. bucket'[i] # None => Covered(k, bucket'[i], mishaps', since)
    <3>1. CASE mishaps' = mishaps /\ bucket'[i] = Written(b, t)
      BY <1>0, <2>1, <2>3, <3>1, CheckBalances
    <3>2. CASE mishaps' = mishaps + 1 /\ bucket'[i] = bucket[i]
      BY <1>0, <2>1, <2>3, <2>4, <3>2, MishapPays
    <3>3. QED
      BY <2>1, <3>1, <3>2
  <2>8. bucket'[i] = None => Spare(k, now, mishaps', since)
    <3>1. CASE mishaps' = mishaps /\ bucket'[i] = Written(b, t)
      <4>1. Written(b, t) \in Bucket
        BY <2>1, WrittenBounds
      <4>2. None \notin Bucket
        BY RateLimitAssumption DEF Bucket
      <4>3. QED
        BY <3>1, <4>1, <4>2
    <3>2. CASE mishaps' = mishaps + 1 /\ bucket'[i] = bucket[i]
      BY <1>0, <2>1, <2>3, <2>5, <3>2, SpareKept
    <3>3. QED
      BY <2>1, <3>1, <3>2
  <2>9. ASSUME NEW j \in Ips \ {i}
        PROVE  /\ bucket[j] # None => Covered(admitted[j], bucket[j], mishaps', since)
               /\ bucket[j] = None => Spare(admitted[j], now, mishaps', since)
               /\ bucket[j] # None /\ ttl[j] # None =>
                     \/ bucket[j].last + KeyTtl <= ttl[j]
                     \/ Slack(admitted[j], bucket[j], mishaps', since)
    <3>1. /\ bucket[j] # None => Covered(admitted[j], bucket[j], mishaps, since)
          /\ bucket[j] = None => Spare(admitted[j], now, mishaps, since)
          /\ bucket[j] # None /\ ttl[j] # None =>
                     \/ bucket[j].last + KeyTtl <= ttl[j]
                     \/ Slack(admitted[j], bucket[j], mishaps, since)
      BY <1>0, <2>2, <2>6, <2>9 DEF BudgetInv
    <3>2. CASE mishaps' = mishaps
      BY <3>1, <3>2
    <3>3. CASE mishaps' = mishaps + 1
      <4>1. now <= now /\ admitted[j] \in Nat
        BY <1>0
      <4>2. QED
        BY <1>0, <3>1, <3>3, <4>1, MishapPays, SpareKept
    <3>4. QED
      BY <2>1, <3>2, <3>3
  <2>10. check'[r].ip = i /\ \A j \in Ips : ~Pending(r, j)'
    BY <2>1, <2>2 DEF Pending, i
  <2>11. QED
    BY <1>0, <2>1, <2>2, <2>7, <2>8, <2>9, <2>10 DEF BudgetInv, k
<1>4. ASSUME NEW r \in Replicas, Expire(r) PROVE BudgetInv'
  <2> DEFINE i == check[r].ip
  <2>1. /\ i \in Ips
        /\ \/ /\ mishaps' = mishaps
              /\ ttl'[i] = IF bucket[i] = None THEN ttl[i] ELSE now + KeyTtl
           \/ mishaps' = mishaps + 1 /\ ttl'[i] = ttl[i]
        /\ \A j \in Ips \ {i} : ttl'[j] = ttl[j]
    BY <1>4, ExpireStep
  <2>2. pc[r] = "expire" /\ pc'[r] = "idle" /\ UNCHANGED <<now, bucket, admitted, since>>
    BY <1>4, EndStep DEF Expire
  <2>3. \A j \in Ips : ~Pending(r, j) /\ ~Pending(r, j)'
    BY <2>2 DEF Pending
  <2>4. /\ \A j \in Ips : bucket[j] # None => Covered(admitted[j], bucket[j], mishaps, since)
        /\ \A j \in Ips : bucket[j] = None => Spare(admitted[j], now, mishaps, since)
        /\ \A j \in Ips \ {i} : bucket[j] # None /\ ttl[j] # None =>
              \/ bucket[j].last + KeyTtl <= ttl[j]
              \/ Slack(admitted[j], bucket[j], mishaps, since)
    BY <1>0, <2>3 DEF BudgetInv
  <2> HIDE DEF i
  <2>5. CASE mishaps' = mishaps /\ ttl'[i] = IF bucket[i] = None THEN ttl[i] ELSE now + KeyTtl
    <3>1. bucket[i] # None => bucket[i].last + KeyTtl <= ttl'[i]
      BY <1>0, <1>c, <2>1, <2>5
    <3>2. QED
      BY <1>0, <2>1, <2>2, <2>3, <2>4, <2>5, <3>1 DEF BudgetInv
  <2>6. CASE mishaps' = mishaps + 1
    <3>1. \A j \in Ips : bucket[j] # None =>
             /\ Covered(admitted[j], bucket[j], mishaps + 1, since)
             /\ Slack(admitted[j], bucket[j], mishaps + 1, since)
      BY <1>0, <2>4, MishapPays
    <3>2. \A j \in Ips : bucket[j] = None => Spare(admitted[j], now, mishaps + 1, since)
      <4>1. now <= now
        BY <1>0
      <4>2. QED
        BY <1>0, <2>4, <4>1, SpareKept
    <3>3. QED
      BY <1>0, <2>2, <2>3, <2>6, <3>1, <3>2 DEF BudgetInv
  <2>7. QED
    BY <2>1, <2>5, <2>6
<1>5. ASSUME NEW r \in Replicas, Die(r) PROVE BudgetInv'
  <2>1. /\ pc[r] # "idle" /\ pc'[r] = "idle" /\ mishaps' = mishaps + 1
        /\ UNCHANGED <<now, bucket, ttl, admitted, since>>
    BY <1>5, EndStep DEF Die, Fails
  <2>2. \A j \in Ips : ~Pending(r, j)'
    BY <2>1 DEF Pending
  <2>3. \A j \in Ips : bucket[j] # None =>
           /\ Covered(admitted[j], bucket[j], mishaps + 1, since)
           /\ Slack(admitted[j], bucket[j], mishaps + 1, since)
    BY <1>0, MishapPays DEF BudgetInv
  <2>4. ASSUME NEW j \in Ips, bucket[j] = None
        PROVE  Spare(admitted[j], now, mishaps + 1, since)
    <3>1. CASE Pending(r, j)
      <4>1. Spare(admitted[j], check[r].at, mishaps, since)
        BY <2>4, <3>1 DEF BudgetInv
      <4>2. QED
        BY <1>0, <1>c, <2>1, <4>1, SpareKept
    <3>2. CASE ~Pending(r, j)
      <4>1. Spare(admitted[j], now, mishaps, since) /\ now <= now
        BY <1>0, <2>4, <3>2 DEF BudgetInv
      <4>2. QED
        BY <1>0, <4>1, SpareKept
    <3>3. QED
      BY <3>1, <3>2
  <2>5. QED
    BY <1>0, <2>1, <2>2, <2>3, <2>4 DEF BudgetInv
<1>6. ASSUME NEW i \in Ips, KeyExpires(i) PROVE BudgetInv'
  <2>1. /\ ttl[i] # None /\ now >= ttl[i] /\ bucket'[i] = None /\ ttl'[i] = None
        /\ \A j \in Ips \ {i} : bucket'[j] = bucket[j] /\ ttl'[j] = ttl[j]
        /\ mishaps' = IF UnderCheck(i) THEN mishaps + 1 ELSE mishaps
        /\ UNCHANGED <<now, pc, check, admitted, since>>
    BY <1>6 DEF KeyExpires, TypeOK
  <2>2. \A s \in Replicas, j \in Ips : Pending(s, j)' <=> Pending(s, j)
    BY <2>1 DEF Pending
  <2>3. /\ \A j \in Ips : bucket[j] # None => Covered(admitted[j], bucket[j], mishaps', since)
        /\ \A j \in Ips : bucket[j] = None /\ (\A s \in Replicas : ~Pending(s, j)) =>
              Spare(admitted[j], now, mishaps', since)
        /\ \A s \in Replicas, j \in Ips : bucket[j] = None /\ Pending(s, j) =>
              Spare(admitted[j], check[s].at, mishaps', since)
        /\ \A s \in Replicas : pc[s] = "hmset" =>
              Covered(admitted[check[s].ip], check[s].read, mishaps', since)
        /\ \A j \in Ips :
              /\ bucket[j] # None /\ ttl[j] # None
              /\ \A s \in Replicas : ~(pc[s] = "expire" /\ check[s].ip = j)
              => \/ bucket[j].last + KeyTtl <= ttl[j]
                 \/ Slack(admitted[j], bucket[j], mishaps', since)
    <3>1. CASE mishaps' = mishaps
      BY <3>1 DEF BudgetInv
    <3>2. CASE mishaps' = mishaps + 1
      <4>1. \A j \in Ips : bucket[j] # None =>
               Covered(admitted[j], bucket[j], mishaps + 1, since)
        BY <1>0, MishapPays DEF BudgetInv
      <4>2. ASSUME NEW j \in Ips, bucket[j] = None, \A s \in Replicas : ~Pending(s, j)
            PROVE  Spare(admitted[j], now, mishaps + 1, since)
        <5>1. Spare(admitted[j], now, mishaps, since) /\ now <= now
          BY <1>0, <4>2 DEF BudgetInv
        <5>2. QED
          BY <1>0, <5>1, SpareKept
      <4>3. ASSUME NEW s \in Replicas, NEW j \in Ips, bucket[j] = None, Pending(s, j)
            PROVE  Spare(admitted[j], check[s].at, mishaps + 1, since)
        <5>1. check[s].at \in Nat
          BY <1>0, <4>3 DEF Pending
        <5>2. Spare(admitted[j], check[s].at, mishaps, since) /\ check[s].at <= check[s].at
          BY <4>3, <5>1 DEF BudgetInv
        <5>3. QED
          BY <1>0, <5>1, <5>2, SpareKept
      <4>4. \A s \in Replicas : pc[s] = "hmset" =>
               Covered(admitted[check[s].ip], check[s].read, mishaps + 1, since)
        BY <1>0, MishapPays DEF BudgetInv
      <4>5. \A j \in Ips : bucket[j] # None =>
               Slack(admitted[j], bucket[j], mishaps + 1, since)
        BY <1>0, MishapPays DEF BudgetInv
      <4>6. QED
        BY <3>2, <4>1, <4>2, <4>3, <4>4, <4>5
    <3>3. QED
      BY <2>1, <3>1, <3>2
  <2>4. ASSUME \A s \in Replicas : ~Pending(s, i) PROVE Spare(admitted[i], now, mishaps', since)
    <3>1. CASE bucket[i] = None
      BY <2>3, <2>4, <3>1
    <3>2. CASE bucket[i] # None /\ UnderCheck(i)
      <4>1. mishaps' = mishaps + 1 /\ Covered(admitted[i], bucket[i], mishaps, since)
        BY <2>1, <3>2 DEF BudgetInv
      <4>2. QED
        BY <1>0, <1>c, <3>2, <4>1, LossPaid
    <3>3. CASE bucket[i] # None /\ ~UnderCheck(i)
      <4>1. mishaps' = mishaps /\ Covered(admitted[i], bucket[i], mishaps, since)
        BY <2>1, <3>3 DEF BudgetInv
      <4>2. \/ bucket[i].last + KeyTtl <= ttl[i]
            \/ Slack(admitted[i], bucket[i], mishaps, since)
        BY <2>1, <3>3 DEF BudgetInv, UnderCheck
      <4>3. ttl[i] \in Nat /\ bucket[i].last \in Nat /\ bucket[i].last <= now
        BY <1>0, <1>c, <2>1, <3>3 DEF TypeOK
      <4>4. CASE bucket[i].last + KeyTtl <= ttl[i]
        <5>1. bucket[i].last + KeyTtl <= now
          BY <1>0, <2>1, <4>3, <4>4
        <5>2. QED
          BY <1>0, <3>3, <4>1, <4>3, <5>1, LossPaid
      <4>5. CASE Slack(admitted[i], bucket[i], mishaps, since)
        BY <1>0, <3>3, <4>1, <4>3, <4>5, LossPaid
      <4>6. QED
        BY <4>2, <4>4, <4>5
    <3>4. QED
      BY <3>1, <3>2, <3>3
  <2>5. ASSUME NEW s \in Replicas, Pending(s, i)
        PROVE  Spare(admitted[i], check[s].at, mishaps', since)
    <3>1. CASE bucket[i] = None
      BY <2>3, <2>5, <3>1
    <3>2. CASE bucket[i] # None
      <4>1. pc[s] # "idle" /\ check[s].ip = i /\ UnderCheck(i)
        BY <2>5 DEF Pending, UnderCheck
      <4>2. mishaps' = mishaps + 1 /\ Covered(admitted[i], bucket[i], mishaps, since)
        BY <2>1, <3>2, <4>1 DEF BudgetInv
      <4>3. check[s].at \in Nat /\ bucket[i].last <= check[s].at
        BY <1>0, <1>c, <3>2, <4>1
      <4>4. QED
        BY <1>0, <3>2, <4>2, <4>3, LossPaid
    <3>3. QED
      BY <3>1, <3>2
  <2>6. QED
    BY <1>0, <2>1, <2>2, <2>3, <2>4, <2>5 DEF BudgetInv
<1>7. CASE Tick
  <2>1. now' = now + 1 /\ UNCHANGED <<bucket, ttl, pc, check, admitted, since, mishaps>>
    BY <1>7 DEF Tick
  <2>2. ASSUME NEW j \in Ips, Spare(admitted[j], now, mishaps, since)
        PROVE  Spare(admitted[j], now + 1, mishaps, since)
    <3>1. now + 1 \in Nat /\ now <= now + 1
      BY <1>0
    <3>2. QED
      BY <1>0, <2>2, <3>1, SpareKept
  <2>3. QED
    BY <2>1, <2>2 DEF BudgetInv, Pending
<1>8. CASE UNCHANGED vars
  BY <1>8 DEF vars, BudgetInv, Pending
<1>9. QED
  BY <1>1, <1>2, <1>3, <1>4, <1>5, <1>6, <1>7, <1>8 DEF Next, Allow

(* One process never races: its checks take turns.                           *)
LEMMA NoRaces == OneProcess /\ races = 0 /\ [Next]_vars => races' = 0
<1>1. ASSUME OneProcess, NEW r \in Replicas, NEW i PROVE ~Raced(r, i)
  BY <1>1 DEF OneProcess, Raced
<1>2. ASSUME OneProcess, races = 0, NEW r \in Replicas, Hmset(r) PROVE races' = 0
  BY <1>1, <1>2 DEF Hmset
<1>3. ASSUME races = 0, UNCHANGED races PROVE races' = 0
  BY <1>3
<1>4. QED
  BY <1>2, <1>3
     DEF Next, vars, history, Allow, Begin, Hmget, Expire, Die, KeyExpires, Tick

-----------------------------------------------------------------------------
LEMMA RateTypeInit == Init => TypeOK /\ CheckInv
BY RateLimitAssumption DEF Init, TypeOK, CheckInv

(* One process starts with nobody let in and no bucket, read as a full one.  *)
LEMMA RateInit == Init => RateInv
<1> SUFFICES ASSUME Init PROVE RateInv
  OBVIOUS
<1>1. ClockInv /\ PatientNeverRefused /\ races = 0
  BY DEF Init, ClockInv, PatientNeverRefused
<1>2. BudgetInv
  <2>1. ASSUME NEW u \in Nat PROVE Spare(0, u, 0, since)
    <3>1. since \in Nat /\ u <= u
      BY <2>1, RateLimitAssumption DEF Init
    <3>2. Acc(since, u) \in Nat
      BY <2>1, <3>1, Accrues
    <3>3. Cost(0) = 0 /\ Bursts(0) = 0
      BY RateLimitAssumption DEF Cost, Bursts
    <3>4. QED
      BY <3>2, <3>3 DEF Spare
  <2>2. QED
    BY <2>1 DEF Init, BudgetInv, Pending
<1>3. QED
  BY <1>1, <1>2, RateTypeInit DEF RateInv

LEMMA RateStep == OneProcess /\ RateInv /\ [Next]_vars => RateInv'
<1> SUFFICES ASSUME OneProcess, RateInv, [Next]_vars PROVE RateInv'
  OBVIOUS
<1>1. TypeOK' /\ CheckInv'
  BY RateTypeStep DEF RateInv
<1>2. ClockInv'
  BY ClockStep DEF RateInv
<1>3. PatientNeverRefused'
  BY PatientStep DEF RateInv
<1>4. Refills => BudgetInv'
  BY BudgetStep DEF RateInv
<1>5. Refills' <=> Refills
  BY DEF Refills, Accrual
<1>6. races' = 0
  BY NoRaces DEF RateInv
<1>7. QED
  BY <1>1, <1>2, <1>3, <1>4, <1>5, <1>6 DEF RateInv

LEMMA RateInvariant == OneProcess /\ Spec => []RateInv
<1>1. OneProcess => OneProcess'
  BY DEF OneProcess
<1>2. QED
  BY <1>1, RateInit, RateStep, PTL DEF Spec

(* At any number of replicas, allow keeps every variable in its type: above  *)
(* all, the level of a bucket never drops below zero.                        *)
THEOREM RateTypeCorrect == Spec => []TypeOK
BY RateTypeInit, RateTypeStep, PTL DEF Spec

(* What one process lets in stays within a burst, what accrued, and a burst  *)
(* for each mishap: for every rate, burst and window, and any time to live   *)
(* within which a burst refills.  It never has a race to pay for.            *)
THEOREM RateConforms == OneProcess /\ Spec => [](Conforms /\ races = 0)
<1>1. RateInv => Conforms /\ races = 0
  <2> SUFFICES ASSUME RateInv, Refills, NEW i \in Ips
               PROVE  Second * admitted[i] <=
                         Second * Burst * (1 + mishaps + 0)
                           + Accrual(IF now > since THEN now - since ELSE 0)
    BY DEF Conforms, Refills, RateInv
  <2>1. /\ TypeOK /\ CheckInv /\ ClockInv /\ BudgetInv
        /\ now \in Nat /\ mishaps \in Nat /\ since \in Nat /\ admitted[i] \in Nat
    BY RateLimitAssumption DEF RateInv, TypeOK
  <2>2. Spare(admitted[i], now, mishaps + 1, since)
    <3>1. CASE bucket[i] # None
      <4>1. bucket[i] \in Bucket /\ stamp[i] \in Int /\ bucket[i].last \in Nat
        BY <2>1, <3>1 DEF TypeOK, Bucket
      <4>2. bucket[i].last <= now /\ Covered(admitted[i], bucket[i], mishaps, since)
        BY <2>1, <3>1, <4>1 DEF ClockInv, BudgetInv
      <4>3. QED
        BY <2>1, <4>1, <4>2, LossPaid
    <3>2. CASE bucket[i] = None /\ \A r \in Replicas : ~Pending(r, i)
      <4>1. Spare(admitted[i], now, mishaps, since) /\ now <= now
        BY <2>1, <3>2 DEF BudgetInv
      <4>2. QED
        BY <2>1, <4>1, SpareKept
    <3>3. CASE bucket[i] = None /\ \E r \in Replicas : Pending(r, i)
      <4>1. PICK r \in Replicas : Pending(r, i)
        BY <3>3
      <4>2. check[r].at \in Nat /\ check[r].at <= now
        BY <2>1, <4>1 DEF CheckInv, ClockInv, Pending, Check
      <4>3. Spare(admitted[i], check[r].at, mishaps, since)
        BY <2>1, <3>3, <4>1 DEF BudgetInv
      <4>4. QED
        BY <2>1, <4>2, <4>3, SpareKept
    <3>4. QED
      BY <3>1, <3>2, <3>3
  <2>3. mishaps + 1 = 1 + mishaps + 0
    BY <2>1
  <2>4. QED
    BY <2>2, <2>3 DEF Spare, Cost, Bursts, Acc
<1>2. QED
  BY <1>1, RateInvariant, PTL

(* One process never refuses a client that leaves the time of one token      *)
(* between its requests, whatever fails, dies or expires meanwhile.          *)
THEOREM RatePatientNeverRefused == OneProcess /\ Spec => []PatientNeverRefused
<1>1. RateInv => PatientNeverRefused
  BY DEF RateInv
<1>2. QED
  BY <1>1, RateInvariant, PTL

=============================================================================
