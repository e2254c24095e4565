----------------------------- MODULE GuardProofs -----------------------------
(***************************************************************************)
(* Proofs about the renewal script, for any set of requests, any TTL and   *)
(* any bounds on the age of the cookie and the lag of an answer.           *)
(***************************************************************************)
EXTENDS Guard, TLAPS

(* Slack bounds both ways in which the script's clock falls behind.         *)
LEMMA SlackBounds == Slack \in Nat /\ MaxAge <= Slack /\ MaxLag <= Slack
BY GuardAssumption DEF Slack

(* Enqueuing: the requests in S and nobody else become held.                *)
LEMMA HeldTypes ==
    ASSUME NEW st \in [Requests -> Statuses], NEW S \in SUBSET Requests
    PROVE  /\ Held(st, S) \in [Requests -> Statuses]
           /\ \A q \in Requests : Held(st, S)[q] = "held" <=> st[q] = "held" \/ q \in S
           /\ \A q \in Requests : q \notin S => Held(st, S)[q] = st[q]
BY DEF Held, Statuses

(* Releasing: nobody is held any more, and whoever was not is left alone.   *)
LEMMA ReleasedTypes ==
    ASSUME NEW st \in [Requests -> Statuses], NEW to \in {"sent", "failed"}
    PROVE  /\ Released(st, to) \in [Requests -> Statuses]
           /\ \A q \in Requests : Released(st, to)[q] # "held"
           /\ \A q \in Requests : st[q] # "held" => Released(st, to)[q] = st[q]
BY DEF Released, Statuses

(* Timers are set in the future.                                            *)
LEMMA TimedTypes ==
    ASSUME TypeOK, NEW S \in SUBSET Requests
    PROVE  Timed(S) \in [Requests -> Nat \cup {Never}]
<1>1. now + Wait \in Nat
  BY GuardAssumption DEF TypeOK
<1>2. QED
  BY <1>1 DEF Timed, TypeOK

(* A retry is a request not sent before, and takes a held one to occasion it. *)
LEMMA RetriesTypes ==
    ASSUME NEW st \in [Requests -> Statuses], NEW R \in Retries(st)
    PROVE  /\ R \in SUBSET Requests
           /\ \A q \in R : st[q] = "new"
           /\ R # {} => \E q \in Requests : st[q] = "held"
BY GuardAssumption DEF Retries

(* What renew() does to the queue, whether it joins, starts or throws.      *)
LEMMA RenewEffect ==
    ASSUME TypeOK, NEW st \in [Requests -> Statuses], NEW S \in SUBSET Requests,
           Renew(st, S)
    PROVE  /\ solver' \in BOOLEAN /\ step' \in Awaits
           /\ step' = "answer" => step = "answer"
           /\ status' \in [Requests -> Statuses]
           /\ due' \in [Requests -> Nat \cup {Never}]
           /\ \A q \in Requests : status'[q] = "held" => st[q] = "held" \/ q \in S
           /\ \A q \in Requests : st[q] \in {"sent", "failed"} /\ q \notin S
                                    => status'[q] = st[q]
<1>1. solver' \in BOOLEAN /\ step' \in Awaits /\ (step' = "answer" => step = "answer")
  BY DEF Renew, Awaits, TypeOK
<1>2. CASE solver \/ hasFetch
  <2>1. status' = Held(st, S) /\ due' = Timed(S)
    BY <1>2 DEF Renew
  <2>2. QED
    BY <1>1, <2>1, HeldTypes, TimedTypes
<1>3. CASE ~solver /\ ~hasFetch
  <2>1. PICK R \in Retries(Held(st, S)) :
              /\ status' = Released(Held(st, S \cup R), "failed")
              /\ due' = Timed(S \cup R)
    BY <1>3 DEF Renew
  <2>2. Held(st, S) \in [Requests -> Statuses]
    BY HeldTypes
  <2>3. R \in SUBSET Requests /\ \A q \in R : Held(st, S)[q] = "new"
    BY <2>2, RetriesTypes
  <2>4. S \cup R \in SUBSET Requests
    BY <2>3
  <2>5. Held(st, S \cup R) \in [Requests -> Statuses]
    BY <2>4, HeldTypes
  <2>6. /\ status' \in [Requests -> Statuses]
        /\ \A q \in Requests : status'[q] # "held"
        /\ \A q \in Requests : Held(st, S \cup R)[q] # "held"
                                 => status'[q] = Held(st, S \cup R)[q]
    BY <2>1, <2>5, ReleasedTypes
  <2>7. ASSUME NEW q \in Requests, st[q] \in {"sent", "failed"}, q \notin S
        PROVE  status'[q] = st[q]
    <3>1. Held(st, S)[q] = st[q]
      BY <2>7, HeldTypes
    <3>2. q \notin S \cup R
      BY <2>3, <2>7, <3>1
    <3>3. Held(st, S \cup R)[q] = st[q]
      BY <2>4, <3>2, HeldTypes
    <3>4. QED
      BY <2>6, <2>7, <3>3
  <2>8. due' \in [Requests -> Nat \cup {Never}]
    BY <2>1, <2>4, TimedTypes
  <2>9. QED
    BY <1>1, <2>6, <2>7, <2>8
<1>4. QED
  BY <1>2, <1>3

(* What a failed renewal does to the queue.                                 *)
LEMMA FailEffect ==
    ASSUME TypeOK, RenewFails
    PROVE  /\ status' \in [Requests -> Statuses]
           /\ due' \in [Requests -> Nat \cup {Never}]
           /\ (\E q \in Requests : status'[q] = "held") => \E q \in Requests : status[q] = "held"
           /\ \A q \in Requests : status[q] \in {"sent", "failed"} => status'[q] = status[q]
<1>1. PICK R \in Retries(status) :
            status' = Held(Released(status, "failed"), R) /\ due' = Timed(R)
  BY DEF RenewFails
<1>2. status \in [Requests -> Statuses]
  BY DEF TypeOK
<1>3. /\ R \in SUBSET Requests
      /\ \A q \in R : status[q] = "new"
      /\ R # {} => \E q \in Requests : status[q] = "held"
  BY <1>2, RetriesTypes
<1>4. /\ Released(status, "failed") \in [Requests -> Statuses]
      /\ \A q \in Requests : Released(status, "failed")[q] # "held"
      /\ \A q \in Requests : status[q] # "held" => Released(status, "failed")[q] = status[q]
  BY <1>2, ReleasedTypes
<1>5. /\ status' \in [Requests -> Statuses]
      /\ \A q \in Requests : status'[q] = "held" <=>
            Released(status, "failed")[q] = "held" \/ q \in R
      /\ \A q \in Requests : q \notin R => status'[q] = Released(status, "failed")[q]
  BY <1>1, <1>3, <1>4, HeldTypes
<1>6. due' \in [Requests -> Nat \cup {Never}]
  BY <1>1, <1>3, TimedTypes
<1>7. ASSUME NEW q \in Requests, status[q] \in {"sent", "failed"}
      PROVE  status'[q] = status[q]
  BY <1>3, <1>4, <1>5, <1>7
<1>8. QED
  BY <1>3, <1>4, <1>5, <1>6, <1>7

(* Lateness is a natural number, zero until the server refuses.             *)
LEMMA LatenessTypes ==
    ASSUME TypeOK, NEW exp \in Nat
    PROVE  Lateness(exp) \in Nat /\ (Lateness(exp) = 0 \/ Lateness(exp) = now - exp)
BY DEF Lateness, TypeOK

(* What a release that breaks off does to the queue.                        *)
LEMMA BreakEffect ==
    ASSUME TypeOK, RenewBreaks
    PROVE  /\ status' \in [Requests -> Statuses]
           /\ late' \in [Requests -> Nat]
           /\ \A q \in Requests : status'[q] # "held"
           /\ \A q \in Requests : status[q] \in {"sent", "failed"} => status'[q] = status[q]
           /\ \A q \in Requests : late'[q] = late[q] \/ late'[q] = Lateness(minted)
<1> DEFINE out(x, S) == [q \in Requests |-> IF q \in S THEN "sent"
                                           ELSE IF q = x THEN "failed" ELSE status[q]]
<1>1. PICK x \in Xhr, S \in SUBSET {q \in Requests : status[q] = "held"} :
            /\ status[x] = "held" /\ x \notin S
            /\ \E R \in Retries(out(x, S)) :
                  /\ status' = [q \in Requests |-> IF q \in R THEN "sent"
                                                   ELSE Released(out(x, S), "failed")[q]]
                  /\ late' = [q \in Requests |-> IF q \in S \cup R THEN Lateness(minted)
                                                 ELSE late[q]]
  BY DEF RenewBreaks
<1>2. PICK st : st = out(x, S)
  OBVIOUS
<1>3. /\ status \in [Requests -> Statuses] /\ late \in [Requests -> Nat]
      /\ Lateness(minted) \in Nat
  BY LatenessTypes DEF TypeOK
<1>4. /\ st \in [Requests -> Statuses]
      /\ \A q \in Requests : status[q] # "held" => st[q] = status[q]
      /\ \A q \in Requests : st[q] = "new" => status[q] = "new"
  BY <1>1, <1>2, <1>3 DEF Statuses
<1>5. PICK R \in Retries(st) :
            /\ status' = [q \in Requests |-> IF q \in R THEN "sent"
                                             ELSE Released(st, "failed")[q]]
            /\ late' = [q \in Requests |-> IF q \in S \cup R THEN Lateness(minted)
                                           ELSE late[q]]
  BY <1>1, <1>2
<1>6. \A q \in R : st[q] = "new"
  BY <1>4, RetriesTypes
<1>7. /\ Released(st, "failed") \in [Requests -> Statuses]
      /\ \A q \in Requests : Released(st, "failed")[q] # "held"
      /\ \A q \in Requests : st[q] # "held" => Released(st, "failed")[q] = st[q]
  BY <1>4, ReleasedTypes
<1>8. status' \in [Requests -> Statuses] /\ \A q \in Requests : status'[q] # "held"
  BY <1>5, <1>7 DEF Statuses
<1>9. late' \in [Requests -> Nat]
      /\ \A q \in Requests : late'[q] = late[q] \/ late'[q] = Lateness(minted)
  BY <1>3, <1>5
<1>10. ASSUME NEW q \in Requests, status[q] \in {"sent", "failed"}
       PROVE  status'[q] = status[q]
  <2>1. st[q] = status[q] /\ q \notin R
    BY <1>4, <1>6, <1>10
  <2>2. QED
    BY <1>5, <1>7, <1>10, <2>1
<1>11. QED
  BY <1>8, <1>9, <1>10

-----------------------------------------------------------------------------
LEMMA InitTypes == Init => TypeOK
BY GuardAssumption DEF Init, TypeOK, Awaits, Statuses

(* Every step keeps the types.                                              *)
LEMMA StepTypes == TypeOK /\ [Next]_vars => TypeOK'
<1> SUFFICES ASSUME TypeOK, [Next]_vars PROVE TypeOK'
  OBVIOUS
<1>0. status \in [Requests -> Statuses] /\ {} \in SUBSET Requests
  BY DEF TypeOK
<1>1. ASSUME NEW q \in Requests, GatePass(q) PROVE TypeOK'
  <2>1. late' \in [Requests -> Nat]
    BY <1>1, LatenessTypes DEF GatePass, TypeOK
  <2>2. [status EXCEPT ![q] = "sent"] \in [Requests -> Statuses]
    BY <1>0 DEF Statuses
  <2>3. CASE NeedsRenewal
    <3>1. Renew([status EXCEPT ![q] = "sent"], {})
      BY <1>1, <2>3 DEF GatePass
    <3>2. QED
      BY <1>0, <1>1, <2>1, <2>2, <3>1, RenewEffect DEF GatePass, TypeOK
  <2>4. CASE ~NeedsRenewal
    BY <1>1, <2>1, <2>2, <2>4 DEF GatePass, TypeOK
  <2>5. QED
    BY <2>3, <2>4
<1>2. ASSUME NEW q \in Requests, GateHold(q) PROVE TypeOK'
  <2>1. Renew(status, {q}) /\ {q} \in SUBSET Requests
    BY <1>2 DEF GateHold
  <2>2. QED
    BY <1>0, <1>2, <2>1, RenewEffect DEF GateHold, TypeOK
<1>3. ASSUME NEW q \in Requests, Timeout(q) PROVE TypeOK'
  BY <1>0, <1>3 DEF Timeout, TypeOK, Statuses
<1>4. CASE Heartbeat
  <2>1. Renew(status, {})
    BY <1>4 DEF Heartbeat
  <2>2. QED
    BY <1>0, <1>4, <2>1, RenewEffect DEF Heartbeat, TypeOK
<1>5. CASE ChallengeDone \/ SolveDone
  BY <1>5 DEF ChallengeDone, SolveDone, TypeOK, Awaits
<1>6. CASE ServerVerifies
  BY <1>6, GuardAssumption DEF ServerVerifies, TypeOK, Awaits
<1>7. CASE RenewDone
  <2>1. Lateness(minted) \in Nat
    BY LatenessTypes DEF TypeOK
  <2>2. status' \in [Requests -> Statuses]
    BY <1>0, <1>7, ReleasedTypes DEF RenewDone
  <2>3. late' \in [Requests -> Nat]
    BY <1>7, <2>1 DEF RenewDone, TypeOK
  <2>4. expires' = now + Ttl /\ cookie' = minted /\ step' = "none" /\ solver' = FALSE
    BY <1>7, Zenon DEF RenewDone
  <2>5. expires' \in Nat /\ cookie' \in Nat
    BY <2>4, GuardAssumption DEF TypeOK
  <2>6. step' \in Awaits /\ solver' \in BOOLEAN
    BY <2>4, Zenon DEF Awaits
  <2>7. UNCHANGED <<now, hasFetch, due, minted>>
    BY <1>7 DEF RenewDone
  <2>8. QED
    BY <2>2, <2>3, <2>5, <2>6, <2>7 DEF TypeOK
<1>8. CASE RenewFails
  BY <1>8, FailEffect DEF RenewFails, TypeOK, Awaits
<1>9. CASE RenewBreaks
  <2>1. status' \in [Requests -> Statuses] /\ late' \in [Requests -> Nat]
    BY <1>9, BreakEffect
  <2>2. expires' = now + Ttl /\ cookie' = minted /\ step' = "none" /\ solver' = FALSE
    BY <1>9, Zenon DEF RenewBreaks
  <2>3. expires' \in Nat /\ cookie' \in Nat
    BY <2>2, GuardAssumption DEF TypeOK
  <2>4. step' \in Awaits /\ solver' \in BOOLEAN
    BY <2>2, Zenon DEF Awaits
  <2>5. UNCHANGED <<now, hasFetch, due, minted>>
    BY <1>9 DEF RenewBreaks
  <2>6. QED
    BY <2>1, <2>3, <2>4, <2>5 DEF TypeOK
<1>10. CASE Tick
  BY <1>10 DEF Tick, TypeOK
<1>11. CASE UNCHANGED vars
  BY <1>11 DEF vars, TypeOK
<1>12. QED
  BY <1>1, <1>2, <1>3, <1>4, <1>5, <1>6, <1>7, <1>8, <1>9, <1>10, <1>11 DEF Next

(* The script is type-correct whatever happens to its requests, timers and  *)
(* renewals (guard.js:207-394).                                             *)
THEOREM GuardTypeCorrect == Spec => []TypeOK
<1>1. QED
  BY InitTypes, StepTypes, PTL DEF Spec

-----------------------------------------------------------------------------
(* Nobody is held once the session is valid: only an expired gate holds, a  *)
(* retry takes a held request, and the renewal that re-anchors lets all go. *)
LEMMA StepHeld == TypeOK /\ HeldOnlyWhileInvalid /\ [Next]_vars => HeldOnlyWhileInvalid'
<1> SUFFICES ASSUME TypeOK, HeldOnlyWhileInvalid, [Next]_vars,
                    NEW p \in Requests, status'[p] = "held"
             PROVE  IsExpired'
  BY DEF HeldOnlyWhileInvalid
<1>0. status \in [Requests -> Statuses] /\ {} \in SUBSET Requests
  BY DEF TypeOK
<1> DEFINE Calm == UNCHANGED expires /\ now' \in Nat /\ now' >= now
<1>a. ASSUME Calm, IsExpired PROVE IsExpired'
  BY <1>a DEF IsExpired, TypeOK
<1>b. ASSUME Calm, NEW q \in Requests, status[q] = "held" PROVE IsExpired'
  BY <1>a, <1>b DEF HeldOnlyWhileInvalid
<1> HIDE DEF Calm
<1>1. ASSUME NEW q \in Requests, GatePass(q) PROVE IsExpired'
  <2>0. Calm
    BY <1>1 DEF GatePass, Calm, TypeOK
  <2>1. [status EXCEPT ![q] = "sent"] \in [Requests -> Statuses]
    BY <1>0 DEF Statuses
  <2>2. CASE NeedsRenewal
    <3>1. Renew([status EXCEPT ![q] = "sent"], {})
      BY <1>1, <2>2 DEF GatePass
    <3> DEFINE st == [status EXCEPT ![q] = "sent"]
    <3>2. st \in [Requests -> Statuses] /\ Renew(st, {})
      BY <2>1, <3>1
    <3> HIDE DEF st
    <3>3. st[p] = "held"
      BY <1>0, <3>2, RenewEffect
    <3>4. status[p] = "held"
      BY <1>0, <3>3 DEF st
    <3>5. QED
      BY <1>b, <2>0, <3>4
  <2>3. CASE ~NeedsRenewal
    <3>1. status' = [status EXCEPT ![q] = "sent"]
      BY <1>1, <2>3 DEF GatePass
    <3>2. QED
      BY <1>0, <1>b, <2>0, <3>1
  <2>4. QED
    BY <2>2, <2>3
<1>2. ASSUME NEW q \in Requests, GateHold(q) PROVE IsExpired'
  BY <1>2, <1>a DEF GateHold, Calm, TypeOK
<1>3. ASSUME NEW q \in Requests, Timeout(q) PROVE IsExpired'
  <2>1. status[p] = "held"
    BY <1>0, <1>3 DEF Timeout
  <2>2. QED
    BY <1>3, <1>b, <2>1 DEF Timeout, Calm, TypeOK
<1>4. CASE Heartbeat
  <2>1. status[p] = "held"
    BY <1>0, <1>4, RenewEffect DEF Heartbeat
  <2>2. QED
    BY <1>4, <1>b, <2>1 DEF Heartbeat, Calm, TypeOK
<1>5. CASE ChallengeDone \/ SolveDone \/ ServerVerifies
  BY <1>5, <1>b DEF ChallengeDone, SolveDone, ServerVerifies, Calm, TypeOK
<1>6. CASE RenewDone
  BY <1>0, <1>6, ReleasedTypes DEF RenewDone
<1>7. CASE RenewFails
  <2>1. PICK q \in Requests : status[q] = "held"
    BY <1>7, FailEffect
  <2>2. QED
    BY <1>7, <1>b, <2>1 DEF RenewFails, Calm, TypeOK
<1>8. CASE Tick
  BY <1>8, <1>b DEF Tick, Calm, TypeOK
<1>9. CASE UNCHANGED vars
  BY <1>9, <1>b DEF vars, Calm, TypeOK
<1>10. CASE RenewBreaks
  BY <1>10, BreakEffect
<1>11. QED
  BY <1>1, <1>2, <1>3, <1>4, <1>5, <1>6, <1>7, <1>8, <1>9, <1>10 DEF Next

(* Requests are held only while the script holds the session for expired    *)
(* (guard.js:266-310), for any number of them.                              *)
THEOREM HeldOnlyWhileInvalidHolds == Spec => []HeldOnlyWhileInvalid
<1>1. Init => HeldOnlyWhileInvalid
  BY DEF Init, HeldOnlyWhileInvalid
<1>2. QED
  BY <1>1, StepHeld, GuardTypeCorrect, PTL DEF Spec

-----------------------------------------------------------------------------
(* Each step keeps the script's expiry within the slack of the cookie's.    *)
LEMMA StepAnchor == TypeOK /\ AnchorInv /\ [Next]_vars => AnchorInv'
<1> SUFFICES ASSUME TypeOK, AnchorInv, [Next]_vars PROVE AnchorInv'
  OBVIOUS
<1> USE DEF AnchorInv
<1>0. status \in [Requests -> Statuses] /\ {} \in SUBSET Requests
  BY DEF TypeOK
<1>1. ASSUME NEW q \in Requests, GatePass(q) PROVE AnchorInv'
  <2>1. UNCHANGED <<now, expires, cookie, minted>>
    BY <1>1 DEF GatePass
  <2> DEFINE st == [status EXCEPT ![q] = "sent"]
  <2>2. st \in [Requests -> Statuses]
    BY <1>0 DEF Statuses
  <2>3. UNCHANGED step \/ Renew(st, {})
    BY <1>1 DEF GatePass
  <2> HIDE DEF st
  <2>4. step' = "answer" => step = "answer"
    BY <1>0, <2>2, <2>3, RenewEffect
  <2>5. QED
    BY <2>1, <2>4
<1>2. ASSUME NEW q \in Requests, GateHold(q) PROVE AnchorInv'
  <2>1. Renew(status, {q}) /\ {q} \in SUBSET Requests
    BY <1>2 DEF GateHold
  <2>2. step' = "answer" => step = "answer"
    BY <1>0, <2>1, RenewEffect
  <2>3. QED
    BY <1>2, <2>2 DEF GateHold
<1>3. CASE Heartbeat
  <2>1. step' = "answer" => step = "answer"
    BY <1>0, <1>3, RenewEffect DEF Heartbeat
  <2>2. QED
    BY <1>3, <2>1 DEF Heartbeat
<1>4. ASSUME NEW q \in Requests, Timeout(q) PROVE AnchorInv'
  BY <1>4 DEF Timeout
<1>5. CASE ChallengeDone \/ SolveDone \/ RenewFails
  BY <1>5 DEF ChallengeDone, SolveDone, RenewFails
<1>6. CASE ServerVerifies
  BY <1>6, GuardAssumption DEF ServerVerifies, TypeOK
<1>7. CASE RenewDone \/ RenewBreaks
  BY <1>7, SlackBounds, GuardAssumption DEF RenewDone, RenewBreaks, TypeOK
<1>8. CASE Tick
  BY <1>8, GuardAssumption DEF Tick, TypeOK
<1>9. CASE UNCHANGED vars
  BY <1>9 DEF vars
<1>10. QED
  BY <1>1, <1>2, <1>3, <1>4, <1>5, <1>6, <1>7, <1>8, <1>9 DEF Next

(* A request is sent before the script's expiry, or on a cookie that has    *)
(* just come.                                                               *)
LEMMA StepSlack ==
    TypeOK /\ AnchorInv /\ SentWithinSlack /\ [Next]_vars => SentWithinSlack'
<1> SUFFICES ASSUME TypeOK, AnchorInv, SentWithinSlack, [Next]_vars, NEW p \in Requests
             PROVE  late'[p] = 0 \/ late'[p] < Slack
  BY DEF SentWithinSlack
<1>0. late[p] = 0 \/ late[p] < Slack
  BY DEF SentWithinSlack
<1>1. ASSUME NEW q \in Requests, GatePass(q) PROVE late'[p] = 0 \/ late'[p] < Slack
  <2>1. now < expires
    BY <1>1 DEF GatePass, IsExpired, TypeOK
  <2>2. now - cookie < Slack
    BY <2>1, SlackBounds DEF AnchorInv, TypeOK
  <2>3. Lateness(cookie) = 0 \/ Lateness(cookie) < Slack
    BY <2>2, LatenessTypes DEF TypeOK
  <2>4. late'[p] = late[p] \/ late'[p] = Lateness(cookie)
    BY <1>1 DEF GatePass, TypeOK
  <2>5. QED
    BY <1>0, <2>3, <2>4
<1>2. CASE RenewDone \/ RenewBreaks
  <2>1. now - minted < Slack
    BY <1>2, SlackBounds, GuardAssumption DEF RenewDone, RenewBreaks, AnchorInv, TypeOK
  <2>2. Lateness(minted) = 0 \/ Lateness(minted) < Slack
    BY <2>1, LatenessTypes DEF TypeOK
  <2>3. late'[p] = late[p] \/ late'[p] = Lateness(minted)
    BY <1>2, BreakEffect DEF RenewDone
  <2>4. QED
    BY <1>0, <2>2, <2>3
<1>3. ASSUME NEW q \in Requests, GateHold(q) \/ Timeout(q)
      PROVE  late'[p] = 0 \/ late'[p] < Slack
  BY <1>0, <1>3 DEF GateHold, Timeout
<1>4. CASE Heartbeat \/ RenewFails \/ Tick
  BY <1>0, <1>4 DEF Heartbeat, RenewFails, Tick
<1>5. CASE ChallengeDone \/ SolveDone \/ ServerVerifies
  BY <1>0, <1>5 DEF ChallengeDone, SolveDone, ServerVerifies
<1>6. CASE UNCHANGED vars
  BY <1>0, <1>6 DEF vars
<1>7. QED
  BY <1>1, <1>2, <1>3, <1>4, <1>5, <1>6 DEF Next

(* A request goes out at most so long after its cookie's expiry as the      *)
(* cookie was old at load or an answer travelled (guard.js:66-79, 241).     *)
THEOREM SentWithinSlackHolds == Spec => []SentWithinSlack
<1>1. Init => AnchorInv /\ SentWithinSlack
  BY SlackBounds, GuardAssumption DEF Init, AnchorInv, SentWithinSlack
<1>2. QED
  BY <1>1, StepAnchor, StepSlack, GuardTypeCorrect, PTL DEF Spec

-----------------------------------------------------------------------------
(* What a step leaves alone: whoever was answered.                          *)
LEMMA StepAnswered ==
    ASSUME TypeOK, [Next]_vars, NEW p \in Requests, status[p] \in {"sent", "failed"}
    PROVE  status'[p] = status[p]
<1>0. status \in [Requests -> Statuses] /\ {} \in SUBSET Requests
  BY DEF TypeOK
<1>1. ASSUME NEW q \in Requests, GatePass(q) PROVE status'[p] = status[p]
  <2> DEFINE st == [status EXCEPT ![q] = "sent"]
  <2>1. st \in [Requests -> Statuses]
    BY <1>0 DEF Statuses
  <2>2. st[p] = status[p]
    BY <1>0, <1>1 DEF GatePass
  <2>3. status' = st \/ Renew(st, {})
    BY <1>1 DEF GatePass
  <2> HIDE DEF st
  <2>4. QED
    BY <1>0, <2>1, <2>2, <2>3, RenewEffect
<1>2. ASSUME NEW q \in Requests, GateHold(q) PROVE status'[p] = status[p]
  <2>1. Renew(status, {q}) /\ {q} \in SUBSET Requests /\ p \notin {q}
    BY <1>2 DEF GateHold
  <2>2. QED
    BY <1>0, <2>1, RenewEffect
<1>3. ASSUME NEW q \in Requests, Timeout(q) PROVE status'[p] = status[p]
  BY <1>0, <1>3 DEF Timeout
<1>4. CASE Heartbeat
  BY <1>0, <1>4, RenewEffect DEF Heartbeat
<1>5. CASE RenewDone
  BY <1>0, <1>5, ReleasedTypes DEF RenewDone
<1>6. CASE RenewFails \/ RenewBreaks
  BY <1>6, FailEffect, BreakEffect
<1>7. CASE ChallengeDone \/ SolveDone \/ ServerVerifies \/ Tick
  BY <1>7 DEF ChallengeDone, SolveDone, ServerVerifies, Tick
<1>8. CASE UNCHANGED vars
  BY <1>8 DEF vars
<1>9. QED
  BY <1>1, <1>2, <1>3, <1>4, <1>5, <1>6, <1>7, <1>8 DEF Next

(* A request is answered once (guard.js:277-293): a late timer, a release   *)
(* and an abort leave alone whoever was let go.                             *)
THEOREM AnsweredOnceHolds == Spec => AnsweredOnce
<1>1. TypeOK /\ [Next]_vars =>
        [\A q \in Requests : status[q] \in {"sent", "failed"} => status'[q] = status[q]]_vars
  BY StepAnswered
<1>2. QED
  BY <1>1, GuardTypeCorrect, PTL DEF Spec, AnsweredOnce

=============================================================================
