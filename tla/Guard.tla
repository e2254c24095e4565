-------------------------------- MODULE Guard --------------------------------
(***************************************************************************)
(* The renewal script a page runs (nekoguard/src/assets/guard.js): gate,   *)
(* which lets a request of the page pass or holds it, renew with its       *)
(* awaits, the timer of every held request and the heartbeat.              *)
(*                                                                         *)
(* A step is what the event loop runs between two awaits.  Between them    *)
(* come other requests, timers, the heartbeat and any length of time: a    *)
(* device that sleeps is time passing.  The cookie is HttpOnly: the script *)
(* counts from the moment it was loaded, the server from the moment it     *)
(* sealed the cookie.                                                      *)
(***************************************************************************)
EXTENDS Integers

CONSTANTS
    Requests,      \* what the page sends, each once
    Xhr,           \* those sent with XMLHttpRequest; the others use fetch
    Ttl,           \* session.ttl
    Buffer,        \* BUFFER_MS
    Wait,          \* MAX_QUEUE_WAIT_MS
    MaxAge,        \* bound: how old the cookie is when the page is loaded
    MaxLag,        \* bound: how long the answer to a verification travels
    MaxTime        \* bound: the clock stops here

ASSUME GuardAssumption ==
    /\ Xhr \subseteq Requests
    /\ Ttl \in Nat \ {0}
    /\ Buffer \in Nat /\ Wait \in Nat /\ MaxLag \in Nat /\ MaxTime \in Nat
    /\ MaxAge \in 0..Ttl

VARIABLES
    now,           \* Date.now()
    hasFetch,      \* whether the page had a fetch for the script to capture
    expires,       \* expiresAt(): loadedAt plus the TTL
    solver,        \* whether solver is other than null
    step,          \* what the renewal awaits
    status,        \* per request
    due,           \* per request: when its timer fires, or Never
    cookie,        \* the expiry sealed in the cookie the browser holds
    minted,        \* the one sealed in a cookie on its way
    late           \* history: per request, how long after its cookie's expiry
                   \* it was sent

vars == <<now, hasFetch, expires, solver, step, status, due, cookie, minted, late>>

Never == -1

Awaits == {"none", "challenge", "solve", "verify", "answer"}

Statuses == {"new", "held", "sent", "failed"}

TypeOK ==
    /\ now \in Nat
    /\ hasFetch \in BOOLEAN
    /\ expires \in Nat
    /\ solver \in BOOLEAN
    /\ step \in Awaits
    /\ status \in [Requests -> Statuses]
    /\ due \in [Requests -> Nat \cup {Never}]
    /\ cookie \in Nat
    /\ minted \in Nat
    /\ late \in [Requests -> Nat]

IsExpired == now >= expires

NeedsRenewal == now >= expires - Buffer

(* The script is loaded on a page that was let through, on a cookie that    *)
(* may have been in use for a while, and renews at once if it must.         *)
Init ==
    /\ now = 0
    /\ hasFetch \in BOOLEAN
    /\ expires = Ttl
    /\ solver = (Ttl <= Buffer)
    /\ step = IF hasFetch /\ Ttl <= Buffer THEN "challenge" ELSE "none"
    /\ status = [q \in Requests |-> "new"]
    /\ due = [q \in Requests |-> Never]
    /\ cookie \in {Ttl - age : age \in 0..MaxAge}
    /\ minted = 0
    /\ late = [q \in Requests |-> 0]

-----------------------------------------------------------------------------
(* How long ago the server stopped accepting exp.                           *)
Lateness(exp) == IF now > exp THEN now - exp ELSE 0

(* releaseOne: only what is in the queue is let go, with or without error.  *)
Released(st, to) == [q \in Requests |-> IF st[q] = "held" THEN to ELSE st[q]]

(* enqueue: into the queue, with a timer.                                   *)
Held(st, S) == [q \in Requests |-> IF q \in S THEN "held" ELSE st[q]]
Timed(S) == [q \in Requests |-> IF q \in S THEN now + Wait ELSE due[q]]

(* An aborted XHR dispatches its error event at once, inside release, and   *)
(* the page's handler may send again before release returns.  A rejected    *)
(* fetch is heard of later.                                                 *)
Retries(st) == IF \E q \in Xhr : st[q] = "held" THEN SUBSET {q \in Xhr : st[q] = "new"}
                                                ELSE {{}}

(* renew(), called after the requests in S were enqueued: joins the renewal *)
(* there is, or starts one up to its first await.  Without a fetch it       *)
(* throws before that and aborts the queue, retries included; solver, reset *)
(* on the way out, is then assigned the settled promise.                    *)
Renew(st, S) ==
    /\ solver' = TRUE
    /\ \/ /\ solver \/ hasFetch
          /\ step' = IF solver THEN step ELSE "challenge"
          /\ status' = Held(st, S)
          /\ due' = Timed(S)
       \/ /\ ~solver /\ ~hasFetch
          /\ \E R \in Retries(Held(st, S)) :
                /\ status' = Released(Held(st, S \cup R), "failed")
                /\ due' = Timed(S \cup R)
          /\ UNCHANGED step

-----------------------------------------------------------------------------
(* Faulty: what comes while a renewal is under way is let pass.             *)
GatePassJoining(q) ==
    /\ status[q] = "new"
    /\ ~IsExpired \/ solver
    /\ status' = [status EXCEPT ![q] = "sent"]
    /\ late' = [late EXCEPT ![q] = Lateness(cookie)]
    /\ IF NeedsRenewal /\ ~solver THEN solver' = TRUE /\ step' = "challenge"
                                  ELSE UNCHANGED <<solver, step>>
    /\ UNCHANGED <<now, hasFetch, expires, due, cookie, minted>>

(* gate, with a session that has not expired: a renewal may be started, and *)
(* the request goes out on the cookie there is.                             *)
GatePass(q) ==
    /\ status[q] = "new"
    /\ ~IsExpired
    /\ IF NeedsRenewal THEN Renew([status EXCEPT ![q] = "sent"], {})
                       ELSE /\ status' = [status EXCEPT ![q] = "sent"]
                            /\ UNCHANGED <<solver, step, due>>
    /\ late' = [late EXCEPT ![q] = Lateness(cookie)]
    /\ UNCHANGED <<now, hasFetch, expires, cookie, minted>>

(* gate, with a session that has expired: hold the request, and renew.      *)
GateHold(q) ==
    /\ status[q] = "new"
    /\ IsExpired
    /\ Renew(status, {q})
    /\ UNCHANGED <<now, hasFetch, expires, cookie, minted, late>>

(* Faulty: fires into a request that was let go already.                    *)
TimeoutUnchecked(q) ==
    /\ due[q] # Never /\ now >= due[q]
    /\ due' = [due EXCEPT ![q] = Never]
    /\ status' = [status EXCEPT ![q] = "failed"]
    /\ UNCHANGED <<now, hasFetch, expires, solver, step, cookie, minted, late>>

(* Faulty: waits for the renewal to end.                                    *)
TimeoutPatient(q) ==
    /\ due[q] # Never /\ now >= due[q]
    /\ step = "none"
    /\ due' = [due EXCEPT ![q] = Never]
    /\ status' = [status EXCEPT ![q] = IF @ = "held" THEN "failed" ELSE @]
    /\ UNCHANGED <<now, hasFetch, expires, solver, step, cookie, minted, late>>

(* The timer of a held request; once it was let go, the timer does nothing. *)
Timeout(q) ==
    /\ due[q] # Never /\ now >= due[q]
    /\ due' = [due EXCEPT ![q] = Never]
    /\ status' = [status EXCEPT ![q] = IF @ = "held" THEN "failed" ELSE @]
    /\ UNCHANGED <<now, hasFetch, expires, solver, step, cookie, minted, late>>

(* The interval.  Whether it finds that the device slept or not, it renews  *)
(* when that is due, and leaves the queue alone.                            *)
Heartbeat ==
    /\ NeedsRenewal
    /\ ~solver
    /\ Renew(status, {})
    /\ UNCHANGED <<now, hasFetch, expires, cookie, minted, late>>

-----------------------------------------------------------------------------
(* The challenge has come, ...                                              *)
ChallengeDone ==
    /\ step = "challenge"
    /\ step' = "solve"
    /\ UNCHANGED <<now, hasFetch, expires, solver, status, due, cookie, minted, late>>

(* ... the worker, or the main thread when there is no worker, solved it.   *)
SolveDone ==
    /\ step = "solve"
    /\ step' = "verify"
    /\ UNCHANGED <<now, hasFetch, expires, solver, status, due, cookie, minted, late>>

(* The server accepts and seals a cookie, which is now on its way.          *)
ServerVerifies ==
    /\ step = "verify"
    /\ step' = "answer"
    /\ minted' = now + Ttl
    /\ UNCHANGED <<now, hasFetch, expires, solver, status, due, cookie, late>>

(* Faulty: the queue is not released.                                       *)
RenewDoneKeeps ==
    /\ step = "answer"
    /\ step' = "none" /\ solver' = FALSE
    /\ cookie' = minted
    /\ expires' = now + Ttl
    /\ UNCHANGED <<now, hasFetch, status, due, minted, late>>

(* Faulty: the queue is emptied and nobody in it is answered.               *)
RenewDoneDrops ==
    /\ step = "answer"
    /\ step' = "none" /\ solver' = FALSE
    /\ cookie' = minted
    /\ expires' = now + Ttl
    /\ status' = [q \in {p \in Requests : status[p] # "held"} |-> status[q]]
    /\ UNCHANGED <<now, hasFetch, due, minted, late>>

(* The answer is here, and the cookie with it: count from now on, and let   *)
(* everything in the queue go.                                              *)
RenewDone ==
    /\ step = "answer"
    /\ step' = "none" /\ solver' = FALSE
    /\ cookie' = minted
    /\ expires' = now + Ttl
    /\ status' = Released(status, "sent")
    /\ late' = [q \in Requests |-> IF status[q] = "held" THEN Lateness(minted) ELSE late[q]]
    /\ UNCHANGED <<now, hasFetch, due, minted>>

(* The same, but the native send of x throws (the page has made x unfit to  *)
(* be sent meanwhile).  Those let go before x were sent, the order being    *)
(* free here; the catch aborts the others, and what the page sends again    *)
(* from their error events finds the session renewed and passes.            *)
RenewBreaks ==
    /\ step = "answer"
    /\ step' = "none" /\ solver' = FALSE
    /\ cookie' = minted
    /\ expires' = now + Ttl
    /\ \E x \in Xhr, S \in SUBSET {q \in Requests : status[q] = "held"} :
          /\ status[x] = "held" /\ x \notin S
          /\ LET out == [q \in Requests |-> IF q \in S THEN "sent"
                                            ELSE IF q = x THEN "failed" ELSE status[q]]
             IN  \E R \in Retries(out) :
                    /\ status' = [q \in Requests |-> IF q \in R THEN "sent"
                                                     ELSE Released(out, "failed")[q]]
                    /\ late' = [q \in Requests |-> IF q \in S \cup R THEN Lateness(minted)
                                                   ELSE late[q]]
    /\ UNCHANGED <<now, hasFetch, due, minted>>

(* Faulty: solver is not reset.                                             *)
RenewFailsStuck ==
    /\ step # "none"
    /\ step' = "none"
    /\ status' = Released(status, "failed")
    /\ UNCHANGED <<now, hasFetch, expires, solver, due, cookie, minted, late>>

(* A request of the renewal fails or is refused, its answer is lost, or the *)
(* solver throws: the queue is released with an error.  What the page sends *)
(* again from an error event finds solver still set, joins the renewal that *)
(* is about to end, and is left in the queue.                               *)
RenewFails ==
    /\ step # "none"
    /\ step' = "none" /\ solver' = FALSE
    /\ \E R \in Retries(status) :
          /\ status' = Held(Released(status, "failed"), R)
          /\ due' = Timed(R)
    /\ UNCHANGED <<now, hasFetch, expires, cookie, minted, late>>

(* The clock stops at the bound, but not on a request that is still held.   *)
Tick ==
    /\ now < MaxTime \/ \E q \in Requests : status[q] = "held" /\ now < due[q]
    /\ step = "answer" => now < minted - Ttl + MaxLag
    /\ now' = now + 1
    /\ UNCHANGED <<hasFetch, expires, solver, step, status, due, cookie, minted, late>>

Next ==
    \/ \E q \in Requests : GatePass(q) \/ GateHold(q) \/ Timeout(q)
    \/ Heartbeat
    \/ ChallengeDone \/ SolveDone \/ ServerVerifies
    \/ RenewDone \/ RenewBreaks \/ RenewFails
    \/ Tick

Spec == Init /\ [][Next]_vars

(* Time passes, the browser fires timers and intervals, and a verification  *)
(* that was answered gets its answer (MaxLag).  Nothing is assumed of the   *)
(* requests or of the solver before that: a renewal may never end.          *)
FairSpec ==
    /\ Spec
    /\ WF_vars(Tick) /\ WF_vars(Heartbeat) /\ WF_vars(RenewDone)
    /\ \A q \in Requests : WF_vars(Timeout(q))

-----------------------------------------------------------------------------
(* "Requests are held ONLY while the session is genuinely invalid": nobody  *)
(* is left in the queue by the renewal that made the session valid again.   *)
HeldOnlyWhileInvalid == \A q \in Requests : status[q] = "held" => IsExpired

(* A request is answered once: the timer that fires late, a release and an  *)
(* abort never touch one that was let go by another.                        *)
AnsweredOnce ==
    [][\A q \in Requests : status[q] \in {"sent", "failed"} => status'[q] = status[q]]_vars

(* How far the script's clock can be behind the cookie's.                   *)
Slack == IF MaxAge > MaxLag THEN MaxAge ELSE MaxLag

(* No request goes out on a cookie that expired longer ago than the cookie  *)
(* was old when the page was loaded, or than an answer travelled: whatever  *)
(* is renewed, fails, sleeps or is held in between.                         *)
SentWithinSlack == \A q \in Requests : late[q] = 0 \/ late[q] < Slack

(* What makes these inductive: the script's expiry is no further behind the *)
(* cookie's than the slack, and an answer on its way is no older than the   *)
(* lag, so that counting from its arrival keeps that up.                    *)
AnchorInv ==
    /\ expires <= cookie + Slack
    /\ step = "answer" => minted >= Ttl /\ now <= minted - Ttl + MaxLag

(* A solver or a network that never answers does not hang the page: every   *)
(* held request is let go.                                                  *)
HeldEnds == \A q \in Requests : status[q] = "held" ~> status[q] # "held"

(* Renewal does not stop at a failure: when it is due it is under way again *)
(* (or has been done), as long as there is a fetch to do it with.           *)
KeepsRenewing == (hasFetch /\ NeedsRenewal) ~> (step # "none" \/ ~NeedsRenewal)

(* guard.js: "we stop trusting the cookie at the earliest moment it could   *)
(* have lapsed, never later, so we never release a request on a cookie the  *)
(* server has already rejected".                                            *)
NeverOnRejectedCookie == \A q \in Requests : late[q] = 0

=============================================================================
