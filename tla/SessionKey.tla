------------------------------ MODULE SessionKey ------------------------------
(***************************************************************************)
(* How the NekoGuard replicas agree on the key that seals session cookies: *)
(* SessionManager::get_or_create_secret (nekoguard/src/session.rs).  Each  *)
(* process runs it once at start-up against one shared Redis key, as three *)
(* separate commands -- GET, SET NX, GET -- and then keeps the result in   *)
(* memory for as long as it lives.                                         *)
(*                                                                         *)
(* A secret is a model value: 32 random bytes nobody else draws.           *)
(***************************************************************************)
EXTENDS Naturals, FiniteSets

CONSTANTS
    Replicas,      \* the NekoGuard processes behind the load balancer
    Secrets,       \* the random values fill_bytes can draw
    NoSecret,      \* no value: the Redis key is absent, or none is held yet
    Blank,         \* the all-zero key that copying an empty value leaves
    MaxDeletes     \* bound: how often the Redis key may be lost

ASSUME SessionKeyAssumption ==
    /\ NoSecret \notin Secrets
    /\ Blank \notin Secrets
    /\ Blank # NoSecret
    /\ MaxDeletes \in Nat

VARIABLES
    secret,        \* Redis: the value at nekoguard:secret
    installed,     \* history: every value a SET NX has put there
    deletes,       \* history: how often the Redis key was lost
    phase,         \* per replica: which command of the start-up comes next
    candidate,     \* per replica: the value it drew, between draw and re-GET
    key            \* per replica: SessionManager.key while serving

keyVars == <<secret, installed, deletes, phase, candidate, key>>

Phases == {"down", "get", "set", "reget", "serving"}

KeyTypeOK ==
    /\ secret \in Secrets \cup {NoSecret}
    /\ installed \in SUBSET Secrets
    /\ deletes \in 0..MaxDeletes
    /\ phase \in [Replicas -> Phases]
    /\ candidate \in [Replicas -> Secrets \cup {NoSecret}]
    /\ key \in [Replicas -> Secrets \cup {NoSecret, Blank}]

KeyInit ==
    /\ secret = NoSecret
    /\ installed = {}
    /\ deletes = 0
    /\ phase = [r \in Replicas |-> "down"]
    /\ candidate = [r \in Replicas |-> NoSecret]
    /\ key = [r \in Replicas |-> NoSecret]

Serving == {r \in Replicas : phase[r] = "serving"}

(* The bytes GET returned, copied into a zeroed [u8; 32]: an absent key is  *)
(* an empty vector, and leaves the array blank.                             *)
KeyFromBytes(value) == IF value = NoSecret THEN Blank ELSE value

(* A draw never repeats a value that was ever stored or is still in flight. *)
FreshSecrets == Secrets \ (installed \cup {candidate[r] : r \in Replicas})

-----------------------------------------------------------------------------
(* The orchestrator starts the process; main_inner reaches new_with_config. *)
Start(r) ==
    /\ phase[r] = "down"
    /\ phase' = [phase EXCEPT ![r] = "get"]
    /\ UNCHANGED <<secret, installed, deletes, candidate, key>>

(* The first GET found a non-empty value: use it.                           *)
GetSecret(r) ==
    /\ phase[r] = "get"
    /\ secret # NoSecret
    /\ key' = [key EXCEPT ![r] = KeyFromBytes(secret)]
    /\ phase' = [phase EXCEPT ![r] = "serving"]
    /\ UNCHANGED <<secret, installed, deletes, candidate>>

(* The first GET found nothing, or failed -- whatever Redis holds, the      *)
(* error takes the same arm of the match: draw a value.                     *)
DrawSecret(r) ==
    /\ phase[r] = "get"
    /\ \E s \in FreshSecrets : candidate' = [candidate EXCEPT ![r] = s]
    /\ phase' = [phase EXCEPT ![r] = "set"]
    /\ UNCHANGED <<secret, installed, deletes, key>>

(* Faulty: a plain SET, which overwrites what another replica stored.       *)
SetOverwrites(r) ==
    /\ phase[r] = "set"
    /\ secret' = candidate[r]
    /\ installed' = installed \cup {secret'}
    /\ phase' = [phase EXCEPT ![r] = "reget"]
    /\ UNCHANGED <<deletes, candidate, key>>

(* SET NX stores the value unless there is one; the reply () accepts both.  *)
SetNx(r) ==
    /\ phase[r] = "set"
    /\ secret' = IF secret = NoSecret THEN candidate[r] ELSE secret
    /\ installed' = installed \cup {secret'}
    /\ phase' = [phase EXCEPT ![r] = "reget"]
    /\ UNCHANGED <<deletes, candidate, key>>

(* Faulty: trusts its own draw instead of reading back.                     *)
ReGetSkipped(r) ==
    /\ phase[r] = "reget"
    /\ key' = [key EXCEPT ![r] = candidate[r]]
    /\ candidate' = [candidate EXCEPT ![r] = NoSecret]
    /\ phase' = [phase EXCEPT ![r] = "serving"]
    /\ UNCHANGED <<secret, installed, deletes>>

(* The re-GET: the replica adopts whatever is stored, its own draw or not.  *)
ReGet(r) ==
    /\ phase[r] = "reget"
    /\ key' = [key EXCEPT ![r] = KeyFromBytes(secret)]
    /\ candidate' = [candidate EXCEPT ![r] = NoSecret]
    /\ phase' = [phase EXCEPT ![r] = "serving"]
    /\ UNCHANGED <<secret, installed, deletes>>

(* The process dies: killed, or one of the expect() calls on a failed       *)
(* connection, SET or re-GET.  Its memory goes with it.                     *)
Crash(r) ==
    /\ phase[r] # "down"
    /\ phase' = [phase EXCEPT ![r] = "down"]
    /\ candidate' = [candidate EXCEPT ![r] = NoSecret]
    /\ key' = [key EXCEPT ![r] = NoSecret]
    /\ UNCHANGED <<secret, installed, deletes>>

(* Redis loses the key: an operator deletes it (README, Sessions), or Redis *)
(* restarts empty.                                                          *)
LoseSecret ==
    /\ secret # NoSecret
    /\ deletes < MaxDeletes
    /\ secret' = NoSecret
    /\ deletes' = deletes + 1
    /\ UNCHANGED <<installed, phase, candidate, key>>

StartUp(r) == GetSecret(r) \/ DrawSecret(r) \/ SetNx(r) \/ ReGet(r)

KeyNext ==
    \/ \E r \in Replicas : Start(r) \/ StartUp(r) \/ Crash(r)
    \/ LoseSecret

(* get_or_create_secret awaits nothing but Redis, which answers or fails;   *)
(* each process that is left alone runs on.                                 *)
KeyFairness == \A r \in Replicas : WF_keyVars(StartUp(r))

KeySpec == KeyInit /\ [][KeyNext]_keyVars /\ KeyFairness

-----------------------------------------------------------------------------
(* While Redis has kept its key, all replicas that serve hold one and the   *)
(* same key -- the one in Redis -- however their start-ups and crashes      *)
(* interleaved; so a cookie one replica sealed opens at every other.        *)
KeyAgreement ==
    deletes = 0 =>
        \A r1, r2 \in Serving : key[r1] = key[r2] /\ key[r1] = secret

(* Losing the Redis key n times splits the replicas over at most n + 1      *)
(* drawn keys, each of which Redis really stored: the loser of a SET NX     *)
(* race never seals with its own draw.                                      *)
KeysWereStored ==
    /\ \A r \in Serving : key[r] \in installed \cup {Blank}
    /\ Cardinality(installed) <= deletes + 1

(* What makes the two inductive: a replica past its SET NX finds a value    *)
(* unless it was lost, what is stored is in the history, and each loss      *)
(* makes room for one more stored value.                                    *)
KeyInv ==
    /\ deletes = 0 =>
          \A r \in Replicas : phase[r] \in {"reget", "serving"} => secret # NoSecret
    /\ deletes = 0 => \A r \in Serving : key[r] = secret
    /\ secret # NoSecret => secret \in installed
    /\ \A r \in Replicas : phase[r] = "set" => candidate[r] # NoSecret
    /\ \A r \in Serving : key[r] \in installed \cup {Blank}
    /\ IsFiniteSet(installed)
    /\ Cardinality(installed) <= deletes + (IF secret = NoSecret THEN 0 ELSE 1)

=============================================================================
