--------------------------- MODULE SessionKeyProofs ---------------------------
(* Proofs about SessionKey, for any set of replicas and any number of losses. *)
EXTENDS SessionKey, FiniteSetTheorems, TLAPS

(* A step of the start-up protocol keeps every variable's type.  SET NX      *)
(* needs KeyInv: what it stores is a value the replica has drawn.            *)
LEMMA KeyTypeStep == KeyTypeOK /\ KeyInv /\ [KeyNext]_keyVars => KeyTypeOK'
<1> SUFFICES ASSUME KeyTypeOK, KeyInv, [KeyNext]_keyVars PROVE KeyTypeOK'
  OBVIOUS
<1> USE SessionKeyAssumption DEF KeyTypeOK, Phases, KeyFromBytes
<1>1. ASSUME NEW r \in Replicas, Start(r) PROVE KeyTypeOK'
  BY <1>1 DEF Start
<1>2. ASSUME NEW r \in Replicas, GetSecret(r) PROVE KeyTypeOK'
  BY <1>2 DEF GetSecret
<1>3. ASSUME NEW r \in Replicas, DrawSecret(r) PROVE KeyTypeOK'
  BY <1>3 DEF DrawSecret, FreshSecrets
<1>4. ASSUME NEW r \in Replicas, SetNx(r) PROVE KeyTypeOK'
  BY <1>4 DEF SetNx, KeyInv
<1>5. ASSUME NEW r \in Replicas, ReGet(r) PROVE KeyTypeOK'
  BY <1>5 DEF ReGet
<1>6. ASSUME NEW r \in Replicas, Crash(r) PROVE KeyTypeOK'
  BY <1>6 DEF Crash
<1>7. CASE LoseSecret
  BY <1>7 DEF LoseSecret
<1>8. CASE UNCHANGED keyVars
  BY <1>8 DEF keyVars
<1>9. QED
  BY <1>1, <1>2, <1>3, <1>4, <1>5, <1>6, <1>7, <1>8 DEF KeyNext, StartUp

(* A step keeps the inductive invariant.  The first conjuncts are pointwise  *)
(* in the replicas; only SET NX can add to the history.                      *)
LEMMA KeyInvStep == KeyTypeOK /\ KeyInv /\ [KeyNext]_keyVars => KeyInv'
<1> SUFFICES ASSUME KeyTypeOK, KeyInv, [KeyNext]_keyVars PROVE KeyInv'
  OBVIOUS
<1> USE SessionKeyAssumption DEF KeyTypeOK, Phases, KeyFromBytes, Serving, KeyInv
<1>0. deletes \in Nat /\ Cardinality(installed) \in Nat
  BY FS_CardinalityType
<1>1. ASSUME NEW r \in Replicas, Start(r) PROVE KeyInv'
  BY <1>1 DEF Start
<1>2. ASSUME NEW r \in Replicas, GetSecret(r) PROVE KeyInv'
  BY <1>2 DEF GetSecret
<1>3. ASSUME NEW r \in Replicas, DrawSecret(r) PROVE KeyInv'
  BY <1>3 DEF DrawSecret, FreshSecrets
<1>4. ASSUME NEW r \in Replicas, SetNx(r) PROVE KeyInv'
  <2>1. /\ secret' = IF secret = NoSecret THEN candidate[r] ELSE secret
        /\ secret' # NoSecret
        /\ installed' = installed \cup {secret'}
        /\ UNCHANGED <<deletes, candidate, key>>
        /\ phase' = [phase EXCEPT ![r] = "reget"]
    BY <1>4 DEF SetNx
  <2>2. IsFiniteSet(installed')
    BY <2>1, FS_AddElement
  <2>3. Cardinality(installed') <= deletes' + 1
    <3>1. CASE secret = NoSecret
      <4>1. Cardinality(installed) <= deletes
        BY <1>0, <3>1
      <4>2. Cardinality(installed \cup {secret'}) <= Cardinality(installed) + 1
        <5>1. \/ Cardinality(installed \cup {secret'}) = Cardinality(installed)
              \/ Cardinality(installed \cup {secret'}) = Cardinality(installed) + 1
          BY FS_AddElement
        <5>2. QED
          BY <1>0, <5>1
      <4>3. Cardinality(installed \cup {secret'}) \in Nat
        BY <2>1, <2>2, FS_CardinalityType
      <4>4. QED
        BY <1>0, <2>1, <4>1, <4>2, <4>3
    <3>2. CASE secret # NoSecret
      BY <1>0, <2>1, <3>2
    <3>3. QED
      BY <3>1, <3>2
  <2>4. ASSUME NEW q \in Replicas, deletes' = 0, phase'[q] = "serving"
        PROVE key'[q] = secret'
    BY <2>1, <2>4
  <2>5. QED
    BY <2>1, <2>2, <2>3, <2>4
<1>5. ASSUME NEW r \in Replicas, ReGet(r) PROVE KeyInv'
  BY <1>5 DEF ReGet
<1>6. ASSUME NEW r \in Replicas, Crash(r) PROVE KeyInv'
  BY <1>6 DEF Crash
<1>7. CASE LoseSecret
  <2>1. deletes' # 0 /\ Cardinality(installed') <= deletes'
    BY <1>0, <1>7 DEF LoseSecret
  <2>2. QED
    BY <1>7, <2>1 DEF LoseSecret
<1>8. CASE UNCHANGED keyVars
  BY <1>8 DEF keyVars
<1>9. QED
  BY <1>1, <1>2, <1>3, <1>4, <1>5, <1>6, <1>7, <1>8 DEF KeyNext, StartUp

LEMMA KeyInitially == KeyInit => KeyTypeOK /\ KeyInv
<1>1. Cardinality({}) = 0 /\ IsFiniteSet({})
  BY FS_EmptySet
<1>2. QED
  BY <1>1, SessionKeyAssumption
     DEF KeyInit, KeyTypeOK, KeyInv, Phases, Serving

LEMMA KeyInvariant == KeySpec => [](KeyTypeOK /\ KeyInv)
<1>1. KeyTypeOK /\ KeyInv /\ [KeyNext]_keyVars => (KeyTypeOK /\ KeyInv)'
  BY KeyTypeStep, KeyInvStep
<1>2. QED
  BY <1>1, KeyInitially, PTL DEF KeySpec

(* The start-up protocol of get_or_create_secret is type-correct.            *)
THEOREM KeyTypeCorrect == KeySpec => []KeyTypeOK
BY KeyInvariant, PTL

(* Whatever the interleaving of start-ups and crashes of any number of       *)
(* replicas, those that serve hold the one key Redis stores, as long as      *)
(* Redis has not lost it.                                                    *)
THEOREM KeyAgreementHolds == KeySpec => []KeyAgreement
<1>1. KeyInv => KeyAgreement
  BY DEF KeyInv, KeyAgreement
<1>2. QED
  BY <1>1, KeyInvariant, PTL

(* However often Redis loses the key, a serving replica holds a value Redis  *)
(* stored (or the blank one), out of at most one more than the losses.       *)
THEOREM KeysWereStoredHolds == KeySpec => []KeysWereStored
<1>1. KeyTypeOK /\ KeyInv => KeysWereStored
  <2> SUFFICES ASSUME KeyTypeOK, KeyInv PROVE KeysWereStored
    OBVIOUS
  <2>1. deletes \in Nat /\ Cardinality(installed) \in Nat
    BY SessionKeyAssumption, FS_CardinalityType DEF KeyTypeOK, KeyInv
  <2>2. QED
    BY <2>1 DEF KeyInv, KeysWereStored
<1>2. QED
  BY <1>1, KeyInvariant, PTL

=============================================================================
