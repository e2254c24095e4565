----------------------------- MODULE CertsProofs -----------------------------
(***************************************************************************)
(* Proofs about Certs and Issuance, for any number of replicas, domains    *)
(* and faults and any lengths of the spans.                                *)
(*                                                                         *)
(* SettledIsCurrent says nothing about a replica that is still reading, so *)
(* it is not inductive.  ReadingIsCurrent adds what holds then: a domain   *)
(* not lost, announced or about to be is either still to be read, or was   *)
(* read as it is now.  HeldUnlessLost needs in the same way what an        *)
(* unfinished reading can have left out.                                   *)
(*                                                                         *)
(* RenewedInTime speaks of a sleep only.  RenewInv follows what every      *)
(* certificate has left through the passes: a failure may cost it one      *)
(* interval, a standstill its length, and a pass that has come to it and   *)
(* found it not due, or has stored its successor, has made up for the      *)
(* sleep before.                                                           *)
(***************************************************************************)
EXTENDS Issuance, SequenceTheorems, TLAPS

(* Nothing about d is on its way to r, and nothing was lost.                *)
Quiet(r, d) ==
    /\ d \notin missed[r]
    /\ \A i \in 1..Len(inbox[r]) : inbox[r][i] # d
    /\ ~(pc = "publish" /\ cur = d)

SettledIsCurrentAt(r, d) ==
    sub[r] \in {"link", "on", "pause"} /\ Quiet(r, d) => certs[r][d] = stored[d]

ReadingIsCurrentAt(r, d) ==
    sub[r] \in {"boot", "reload"} /\ Quiet(r, d) =>
        d \in keys[r] \/ got[r][d] = stored[d]

(* What a replica serves, has read or has listed is stored.                 *)
OnlyStoredAt(r, d) ==
    certs[r][d] # None \/ got[r][d] # None \/ d \in keys[r] => stored[d] # None

(* A reading that has left out a domain lost it, or there was none to lose. *)
LeftOutAt(r, d) ==
    /\ sub[r] \in {"boot", "reload"}
    /\ d \notin keys[r]
    /\ got[r][d] = None
    /\ d \notin missed[r]
    => certs[r][d] = None

-----------------------------------------------------------------------------
(* What is dropped from and kept in a prefix of a sequence is all there was. *)
LEMMA PrefixMembers ==
    ASSUME NEW S, NEW s \in Seq(S), NEW n \in 0..Len(s)
    PROVE  /\ SubSeq(s, 1, n) \in Seq(S)
           /\ {s[i] : i \in n + 1 .. Len(s)} \subseteq S
           /\ \A d : (\A i \in 1..Len(SubSeq(s, 1, n)) : SubSeq(s, 1, n)[i] # d)
                       /\ d \notin {s[i] : i \in n + 1 .. Len(s)} =>
                    \A i \in 1..Len(s) : s[i] # d
<1>1. /\ SubSeq(s, 1, n) \in Seq(S)
      /\ Len(SubSeq(s, 1, n)) = n
      /\ \A i \in 1..n : SubSeq(s, 1, n)[i] = s[i]
  BY SubSeqProperties
<1>2. {s[i] : i \in n + 1 .. Len(s)} \subseteq S
  OBVIOUS
<1>3. ASSUME NEW d, \A i \in 1..n : SubSeq(s, 1, n)[i] # d,
             d \notin {s[i] : i \in n + 1 .. Len(s)}, NEW i \in 1..Len(s)
      PROVE  s[i] # d
  <2>1. CASE i \in 1..n
    BY <1>1, <1>3, <2>1
  <2>2. CASE i \in n + 1 .. Len(s)
    BY <1>3, <2>2
  <2> QED
    BY <2>1, <2>2
<1> QED
  BY <1>1, <1>2, <1>3

(* Listing the keys, done or failed, keeps to the types.                    *)
LEMMA ReadKeysType ==
    ASSUME TypeOK, NEW r \in Replicas, ReadKeys(r)
    PROVE  /\ got' \in [Replicas -> [Domains -> Cert \cup {None}]]
           /\ keys' \in [Replicas -> SUBSET Domains]
           /\ missed' \in [Replicas -> SUBSET Domains]
           /\ faults' \in Nat
<1>1. got' \in [Replicas -> [Domains -> Cert \cup {None}]]
  BY DEF TypeOK, ReadKeys, NoCerts
<1>2. PICK K \in SUBSET Domains, M \in SUBSET Domains :
         keys' = [keys EXCEPT ![r] = K] /\ missed' = [missed EXCEPT ![r] = M]
  <2>1. {d \in Domains : stored[d] # None} \in SUBSET Domains /\ {} \in SUBSET Domains
           /\ Domains \in SUBSET Domains
    OBVIOUS
  <2> QED
    BY <2>1 DEF ReadKeys
<1>4. keys' \in [Replicas -> SUBSET Domains] /\ missed' \in [Replicas -> SUBSET Domains]
  BY <1>2 DEF TypeOK
<1>3. faults' \in Nat
  BY CertsAssumption DEF TypeOK, ReadKeys, Fault, NoFault
<1> QED
  BY <1>1, <1>3, <1>4

(* Every step of certd and of a subscriber keeps to the types.              *)
LEMMA CertsTypeStep == TypeOK /\ [Next]_vars => TypeOK'
<1> SUFFICES ASSUME TypeOK, [Next]_vars PROVE TypeOK'
  OBVIOUS
<1> USE CertsAssumption DEF TypeOK, certdVars, repVars, Fault, NoFault
<1>1. CASE CertdStart
  <2>1. CASE pc' = "next" /\ first' = TRUE /\ todo' = Domains /\ NoFault
    BY <1>1, <2>1 DEF CertdStart
  <2>2. CASE pc' = "ended" /\ UNCHANGED <<first, todo>> /\ Fault
    BY <1>1, <2>2 DEF CertdStart
  <2> QED
    BY <1>1, <2>1, <2>2 DEF CertdStart
<1>2. ASSUME NEW d \in Domains, PickFirst(d) PROVE TypeOK'
  BY <1>2 DEF PickFirst
<1>3. ASSUME NEW d \in Domains, Check(d) PROVE TypeOK'
  BY <1>3 DEF Check
<1>4. CASE IssueDone
  BY <1>4 DEF IssueDone, Cert
<1>5. CASE IssueFails
  BY <1>5 DEF IssueFails
<1>6. CASE Connect
  BY <1>6 DEF Connect
<1>7. CASE StoreCert
  BY <1>7 DEF StoreCert
<1>8. CASE Publish
  <2>1. PICK R \in SUBSET Replicas : Deliver(R, cur)
    BY <1>8 DEF Publish
  <2>2. inbox' \in [Replicas -> Seq(Domains)] /\ missed' \in [Replicas -> SUBSET Domains]
    BY <1>8, <2>1, AppendProperties DEF Publish, Deliver
  <2>3. faults' \in Nat
    BY <1>8 DEF Publish
  <2> QED
    BY <1>8, <2>2, <2>3 DEF Publish
<1>9. CASE Sleep
  BY <1>9 DEF Sleep
<1>10. CASE Wake
  <2>1. CASE pc' = "next" /\ first' = FALSE /\ todo' = Domains /\ NoFault
    BY <1>10, <2>1 DEF Wake
  <2>2. CASE pc' = "ended" /\ UNCHANGED <<first, todo>> /\ Fault
    BY <1>10, <2>2 DEF Wake
  <2> QED
    BY <1>10, <2>1, <2>2 DEF Wake
<1>11. CASE CertdCrash
  BY <1>11 DEF CertdCrash
<1>12. ASSUME NEW r \in Replicas, Boot(r) PROVE TypeOK'
  BY <1>12, ReadKeysType DEF Boot
<1>13. ASSUME NEW r \in Replicas, NEW d \in Domains, GetCert(r, d) PROVE TypeOK'
  <2>1. keys' \in [Replicas -> SUBSET Domains]
    BY <1>13 DEF GetCert
  <2>2. got' \in [Replicas -> [Domains -> Cert \cup {None}]]
    <3>1. CASE got' = [got EXCEPT ![r][d] = stored[d]]
      <4>1. [got[r] EXCEPT ![d] = stored[d]] \in [Domains -> Cert \cup {None}]
        OBVIOUS
      <4> QED
        BY <3>1, <4>1
    <3>2. CASE UNCHANGED got
      BY <3>2
    <3> QED
      BY <1>13, <3>1, <3>2 DEF GetCert
  <2>3. missed' \in [Replicas -> SUBSET Domains] /\ faults' \in Nat
    BY <1>13 DEF GetCert
  <2> QED
    BY <1>13, <2>1, <2>2, <2>3 DEF GetCert
<1>14. ASSUME NEW r \in Replicas, Swap(r) PROVE TypeOK'
  BY <1>14 DEF Swap
<1>15. ASSUME NEW r \in Replicas, Subscribe(r) PROVE TypeOK'
  <2>1. PICK a \in {"on", "pause"} : sub' = [sub EXCEPT ![r] = a]
    BY <1>15 DEF Subscribe
  <2>2. sub' \in [Replicas -> {"off", "boot", "reload", "link", "on", "pause", "dead"}]
    BY <2>1
  <2>3. link' \in [Replicas -> {"down", "deaf", "up"}]
    BY <1>15 DEF Subscribe
  <2>4. faults' \in Nat
    BY <1>15 DEF Subscribe
  <2> QED
    BY <1>15, <2>2, <2>3, <2>4 DEF Subscribe
<1>16. ASSUME NEW r \in Replicas, Receive(r) PROVE TypeOK'
  <2>1. inbox' \in [Replicas -> Seq(Domains)]
    BY <1>16, HeadTailProperties DEF Receive
  <2> QED
    BY <1>16, <2>1, ReadKeysType DEF Receive
<1>17. ASSUME NEW r \in Replicas, ReceivePanics(r) PROVE TypeOK'
  BY <1>17 DEF ReceivePanics
<1>18. ASSUME NEW r \in Replicas, Pause(r) PROVE TypeOK'
  BY <1>18 DEF Pause
<1>19. ASSUME NEW r \in Replicas, Resume(r) PROVE TypeOK'
  BY <1>19 DEF Resume
<1>20. ASSUME NEW r \in Replicas, Disconnect(r) PROVE TypeOK'
  <2>1. PICK n \in 0..Len(inbox[r]) :
           /\ inbox' = [inbox EXCEPT ![r] = SubSeq(@, 1, n)]
           /\ missed' = [missed EXCEPT ![r] =
                           @ \cup {inbox[r][i] : i \in n + 1 .. Len(inbox[r])}]
    BY <1>20 DEF Disconnect
  <2>2. inbox' \in [Replicas -> Seq(Domains)] /\ missed' \in [Replicas -> SUBSET Domains]
    BY <2>1, PrefixMembers
  <2> QED
    BY <1>20, <2>2 DEF Disconnect
<1>21. ASSUME NEW r \in Replicas, ReplicaCrash(r) PROVE TypeOK'
  BY <1>21 DEF ReplicaCrash, NoCerts
<1>22. CASE Tick
  BY <1>22 DEF Tick
<1>23. CASE UNCHANGED vars
  BY <1>23 DEF vars
<1> QED
  BY <1>1, <1>2, <1>3, <1>4, <1>5, <1>6, <1>7, <1>8, <1>9, <1>10, <1>11, <1>12, <1>13, <1>14, <1>15, <1>16, <1>17, <1>18, <1>19, <1>20, <1>21, <1>22, <1>23
     DEF Next, CertdStep, ReplicaStep

(* The loop and the subscribers are type-correct: whichever step fails,     *)
(* certd still knows the domain and the certificate it is working on.       *)
THEOREM CertsTypeCorrect == Spec => []TypeOK
<1>1. Init => TypeOK
  BY DEF Init, TypeOK, NoCerts
<1> QED
  BY <1>1, CertsTypeStep, PTL DEF Spec

-----------------------------------------------------------------------------
(* What holds of one replica and one domain.                                *)
At(r, d) ==
    /\ SettledIsCurrentAt(r, d)
    /\ ReadingIsCurrentAt(r, d)
    /\ OnlyStoredAt(r, d)
    /\ LeftOutAt(r, d)

CertsInv == \A r \in Replicas, d \in Domains : At(r, d)

(* Steps of certd between passes, and of time, change nothing a replica     *)
(* could see, and no announcement is pending before them.                   *)
LEMMA UnseenStep ==
    ASSUME NEW r \in Replicas, NEW d \in Domains, At(r, d),
           pc # "publish", UNCHANGED <<stored, repVars>>
    PROVE  At(r, d)'
BY DEF At, SettledIsCurrentAt, ReadingIsCurrentAt, OnlyStoredAt, LeftOutAt, Quiet, repVars

(* A step of another replica changes nothing about this one.                *)
LEMMA OtherReplica ==
    ASSUME NEW r \in Replicas, NEW d \in Domains, At(r, d),
           UNCHANGED certdVars,
           sub'[r] = sub[r], inbox'[r] = inbox[r], keys'[r] = keys[r], got'[r] = got[r],
           certs'[r] = certs[r], missed'[r] = missed[r]
    PROVE  At(r, d)'
BY DEF At, SettledIsCurrentAt, ReadingIsCurrentAt, OnlyStoredAt, LeftOutAt, Quiet, certdVars

(* A reading that has just begun has everything before it.                  *)
LEMMA ReadingBegins ==
    ASSUME TypeOK, NEW r \in Replicas, NEW d \in Domains, At(r, d), ReadKeys(r),
           sub'[r] \in {"boot", "reload"}, UNCHANGED <<certdVars, certs>>
    PROVE  At(r, d)'
<1>1. got'[r][d] = None
  BY DEF TypeOK, ReadKeys, NoCerts
<1>2. UNCHANGED <<stored, certs>>
  BY DEF certdVars
<1>3. CASE /\ keys' = [keys EXCEPT ![r] = {e \in Domains : stored[e] # None}]
           /\ missed' = [missed EXCEPT ![r] = {}]
  <2>1. d \in keys'[r] <=> stored[d] # None
    BY <1>3 DEF TypeOK
  <2> QED
    BY <1>1, <1>2, <2>1
       DEF At, SettledIsCurrentAt, ReadingIsCurrentAt, OnlyStoredAt, LeftOutAt, Quiet
<1>4. CASE keys' = [keys EXCEPT ![r] = {}] /\ missed' = [missed EXCEPT ![r] = Domains]
  <2>1. d \notin keys'[r] /\ d \in missed'[r]
    BY <1>4 DEF TypeOK
  <2> QED
    BY <1>1, <1>2, <2>1
       DEF At, SettledIsCurrentAt, ReadingIsCurrentAt, OnlyStoredAt, LeftOutAt, Quiet
<1> QED
  BY <1>3, <1>4 DEF ReadKeys

(* Every step keeps every replica current about every domain that is quiet. *)
LEMMA CertsStep == TypeOK /\ CertsInv /\ [Next]_vars => CertsInv'
<1> SUFFICES ASSUME TypeOK, CertsInv, [Next]_vars, NEW r \in Replicas, NEW d \in Domains
             PROVE  At(r, d)'
  BY DEF CertsInv
<1> USE DEF At
<1>0. At(r, d)
  BY DEF CertsInv
<1>1. CASE CertdStart \/ (\E e \in Domains : PickFirst(e) \/ Check(e)) \/ IssueDone
             \/ IssueFails \/ Connect \/ Sleep \/ Wake \/ Tick
  <2>1. pc # "publish" /\ UNCHANGED <<stored, repVars>>
    BY <1>1 DEF CertdStart, PickFirst, Check, IssueDone, IssueFails, Connect, Sleep, Wake,
                Tick, certdVars
  <2> QED
    BY <1>0, <2>1, UnseenStep
<1>2. CASE StoreCert
  <2>1. /\ pc' = "publish" /\ cur' = cur /\ cur \in Domains
        /\ UNCHANGED repVars
        /\ pc # "publish"
    BY <1>2 DEF StoreCert, TypeOK
  <2>2. stored'[d] # stored[d] => d = cur
    BY <1>2 DEF StoreCert, TypeOK
  <2>3. stored[d] # None => stored'[d] # None
    BY <1>2, CertsNone DEF StoreCert, TypeOK, Cert
  <2> QED
    BY <1>0, <2>1, <2>2, <2>3
       DEF SettledIsCurrentAt, ReadingIsCurrentAt, OnlyStoredAt, LeftOutAt, Quiet, repVars
<1>3. CASE Publish
  <2>1. UNCHANGED <<stored, sub, keys, got, certs>>
    BY <1>3 DEF Publish
  <2>2. PICK R \in SUBSET Replicas : Deliver(R, cur)
    BY <1>3 DEF Publish
  <2>3. inbox[r] \in Seq(Domains) /\ cur \in Domains
    BY <1>3 DEF TypeOK, Publish
  <2>4. missed[r] \subseteq missed'[r]
    BY <2>2 DEF Deliver
  <2>5. CASE r \in R
    <3>1. inbox'[r] = Append(inbox[r], cur)
      BY <2>2, <2>5 DEF Deliver
    <3>2. /\ \A i \in 1..Len(inbox[r]) : i \in 1..Len(inbox'[r]) /\ inbox'[r][i] = inbox[r][i]
          /\ Len(inbox'[r]) \in 1..Len(inbox'[r]) /\ inbox'[r][Len(inbox'[r])] = cur
      BY <2>3, <3>1, AppendProperties
    <3>3. Quiet(r, d)' => Quiet(r, d)
      BY <2>4, <3>2 DEF Quiet
    <3> QED
      BY <1>0, <2>1, <2>4, <3>3
         DEF SettledIsCurrentAt, ReadingIsCurrentAt, OnlyStoredAt, LeftOutAt
  <2>6. CASE r \notin R
    <3>1. inbox'[r] = inbox[r] /\ cur \in missed'[r]
      BY <2>2, <2>6 DEF Deliver
    <3>2. Quiet(r, d)' => Quiet(r, d)
      BY <2>4, <3>1 DEF Quiet
    <3> QED
      BY <1>0, <2>1, <2>4, <3>2
         DEF SettledIsCurrentAt, ReadingIsCurrentAt, OnlyStoredAt, LeftOutAt
  <2> QED
    BY <2>5, <2>6
<1>4. CASE CertdCrash
  <2>1. UNCHANGED <<stored, sub, inbox, keys, got, certs>>
    BY <1>4 DEF CertdCrash
  <2>2. missed'[r] = IF pc = "publish" THEN missed[r] \cup {cur} ELSE missed[r]
    BY <1>4 DEF CertdCrash
  <2> QED
    BY <1>0, <2>1, <2>2
       DEF SettledIsCurrentAt, ReadingIsCurrentAt, OnlyStoredAt, LeftOutAt, Quiet
<1>5. ASSUME NEW q \in Replicas, Boot(q) PROVE At(r, d)'
  <2>1. CASE q = r
    <3>1. sub'[r] = "boot" /\ UNCHANGED <<certdVars, certs>> /\ ReadKeys(r)
      BY <1>5, <2>1 DEF Boot, TypeOK
    <3> QED
      BY <1>0, <3>1, ReadingBegins
  <2>2. CASE q # r
    BY <1>0, <1>5, <2>2, OtherReplica DEF Boot, ReadKeys, TypeOK
  <2> QED
    BY <2>1, <2>2
<1>6. ASSUME NEW q \in Replicas, Receive(q) PROVE At(r, d)'
  <2>1. CASE q = r
    <3>1. sub'[r] = "reload" /\ UNCHANGED <<certdVars, certs>> /\ ReadKeys(r)
      BY <1>6, <2>1 DEF Receive, TypeOK
    <3> QED
      BY <1>0, <3>1, ReadingBegins
  <2>2. CASE q # r
    BY <1>0, <1>6, <2>2, OtherReplica DEF Receive, ReadKeys, TypeOK
  <2> QED
    BY <2>1, <2>2
<1>7. ASSUME NEW q \in Replicas, NEW e \in Domains, GetCert(q, e) PROVE At(r, d)'
  <2>1. CASE q = r /\ e = d
    <3>1. stored[d] # None
      BY <1>0, <1>7, <2>1 DEF GetCert, OnlyStoredAt
    <3>2. d \notin keys'[r] /\ UNCHANGED <<certdVars, sub, inbox, certs>>
      BY <1>7, <2>1 DEF GetCert, TypeOK
    <3>3. (got'[r][d] = stored[d] /\ missed'[r] = missed[r]) \/ d \in missed'[r]
      BY <1>7, <2>1 DEF GetCert, TypeOK
    <3>4. missed[r] \subseteq missed'[r]
      BY <1>7, <2>1 DEF GetCert, TypeOK
    <3> QED
      BY <1>0, <3>1, <3>2, <3>3, <3>4
         DEF SettledIsCurrentAt, ReadingIsCurrentAt, OnlyStoredAt, LeftOutAt, Quiet, certdVars
  <2>2. CASE q = r /\ e # d
    <3>1. (d \in keys'[r] <=> d \in keys[r]) /\ got'[r][d] = got[r][d]
             /\ missed[r] \subseteq missed'[r]
      BY <1>7, <2>2 DEF GetCert, TypeOK
    <3>2. UNCHANGED <<certdVars, sub, inbox, certs>>
      BY <1>7 DEF GetCert
    <3> QED
      BY <1>0, <3>1, <3>2
         DEF SettledIsCurrentAt, ReadingIsCurrentAt, OnlyStoredAt, LeftOutAt, Quiet, certdVars
  <2>3. CASE q # r
    BY <1>0, <1>7, <2>3, OtherReplica DEF GetCert, TypeOK
  <2> QED
    BY <2>1, <2>2, <2>3
<1>8. ASSUME NEW q \in Replicas, Swap(q) PROVE At(r, d)'
  <2>1. CASE q = r
    <3>1. /\ sub[r] \in {"boot", "reload"} /\ sub'[r] \in {"link", "on"}
          /\ d \notin keys[r]
          /\ certs'[r] = got[r]
          /\ UNCHANGED <<certdVars, inbox, keys, got, missed>>
      BY <1>8, <2>1 DEF Swap, TypeOK
    <3> QED
      BY <1>0, <3>1
         DEF SettledIsCurrentAt, ReadingIsCurrentAt, OnlyStoredAt, LeftOutAt, Quiet, certdVars
  <2>2. CASE q # r
    BY <1>0, <1>8, <2>2, OtherReplica DEF Swap, TypeOK
  <2> QED
    BY <2>1, <2>2
<1>9. ASSUME NEW q \in Replicas, Subscribe(q) \/ Pause(q) \/ Resume(q) PROVE At(r, d)'
  <2>1. CASE q = r
    <3>1. /\ sub[r] \in {"link", "on", "pause"} /\ sub'[r] \in {"link", "on", "pause"}
          /\ UNCHANGED <<certdVars, inbox, keys, got, certs, missed>>
      BY <1>9, <2>1 DEF Subscribe, Pause, Resume, TypeOK
    <3> QED
      BY <1>0, <3>1
         DEF SettledIsCurrentAt, ReadingIsCurrentAt, OnlyStoredAt, LeftOutAt, Quiet, certdVars
  <2>2. CASE q # r
    BY <1>0, <1>9, <2>2, OtherReplica DEF Subscribe, Pause, Resume, TypeOK
  <2> QED
    BY <2>1, <2>2
<1>10. ASSUME NEW q \in Replicas, ReceivePanics(q) \/ ReplicaCrash(q) PROVE At(r, d)'
  <2>1. CASE q = r
    <3>1. sub'[r] \in {"dead", "off"} /\ UNCHANGED certdVars
      BY <1>10, <2>1 DEF ReceivePanics, ReplicaCrash, TypeOK
    <3>2. \/ keys'[r] = keys[r] /\ got'[r] = got[r] /\ certs'[r] = certs[r]
          \/ keys'[r] = {} /\ got'[r][d] = None /\ certs'[r][d] = None
      BY <1>10, <2>1 DEF ReceivePanics, ReplicaCrash, TypeOK, NoCerts
    <3> QED
      BY <1>0, <3>1, <3>2
         DEF SettledIsCurrentAt, ReadingIsCurrentAt, OnlyStoredAt, LeftOutAt, certdVars
  <2>2. CASE q # r
    BY <1>0, <1>10, <2>2, OtherReplica DEF ReceivePanics, ReplicaCrash, TypeOK
  <2> QED
    BY <2>1, <2>2
<1>11. ASSUME NEW q \in Replicas, Disconnect(q) PROVE At(r, d)'
  <2>1. UNCHANGED <<certdVars, sub, keys, got, certs>>
    BY <1>11 DEF Disconnect
  <2>2. PICK n \in 0..Len(inbox[q]) :
           /\ inbox' = [inbox EXCEPT ![q] = SubSeq(@, 1, n)]
           /\ missed' = [missed EXCEPT ![q] =
                           @ \cup {inbox[q][i] : i \in n + 1 .. Len(inbox[q])}]
    BY <1>11 DEF Disconnect
  <2>3. CASE q = r
    <3>1. inbox[r] \in Seq(Domains)
      BY DEF TypeOK
    <3>2. /\ inbox'[r] = SubSeq(inbox[r], 1, n)
          /\ missed'[r] = missed[r] \cup {inbox[r][i] : i \in n + 1 .. Len(inbox[r])}
      BY <2>2, <2>3 DEF TypeOK
    <3>3. Quiet(r, d)' => Quiet(r, d)
      <4>1. (\A i \in 1..Len(inbox'[r]) : inbox'[r][i] # d) /\ d \notin missed'[r] =>
               \A i \in 1..Len(inbox[r]) : inbox[r][i] # d
        BY <2>2, <2>3, <3>1, <3>2, PrefixMembers
      <4> QED
        BY <2>1, <3>2, <4>1 DEF Quiet, certdVars
    <3> QED
      BY <1>0, <2>1, <3>2, <3>3
         DEF SettledIsCurrentAt, ReadingIsCurrentAt, OnlyStoredAt, LeftOutAt, certdVars
  <2>4. CASE q # r
    BY <1>0, <2>1, <2>2, <2>4, OtherReplica DEF TypeOK
  <2> QED
    BY <2>3, <2>4
<1>12. CASE UNCHANGED vars
  BY <1>0, <1>12
     DEF SettledIsCurrentAt, ReadingIsCurrentAt, OnlyStoredAt, LeftOutAt, Quiet, vars,
         certdVars, repVars
<1> QED
  BY <1>1, <1>2, <1>3, <1>4, <1>5, <1>6, <1>7, <1>8, <1>9, <1>10, <1>11, <1>12
     DEF Next, CertdStep, ReplicaStep

LEMMA CertsInvHolds == Spec => []CertsInv
<1>1. Init => CertsInv
  BY DEF Init, NoCerts, CertsInv, At, SettledIsCurrentAt, ReadingIsCurrentAt, OnlyStoredAt,
         LeftOutAt
<1> QED
  BY <1>1, CertsStep, CertsTypeCorrect, PTL DEF Spec

(* Once a replica has worked off its messages it serves exactly what Redis  *)
(* stores, however certd's SET and PUBLISH interleaved with its KEYS and    *)
(* GETs, unless a read or an announcement was lost to it since.             *)
THEOREM SettledIsCurrentHolds == Spec => []SettledIsCurrent
<1>1. CertsInv => SettledIsCurrent
  BY DEF CertsInv, At, SettledIsCurrentAt, SettledIsCurrent, Quiet
<1> QED
  BY <1>1, CertsInvHolds, PTL

(* A running replica loses a certificate to a reload only when a read of    *)
(* that reload failed or a message was lost during it.                      *)
THEOREM HeldUnlessLostHolds == Spec => HeldUnlessLost
<1> DEFINE Kept ==
      \A r \in Replicas, d \in Domains :
          certs[r][d] # None /\ certs'[r][d] = None => sub'[r] = "off" \/ d \in missed[r]
<1>1. TypeOK /\ CertsInv /\ [Next]_vars => [Kept]_vars
  <2> SUFFICES ASSUME TypeOK, CertsInv, Next, NEW r \in Replicas, NEW d \in Domains,
                      certs[r][d] # None, certs'[r][d] = None
               PROVE  sub'[r] = "off" \/ d \in missed[r]
    OBVIOUS
  <2>1. (\E q \in Replicas : Swap(q) \/ ReplicaCrash(q)) \/ UNCHANGED certs
    BY DEF Next, CertdStep, ReplicaStep, CertdStart, PickFirst, Check, IssueDone, IssueFails,
           Connect, StoreCert, Publish, Sleep, Wake, CertdCrash, Boot, GetCert, Subscribe,
           Receive, ReceivePanics, Pause, Resume, Disconnect, Tick, repVars
  <2>2. ASSUME NEW q \in Replicas, Swap(q) PROVE d \in missed[r]
    <3>1. q = r /\ sub[r] \in {"boot", "reload"} /\ d \notin keys[r] /\ got[r][d] = None
      BY <2>2 DEF Swap, TypeOK
    <3> QED
      BY <3>1 DEF CertsInv, At, LeftOutAt
  <2>3. ASSUME NEW q \in Replicas, ReplicaCrash(q) PROVE sub'[r] = "off"
    BY <2>3 DEF ReplicaCrash, TypeOK
  <2> QED
    BY <2>1, <2>2, <2>3
<1> QED
  BY <1>1, CertsInvHolds, CertsTypeCorrect, PTL DEF Spec, HeldUnlessLost

-----------------------------------------------------------------------------
(* Issuance.  What the order has set and answered, stage by stage: records  *)
(* are only added after the one deletion, and all of them are there before  *)
(* the first challenge is responded to.                                     *)
OrderStage ==
    /\ opc \in {"idle", "auths", "delete", "create", "hung"} => responded = {}
    /\ opc = "delete" => left = Auths
    /\ opc = "create" => Auths \ left \subseteq dns
    /\ opc \in {"respond", "poll", "finalize", "fetch"} => Auths \subseteq dns

(* The time the margin may have lost to failures and to standstills.        *)
Debt == faults * Interval + outage

(* This renewal pass has yet to come to d, or is at it.                     *)
Behind(d) ==
    /\ ~first
    /\ \/ pc \in {"next", "issue", "set", "publish"} /\ d \in todo
       \/ pc \in {"issue", "set"} /\ d = cur

(* What d's certificate has left: the margin less the debt at the beginning *)
(* of a sleep, and an interval less at its end, until the pass has been at  *)
(* d.                                                                       *)
HasLeft(d) ==
    IF pc = "sleep" THEN wake + Margin <= stored[d].exp + Debt + Interval
    ELSE IF Behind(d) THEN now + Margin <= stored[d].exp + Debt + Interval
    ELSE now + Margin <= stored[d].exp + Debt

RenewInv ==
    /\ pc \in {"connect", "set"} => cert.exp = now + Lifetime
    /\ pc = "sleep" => now <= wake
    /\ \A d \in Domains : stored[d] # None => HasLeft(d)

OrderInv == TypeOK /\ OrderTypeOK /\ OrderStage

(* What a step of OrderNext does to Certs's variables: nothing, a step of   *)
(* Certs, a fault, or the passing of time.                                  *)
LEMMA OrderIsCerts ==
    ASSUME OrderNext
    PROVE  \/ [Next]_vars
           \/ Fault /\ UNCHANGED <<now, certdVars, repVars>>
           \/ now' = now + 1 /\ UNCHANGED <<certdVars, repVars, faults>>
<1> USE DEF Next, CertdStep
<1>1. CASE OrderStep
  <2>1. UNCHANGED vars \/ IssueDone \/ IssueFails
    BY <1>1 DEF OrderStep, NewOrder, Authorization, DeleteTxt, CreateTxt, Respond, PollOrder,
                Finalize, FetchCert, FetchAgain, OrderFails
  <2> QED
    BY <2>1
<1>2. CASE RequestFails
  BY <1>2 DEF RequestFails
<1>3. CASE Validate
  BY <1>3 DEF Validate
<1>4. CASE Hang
  BY <1>4 DEF Hang
<1>5. CASE LoopStep
  BY <1>5 DEF LoopStep
<1>6. CASE CertdCrash
  BY <1>6
<1>7. CASE TimePasses
  BY <1>7 DEF TimePasses
<1> QED
  BY <1>1, <1>2, <1>3, <1>4, <1>5, <1>6, <1>7 DEF OrderNext, CertdWorks

LEMMA OrderTypeStep == TypeOK /\ [OrderNext]_allVars => TypeOK'
<1> SUFFICES ASSUME TypeOK, [OrderNext]_allVars PROVE TypeOK'
  OBVIOUS
<1>1. CASE [Next]_vars
  BY <1>1, CertsTypeStep
<1>2. CASE Fault /\ UNCHANGED <<now, certdVars, repVars>>
  BY <1>2, CertsAssumption DEF TypeOK, Fault, certdVars, repVars
<1>3. CASE now' = now + 1 /\ UNCHANGED <<certdVars, repVars, faults>>
  BY <1>3 DEF TypeOK, certdVars, repVars
<1>4. CASE UNCHANGED allVars
  <2>1. UNCHANGED vars
    BY <1>4 DEF allVars
  <2> QED
    BY <2>1, CertsTypeStep
<1> QED
  BY <1>1, <1>2, <1>3, <1>4, OrderIsCerts

(* The stages of an order, step by step.                                    *)
LEMMA OrderStageStep ==
    OrderInv /\ [OrderNext]_allVars => OrderTypeOK' /\ OrderStage'
<1> SUFFICES ASSUME OrderInv, [OrderNext]_allVars PROVE OrderTypeOK' /\ OrderStage'
  OBVIOUS
<1> USE IssuanceAssumption DEF OrderInv, OrderTypeOK, OrderStage
<1>1. CASE UNCHANGED outage /\ OrderStep
  <2>1. CASE NewOrder
    BY <1>1, <2>1 DEF NewOrder, vars, certdVars
  <2>2. ASSUME NEW a \in Auths, Authorization(a) PROVE OrderTypeOK' /\ OrderStage'
    BY <1>1, <2>2 DEF Authorization, Through, vars, certdVars
  <2>3. ASSUME NEW a \in Auths, CreateTxt(a) PROVE OrderTypeOK' /\ OrderStage'
    BY <1>1, <2>3 DEF CreateTxt, Through, vars, certdVars
  <2>4. ASSUME NEW a \in Auths, Respond(a) PROVE OrderTypeOK' /\ OrderStage'
    BY <1>1, <2>4 DEF Respond, Through, vars, certdVars
  <2>5. ASSUME NEW kept \in SUBSET dns, DeleteTxt(kept) PROVE OrderTypeOK' /\ OrderStage'
    BY <1>1, <2>5 DEF DeleteTxt, vars, certdVars
  <2>6. CASE PollOrder
    BY <1>1, <2>6 DEF PollOrder, vars, certdVars
  <2>7. CASE Finalize
    BY <1>1, <2>7 DEF Finalize, vars, certdVars
  <2>8. CASE FetchAgain
    BY <1>1, <2>8 DEF FetchAgain, vars, certdVars
  <2>9. CASE FetchCert \/ OrderFails
    BY <1>1, <2>9 DEF FetchCert, OrderFails, OrderOver
  <2> QED
    BY <1>1, <2>1, <2>2, <2>3, <2>4, <2>5, <2>6, <2>7, <2>8, <2>9 DEF OrderStep
<1>2. CASE UNCHANGED outage /\ (RequestFails \/ (CertdCrash /\ OrderOver))
  BY <1>2 DEF RequestFails, OrderOver
<1>3. CASE UNCHANGED outage /\ Validate
  BY <1>3 DEF Validate, vars, certdVars
<1>4. CASE UNCHANGED outage /\ Hang
  BY <1>4 DEF Hang, certdVars
<1>5. CASE UNCHANGED outage /\ LoopStep
  <2>1. pc # "issue" /\ UNCHANGED orderVars
    BY <1>5 DEF LoopStep, CertdStart, PickFirst, Check, Connect, StoreCert, Publish, Sleep, Wake
  <2>2. opc = "idle"
    BY <2>1
  <2> QED
    BY <1>5, <2>1, <2>2 DEF orderVars
<1>6. CASE TimePasses
  BY <1>6 DEF TimePasses, orderVars, certdVars
<1>7. CASE UNCHANGED allVars
  BY <1>7 DEF allVars, vars, orderVars, certdVars
<1> QED
  BY <1>1, <1>2, <1>3, <1>4, <1>5, <1>6, <1>7 DEF OrderNext, CertdWorks

LEMMA OrderInvHolds == OrderSpec => []OrderInv
<1>1. Init /\ OrderInit => OrderInv
  BY IssuanceAssumption DEF Init, OrderInit, OrderInv, TypeOK, OrderTypeOK, OrderStage, NoCerts
<1>2. OrderInv /\ [OrderNext]_allVars => OrderInv'
  BY OrderTypeStep, OrderStageStep DEF OrderInv
<1> QED
  BY <1>1, <1>2, PTL DEF OrderSpec

(* No challenge is responded to without its record: the record of the       *)
(* domain survives that of its wildcard, under the same name, whatever was  *)
(* left over, could not be deleted, failed or hung.                         *)
THEOREM ChallengesAreAnswerable == OrderSpec => []AnswerableChallenges
<1>1. OrderInv => AnswerableChallenges
  BY DEF OrderInv, OrderTypeOK, OrderStage, AnswerableChallenges
<1> QED
  BY <1>1, OrderInvHolds, PTL

-----------------------------------------------------------------------------
(* The debt is a time; a fault costs an interval and nothing else does but  *)
(* a standstill.                                                            *)
LEMMA DebtOf ==
    ASSUME NEW f \in Nat, NEW o \in Nat
    PROVE  /\ f * Interval + o \in Nat
           /\ (f + 1) * Interval + o = f * Interval + o + Interval
BY CertsAssumption

LEMMA DebtStep ==
    ASSUME OrderInv, UNCHANGED outage
    PROVE  /\ Debt \in Nat
           /\ UNCHANGED faults => Debt' = Debt
           /\ faults' = faults + 1 => Debt' = Debt + Interval
<1>1. faults \in Nat /\ outage \in Nat
  BY DEF OrderInv, TypeOK, OrderTypeOK
<1>2. Debt \in Nat /\ (faults + 1) * Interval + outage = Debt + Interval
  BY <1>1, DebtOf DEF Debt
<1> QED
  BY <1>2 DEF Debt

(* A failed step pays for the pass it cost: whatever a domain had left, it  *)
(* now has as one that is not behind.                                       *)
LEMMA FaultPays ==
    ASSUME OrderInv, RenewInv, UNCHANGED <<now, outage, stored>>, faults' = faults + 1,
           pc' # "sleep"
    PROVE  \A d \in Domains : stored'[d] # None => HasLeft(d)'
<1> SUFFICES ASSUME NEW d \in Domains, stored[d] # None PROVE HasLeft(d)'
  OBVIOUS
<1>1. Debt \in Nat /\ Debt' = Debt + Interval
  BY DebtStep
<1>2. stored[d].exp \in Nat /\ now \in Nat /\ wake \in Nat
  BY DEF OrderInv, TypeOK, Cert
<1>3. now + Margin <= stored[d].exp + Debt + Interval
  BY <1>1, <1>2, CertsAssumption DEF RenewInv, HasLeft
<1>4. now' + Margin <= stored'[d].exp + Debt'
  BY <1>1, <1>2, <1>3, CertsAssumption
<1> QED
  BY <1>1, <1>2, <1>4, CertsAssumption DEF HasLeft

(* A step that changes neither the debt nor what is stored, and lets no     *)
(* domain fall behind.                                                      *)
LEMMA LeftAsItWas ==
    ASSUME OrderInv, RenewInv, UNCHANGED <<now, outage, stored, faults>>,
           pc # "sleep", pc' # "sleep", \A d \in Domains : Behind(d) => Behind(d)'
    PROVE  \A d \in Domains : stored'[d] # None => HasLeft(d)'
<1> SUFFICES ASSUME NEW d \in Domains, stored[d] # None PROVE HasLeft(d)'
  OBVIOUS
<1>1. Debt \in Nat /\ Debt' = Debt
  BY DebtStep
<1>2. stored[d].exp \in Nat /\ now \in Nat
  BY DEF OrderInv, TypeOK, Cert
<1>3. HasLeft(d)
  BY DEF RenewInv
<1>4. CASE Behind(d)
  BY <1>1, <1>2, <1>3, <1>4, CertsAssumption DEF HasLeft
<1>5. CASE ~Behind(d)
  BY <1>1, <1>2, <1>3, <1>5, CertsAssumption DEF HasLeft
<1> QED
  BY <1>4, <1>5

LEMMA RenewStep == OrderInv /\ RenewInv /\ [OrderNext]_allVars => RenewInv'
<1> SUFFICES ASSUME OrderInv, RenewInv, [OrderNext]_allVars PROVE RenewInv'
  OBVIOUS
<1> DEFINE Left == \A d \in Domains : stored'[d] # None => HasLeft(d)'
<1>0. ASSUME pc' \notin {"connect", "set", "sleep"}, Left PROVE RenewInv'
  BY <1>0 DEF RenewInv
<1> HIDE DEF Left
<1>a. ASSUME UNCHANGED <<vars, outage>> PROVE RenewInv'
  BY <1>a DEF RenewInv, HasLeft, Behind, Debt, vars, certdVars
<1>b. ASSUME UNCHANGED <<now, outage, stored>>, faults' = faults + 1, pc' # "sleep" PROVE Left
  BY <1>b, FaultPays DEF Left
<1>c. ASSUME UNCHANGED <<now, outage, stored, faults>>, pc # "sleep", pc' # "sleep",
             \A d \in Domains : Behind(d) => Behind(d)'
      PROVE  Left
  BY <1>c, LeftAsItWas DEF Left
<1>1. CASE UNCHANGED outage /\ IssueDone
  <2>1. /\ UNCHANGED <<now, stored, faults, first, todo, cur>>
        /\ pc = "issue" /\ pc' \in {"connect", "set"} /\ (~first => pc' = "set")
        /\ cert'.exp = now + Lifetime
    BY <1>1 DEF IssueDone
  <2>2. Left
    BY <1>1, <1>c, <2>1 DEF Behind
  <2> QED
    BY <2>1, <2>2 DEF RenewInv, Left
<1>2. CASE UNCHANGED outage /\ (IssueFails \/ CertdCrash)
  BY <1>0, <1>2, <1>b DEF IssueFails, CertdCrash, Fault
<1>3. CASE UNCHANGED outage /\ Hang
  <2>1. UNCHANGED <<now, stored, pc>> /\ faults' = faults + 1 /\ pc = "issue"
    BY <1>3 DEF Hang, Fault, certdVars, OrderInv, OrderTypeOK
  <2> QED
    BY <1>0, <1>3, <1>b, <2>1
<1>4. CASE UNCHANGED outage /\ CertdStart
  <2>1. CASE pc' = "next" /\ first' = TRUE /\ todo' = Domains /\ NoFault
    BY <1>0, <1>4, <1>c, <2>1 DEF CertdStart, NoFault, Behind
  <2>2. CASE pc' = "ended" /\ Fault
    BY <1>0, <1>4, <1>b, <2>2 DEF CertdStart, Fault
  <2> QED
    BY <1>4, <2>1, <2>2 DEF CertdStart
<1>5. ASSUME UNCHANGED outage, NEW d \in Domains, PickFirst(d) PROVE RenewInv'
  BY <1>0, <1>5, <1>c DEF PickFirst, Behind
<1>6. ASSUME UNCHANGED outage, NEW d \in Domains, Check(d) PROVE RenewInv'
  <2>1. /\ pc = "next" /\ ~first /\ d \in todo /\ todo' = todo \ {d}
        /\ UNCHANGED <<now, first, stored>>
    BY <1>6 DEF Check
  <2>2. CASE Due(d) /\ pc' = "issue" /\ cur' = d /\ NoFault
    <3>1. \A e \in Domains : Behind(e) => Behind(e)'
      BY <2>1, <2>2 DEF Behind
    <3> QED
      BY <1>0, <1>6, <1>c, <2>1, <2>2, <3>1 DEF NoFault
  <2>3. CASE ~Due(d) /\ UNCHANGED <<pc, cur>> /\ NoFault
    <3>1. Debt \in Nat /\ Debt' = Debt
      BY <1>6, <2>3, DebtStep DEF NoFault
    <3>2. ASSUME NEW e \in Domains, stored'[e] # None PROVE HasLeft(e)'
      <4>1. stored[e] # None /\ stored[e].exp \in Nat /\ now \in Nat
        BY <2>1, <3>2 DEF OrderInv, TypeOK, Cert
      <4>2. CASE e = d
        <5>1. now + Margin <= stored[e].exp
          BY <2>3, <4>1, <4>2, CertsAssumption DEF Due
        <5>2. now + Margin <= stored[e].exp + Debt
          BY <3>1, <4>1, <5>1, CertsAssumption
        <5>3. pc' = "next"
          BY <2>1, <2>3
        <5> QED
          BY <2>1, <3>1, <4>1, <5>2, <5>3, CertsAssumption DEF HasLeft
      <4>3. CASE e # d
        <5>1. Behind(e)' <=> Behind(e)
          BY <2>1, <2>3, <4>3 DEF Behind
        <5>2. HasLeft(e)
          BY <4>1 DEF RenewInv
        <5> QED
          BY <2>1, <2>3, <3>1, <5>1, <5>2 DEF HasLeft
      <4> QED
        BY <4>2, <4>3
    <3> QED
      BY <1>0, <2>1, <2>3, <3>2 DEF Left
  <2>4. CASE UNCHANGED <<pc, cur>> /\ Fault
    BY <1>0, <1>6, <1>b, <2>1, <2>4 DEF Fault
  <2> QED
    BY <1>6, <2>2, <2>3, <2>4 DEF Check
<1>7. CASE UNCHANGED outage /\ Connect
  <2>1. pc = "connect" /\ UNCHANGED <<now, first, todo, cur, cert, stored>>
    BY <1>7 DEF Connect
  <2>2. CASE pc' = "set" /\ NoFault
    <3>1. Left
      BY <1>7, <1>c, <2>1, <2>2 DEF NoFault, Behind
    <3> QED
      BY <2>1, <2>2, <3>1 DEF RenewInv, Left
  <2>3. CASE pc' = "ended" /\ Fault
    BY <1>0, <1>7, <1>b, <2>1, <2>3 DEF Fault
  <2> QED
    BY <1>7, <2>2, <2>3 DEF Connect
<1>8. CASE UNCHANGED outage /\ StoreCert
  <2>1. pc = "set" /\ pc' = "publish" /\ UNCHANGED <<now, first, todo, cur>>
    BY <1>8 DEF StoreCert
  <2>2. CASE stored' = [stored EXCEPT ![cur] = cert] /\ NoFault
    <3>1. Debt \in Nat /\ Debt' = Debt
      BY <1>8, <2>2, DebtStep DEF NoFault
    <3>2. ASSUME NEW e \in Domains, stored'[e] # None PROVE HasLeft(e)'
      <4>1. now \in Nat /\ cert \in Cert /\ cert.exp = now + Lifetime
        BY <2>1 DEF OrderInv, TypeOK, RenewInv
      <4>2. CASE e = cur
        <5>1. stored'[e] = cert
          BY <2>2, <4>2 DEF OrderInv, TypeOK
        <5>2. now + Margin <= cert.exp + Debt
          BY <3>1, <4>1, CertsAssumption, IssuanceAssumption
        <5> QED
          BY <2>1, <3>1, <4>1, <5>1, <5>2, CertsAssumption DEF HasLeft
      <4>3. CASE e # cur
        <5>1. stored'[e] = stored[e]
          BY <2>2, <4>3 DEF OrderInv, TypeOK
        <5>2. Behind(e)' <=> Behind(e)
          BY <2>1, <4>3 DEF Behind
        <5>3. HasLeft(e)
          BY <3>2, <5>1 DEF RenewInv
        <5> QED
          BY <2>1, <3>1, <5>1, <5>2, <5>3 DEF HasLeft
      <4> QED
        BY <4>2, <4>3
    <3> QED
      BY <1>0, <2>1, <3>2 DEF Left
  <2>3. CASE UNCHANGED stored /\ Fault
    BY <1>0, <1>8, <1>b, <2>1, <2>3 DEF Fault
  <2> QED
    BY <1>8, <2>2, <2>3 DEF StoreCert
<1>9. CASE UNCHANGED outage /\ Publish
  <2>1. pc = "publish" /\ pc' = "next" /\ UNCHANGED <<now, first, todo, stored>>
    BY <1>9 DEF Publish
  <2>2. CASE NoFault
    <3>1. \A e \in Domains : Behind(e) => Behind(e)'
      BY <2>1 DEF Behind
    <3> QED
      BY <1>0, <1>9, <1>c, <2>1, <2>2, <3>1 DEF NoFault
  <2>3. CASE Fault
    BY <1>0, <1>9, <1>b, <2>1, <2>3 DEF Fault
  <2> QED
    BY <1>9, <2>2, <2>3 DEF Publish
<1>10. CASE UNCHANGED outage /\ Sleep
  <2>1. /\ pc = "next" /\ pc' = "sleep" /\ todo = {} /\ wake' = now + Interval
        /\ UNCHANGED <<now, stored, faults>>
    BY <1>10 DEF Sleep
  <2>2. Debt \in Nat /\ Debt' = Debt
    BY <1>10, <2>1, DebtStep
  <2>3. ASSUME NEW e \in Domains, stored'[e] # None PROVE HasLeft(e)'
    <3>1. stored[e].exp \in Nat /\ now \in Nat
      BY <2>1, <2>3 DEF OrderInv, TypeOK, Cert
    <3>2. HasLeft(e) /\ ~Behind(e)
      BY <2>1, <2>3 DEF RenewInv, Behind
    <3>3. now + Margin <= stored[e].exp + Debt
      BY <2>1, <3>2 DEF HasLeft
    <3>4. wake' + Margin <= stored'[e].exp + Debt' + Interval
      BY <2>1, <2>2, <3>1, <3>3, CertsAssumption
    <3> QED
      BY <2>1, <3>4, CertsAssumption DEF HasLeft
  <2>4. now' <= wake'
    BY <2>1, CertsAssumption DEF OrderInv, TypeOK
  <2> QED
    BY <2>1, <2>3, <2>4 DEF RenewInv
<1>11. CASE UNCHANGED outage /\ Wake
  <2>1. pc = "sleep" /\ now >= wake /\ UNCHANGED <<now, stored>>
    BY <1>11 DEF Wake
  <2>2. CASE pc' = "next" /\ first' = FALSE /\ todo' = Domains /\ NoFault
    <3>1. Debt \in Nat /\ Debt' = Debt
      BY <1>11, <2>2, DebtStep DEF NoFault
    <3>2. ASSUME NEW e \in Domains, stored'[e] # None PROVE HasLeft(e)'
      <4>1. stored[e].exp \in Nat /\ now \in Nat /\ wake \in Nat
        BY <2>1, <3>2 DEF OrderInv, TypeOK, Cert
      <4>2. wake + Margin <= stored[e].exp + Debt + Interval /\ now = wake
        BY <2>1, <3>2, <4>1 DEF RenewInv, HasLeft
      <4>3. Behind(e)'
        BY <2>2 DEF Behind
      <4> QED
        BY <2>1, <2>2, <3>1, <4>2, <4>3 DEF HasLeft
    <3> QED
      BY <1>0, <2>2, <3>2 DEF Left
  <2>3. CASE pc' = "ended" /\ Fault
    BY <1>0, <1>11, <1>b, <2>1, <2>3 DEF Fault
  <2> QED
    BY <1>11, <2>2, <2>3 DEF Wake
<1>12. CASE TimePasses
  <2>1. now' = now + 1 /\ UNCHANGED <<pc, first, todo, cur, cert, wake, stored, faults>>
    BY <1>12 DEF TimePasses, certdVars
  <2>2. now \in Nat /\ wake \in Nat /\ faults \in Nat /\ outage \in Nat
    BY DEF OrderInv, TypeOK, OrderTypeOK
  <2>3. Debt \in Nat
    BY <2>2, DebtOf DEF Debt
  <2>4. CASE pc = "sleep"
    <3>1. now < wake /\ UNCHANGED outage
      BY <1>12, <2>4 DEF TimePasses, OrderInv, OrderTypeOK
    <3>2. now' <= wake' /\ Debt' = Debt
      BY <2>1, <2>2, <3>1 DEF Debt
    <3>3. \A e \in Domains : HasLeft(e) => HasLeft(e)'
      BY <2>1, <2>4, <3>2 DEF HasLeft
    <3> QED
      BY <2>1, <2>4, <3>2, <3>3 DEF RenewInv
  <2>5. CASE pc # "sleep"
    <3>1. outage' = outage + 1 /\ pc \in {"off", "ended", "issue"}
      BY <1>12, <2>5 DEF TimePasses, OrderInv, OrderTypeOK
    <3>2. Debt' = Debt + 1
      <4>1. faults * Interval \in Nat
        BY <2>2, CertsAssumption
      <4> QED
        BY <2>1, <2>2, <3>1, <4>1 DEF Debt
    <3>3. ASSUME NEW e \in Domains, stored'[e] # None PROVE HasLeft(e)'
      <4>1. stored[e].exp \in Nat
        BY <2>1, <3>3 DEF OrderInv, TypeOK, Cert
      <4>2. Behind(e)' <=> Behind(e)
        BY <2>1 DEF Behind
      <4>3. HasLeft(e)
        BY <2>1, <3>3 DEF RenewInv
      <4>4. CASE Behind(e)
        BY <2>1, <2>2, <2>3, <2>5, <3>2, <4>1, <4>2, <4>3, <4>4, CertsAssumption DEF HasLeft
      <4>5. CASE ~Behind(e)
        BY <2>1, <2>2, <2>3, <2>5, <3>2, <4>1, <4>2, <4>3, <4>5, CertsAssumption DEF HasLeft
      <4> QED
        BY <4>4, <4>5
    <3> QED
      BY <1>0, <2>1, <3>1, <3>3 DEF Left
  <2> QED
    BY <2>4, <2>5
<1>13. CASE UNCHANGED allVars
  BY <1>13, <1>a DEF allVars
<1>14. CASE UNCHANGED outage /\ (OrderStep \/ RequestFails \/ Validate)
  <2>1. UNCHANGED vars \/ IssueDone \/ IssueFails
    BY <1>14 DEF OrderStep, NewOrder, Authorization, DeleteTxt, CreateTxt, Respond, PollOrder,
                 Finalize, FetchCert, FetchAgain, OrderFails, RequestFails, Validate
  <2> QED
    BY <1>14, <1>1, <1>2, <1>a, <2>1
<1>15. CASE UNCHANGED outage /\ LoopStep
  BY <1>15, <1>4, <1>5, <1>6, <1>7, <1>8, <1>9, <1>10, <1>11 DEF LoopStep
<1> QED
  BY <1>2, <1>3, <1>12, <1>13, <1>14, <1>15 DEF OrderNext, CertdWorks

(* A stored certificate does not run out in a sleep, for any number of      *)
(* domains, length of the spans and choice of faults, as long as the margin *)
(* has room for an interval per fault, one more, and the standstills.       *)
THEOREM CertificatesRenewedInTime == OrderSpec => []RenewedInTime
<1>1. Init /\ OrderInit => RenewInv
  BY DEF Init, OrderInit, RenewInv, NoCerts
<1>2. OrderInv /\ RenewInv => RenewedInTime
  <2> SUFFICES ASSUME OrderInv, RenewInv, pc = "sleep",
                      (faults + 1) * Interval + outage <= Margin,
                      NEW d \in Domains, stored[d] # None
               PROVE  now <= stored[d].exp
    BY DEF RenewedInTime
  <2>1. faults \in Nat /\ outage \in Nat /\ now \in Nat /\ wake \in Nat /\ stored[d].exp \in Nat
    BY DEF OrderInv, TypeOK, OrderTypeOK, Cert
  <2>2. Debt \in Nat /\ Debt + Interval <= Margin
    BY <2>1, DebtOf DEF Debt
  <2>3. wake + Margin <= stored[d].exp + Debt + Interval /\ now <= wake
    BY DEF RenewInv, HasLeft
  <2> QED
    BY <2>1, <2>2, <2>3, CertsAssumption
<1> QED
  BY <1>1, <1>2, RenewStep, OrderInvHolds, PTL DEF OrderSpec

=============================================================================
