---------------------------- MODULE ConfigProofs ----------------------------
(***************************************************************************)
(* What the one file promises, for every file, whatever its blocks, names  *)
(* and spellings.                                                          *)
(*                                                                         *)
(* The log.  WithinLimit speaks of the log file; the logger decides by its *)
(* own count.  LogInv ties the two: the count is never below the file's    *)
(* length, also when a write broke off, and after a line it is within the  *)
(* limit or that one line.                                                 *)
(*                                                                         *)
(* Names.  normalize_host tells names apart exactly as their labels do     *)
(* (SameIsNormal), so the entries pushed for a name are those declared for *)
(* it (DeclaredIsPushed, PushedIsDeclared), and a file that expands has at *)
(* most one for each.                                                      *)
(*                                                                         *)
(* Certificates.  The resolver stops at the closest domain that has one    *)
(* (ResolveFinds): for a name at most one label below a domain of the file *)
(* that is the name's own, or that domain's with its wildcard.             *)
(***************************************************************************)
EXTENDS Config, SequenceTheorems, WellFoundedInduction, TLAPS

CountsAll == up = "up" /\ Logs /\ ~mishap => fileLen <= size

CountBounded ==
    up = "up" /\ Logs /\ written /\ ~mishap /\ MaxSize > 0 =>
        size <= MaxSize \/ size \in LineLengths

LogInv ==
    /\ raw \in RawConfigs
    /\ fileLen \in Nat /\ size \in Nat
    /\ CountsAll
    /\ CountBounded

(* A write adds what it got through with, which is part of the line.        *)
LEMMA WriteAdds ==
    ASSUME NEW from \in Nat, NEW n \in Nat, WriteAll(from, n)
    PROVE  fileLen' \in Nat /\ fileLen' <= from + n
BY DEF WriteAll

LEMMA LimitIsNumber ==
    ASSUME raw \in RawConfigs, Logs
    PROVE  MaxSize \in Nat
BY ConfigAssumption DEF Logs, MaxSize

(* A line logged, whether it fits, empties the file first or fails to.      *)
LEMMA LogLineStep ==
    ASSUME LogInv, up = "up", Logs, NEW n \in LineLengths, LogLine(n, MaxSize),
           UNCHANGED <<raw, up>>
    PROVE  LogInv'
<1>1. n \in Nat /\ MaxSize \in Nat /\ fileLen \in Nat /\ size \in Nat
  BY LimitIsNumber, LogAssumption DEF LogInv
<1>2. UNCHANGED <<Logs, MaxSize>>
  BY DEF Logs, MaxSize
<1> DEFINE over == MaxSize > 0 /\ size + n > MaxSize
<1>3. CASE over /\ size' = n /\ WriteAll(0, n) /\ UNCHANGED mishap
  <2>1. fileLen' \in Nat /\ fileLen' <= n
    BY <1>1, <1>3, WriteAdds
  <2> QED
    BY <1>1, <1>2, <1>3, <2>1 DEF LogInv, CountsAll, CountBounded
<1>4. CASE over /\ size' = size + n /\ WriteAll(fileLen, n) /\ mishap' = TRUE
  <2>1. fileLen' \in Nat
    BY <1>1, <1>4, WriteAdds
  <2> QED
    BY <1>1, <1>4, <2>1 DEF LogInv, CountsAll, CountBounded
<1>5. CASE ~over /\ size' = size + n /\ WriteAll(fileLen, n) /\ UNCHANGED mishap
  <2>1. fileLen' \in Nat /\ fileLen' <= fileLen + n
    BY <1>1, <1>5, WriteAdds
  <2>2. CountsAll'
    BY <1>1, <1>2, <1>5, <2>1 DEF LogInv, CountsAll
  <2>3. CountBounded'
    BY <1>1, <1>2, <1>5 DEF CountBounded
  <2> QED
    BY <1>1, <1>5, <2>1, <2>2, <2>3 DEF LogInv
<1> QED
  BY <1>3, <1>4, <1>5 DEF LogLine

LEMMA LogUntouched ==
    ASSUME LogInv, UNCHANGED <<raw, up, logVars>>
    PROVE  LogInv'
BY DEF LogInv, CountsAll, CountBounded, Logs, MaxSize, logVars

LEMMA LogInvStep == LogInv /\ [Next]_vars => LogInv'
<1> SUFFICES ASSUME LogInv, [Next]_vars PROVE LogInv'
  OBVIOUS
<1>1. CASE Expand
  <2>1. UNCHANGED raw /\ up = "down"
    BY <1>1 DEF Expand
  <2>2. CASE Logs
    <3>1. LogOpen
      BY <1>1, <2>2 DEF Expand
    <3>2. written' = FALSE /\ UNCHANGED fileLen /\ (size' = fileLen \/ (size' = 0 /\ mishap' = TRUE))
      BY <3>1 DEF LogOpen
    <3>3. CASE size' = fileLen
      BY <2>1, <3>2, <3>3 DEF LogInv, CountsAll, CountBounded
    <3>4. CASE size' = 0 /\ mishap' = TRUE
      BY <2>1, <3>2, <3>4 DEF LogInv, CountsAll, CountBounded
    <3> QED
      BY <3>2, <3>3, <3>4
  <2>3. CASE ~Logs
    <3>1. ~Logs' /\ UNCHANGED logVars
      BY <1>1, <2>1, <2>3 DEF Expand, Logs
    <3> QED
      BY <2>1, <3>1 DEF LogInv, CountsAll, CountBounded, logVars
  <2> QED
    BY <2>2, <2>3
<1>8. CASE Panic
  BY <1>8 DEF Panic, LogInv, CountsAll, CountBounded, logVars
<1>2. CASE Restart
  BY <1>2 DEF Restart, LogInv, CountsAll, CountBounded, logVars
<1>3. ASSUME NEW g, Issue(g) PROVE LogInv'
  BY <1>3, LogUntouched DEF Issue
<1>4. ASSUME up = "up", Line, UNCHANGED <<raw, up>> PROVE LogInv'
  BY <1>4, LogLineStep, LogUntouched DEF Line
<1>5. ASSUME NEW name, Hello(name) PROVE LogInv'
  BY <1>4, <1>5 DEF Hello
<1>6. ASSUME NEW host, NEW path, Route(host, path) PROVE LogInv'
  BY <1>4, <1>6 DEF Route
<1>7. CASE UNCHANGED vars
  BY <1>7, LogUntouched DEF vars, confVars
<1> QED
  BY <1>1, <1>2, <1>3, <1>5, <1>6, <1>7, <1>8 DEF Next

(* Whatever the file of earlier runs was, however its lines come and its    *)
(* writes break off, the log keeps to max_size, or to its one last line, as *)
(* long as its length could be read and it could be emptied.                *)
THEOREM LogStaysBounded == Spec => []LogBounded
<1>1. Init => LogInv
  BY LogAssumption DEF Init, LogInit, LogInv, CountsAll, CountBounded
<1>2. LogInv => LogBounded
  <2> SUFFICES ASSUME LogInv, up = "up", Logs, MaxSize > 0, written, ~mishap
               PROVE  fileLen <= MaxSize \/ (fileLen <= size /\ size \in LineLengths)
    BY DEF LogBounded, WithinLimit
  <2>1. MaxSize \in Nat /\ fileLen \in Nat /\ size \in Nat
    BY LimitIsNumber DEF LogInv
  <2>2. fileLen <= size /\ (size <= MaxSize \/ size \in LineLengths)
    BY DEF LogInv, CountsAll, CountBounded
  <2> QED
    BY <2>1, <2>2
<1> QED
  BY <1>1, <1>2, LogInvStep, PTL DEF Spec

-----------------------------------------------------------------------------
(* Names.  Every set of naturals has a least element, and a bounded one a   *)
(* greatest.                                                                *)
LEMMA LeastOf ==
    ASSUME NEW T \in SUBSET Nat, T # {}
    PROVE  \E x \in T : \A y \in T : x <= y
<1> DEFINE R == {xy \in Nat \X Nat : xy[1] < xy[2]}
<1>1. IsWellFoundedOn(R, Nat)
  BY NatLessThanWellFounded, Zenon DEF OpToRel
<1> HIDE DEF R
<1>2. PICK x \in T : ~ \E y \in T : <<y, x>> \in R
  BY <1>1, WFMin
<1>3. \A y \in T : x <= y
  BY <1>2, x \in Nat DEF R
<1> QED
  BY <1>3

LEMMA GreatestOf ==
    ASSUME NEW n \in Nat, NEW T \in SUBSET (1..n), T # {}
    PROVE  \E x \in T : \A y \in T : x >= y
<1> DEFINE D == {n - y : y \in T}
<1>1. D \in SUBSET Nat /\ D # {}
  <2>1. \A y \in T : n - y \in Nat
    OBVIOUS
  <2> QED
    BY <2>1
<1>2. PICK d \in D : \A c \in D : d <= c
  <2> HIDE DEF D
  <2> QED
    BY <1>1, LeastOf
<1>3. PICK x \in T : d = n - x
  OBVIOUS
<1>4. ASSUME NEW y \in T PROVE x >= y
  <2>1. n - x <= n - y
    BY <1>2, <1>3
  <2> QED
    BY <2>1, x \in Int, y \in Int
<1> QED
  BY <1>4

(* normalize_host keeps the labels up to the last that is not empty.        *)
LEMMA NormalForm ==
    ASSUME NEW h \in Name
    PROVE  \E n \in 0..Len(h) :
              /\ NormalizeHost(h) = [i \in 1..n |-> Lower[h[i]]]
              /\ n # 0 => h[n] # ""
              /\ \A i \in n + 1 .. Len(h) : h[i] = ""
<1>0. PICK L \in Nat : L = Len(h)
  BY DEF Name
<1> DEFINE I == {i \in 1..L : h[i] # ""}
<1>1. PICK n : /\ n = IF I # {} THEN Max(I) ELSE 0
               /\ NormalizeHost(h) = [i \in 1..n |-> Lower[h[i]]]
  BY <1>0 DEF NormalizeHost, SelectLastInSeq
<1>2. SUFFICES /\ n \in 0..L
               /\ n # 0 => h[n] # ""
               /\ \A i \in n + 1 .. L : h[i] = ""
  BY <1>0, <1>1
<1>3. CASE I = {}
  <2>1. n = 0
    BY <1>1, <1>3
  <2>2. \A i \in 1..L : h[i] = ""
    BY <1>3
  <2>3. n \in 0..L /\ n + 1 = 1
    BY <2>1
  <2> QED
    BY <2>1, <2>2, <2>3
<1>4. CASE I # {}
  <2>1. \E x \in I : \A y \in I : x >= y
    BY <1>4, GreatestOf
  <2>2. n \in I /\ \A y \in I : n >= y
    BY <1>1, <1>4, <2>1 DEF Max
  <2>3. n \in 1..L
    BY <2>2
  <2>4. h[n] # ""
    BY <2>2
  <2>5. ASSUME NEW i \in n + 1 .. L PROVE h[i] = ""
    <3>1. i \in 1..L /\ ~(n >= i)
      BY <2>3
    <3>2. i \notin I
      BY <2>2, <3>1
    <3> QED
      BY <3>1, <3>2
  <2>6. n \in 0..L
    BY <2>3
  <2> QED
    BY <2>4, <2>5, <2>6
<1> QED
  BY <1>3, <1>4

(* So it tells a name by its labels.                                        *)
LEMMA NormalLabels ==
    ASSUME NEW h \in Name
    PROVE  \E n \in Nat :
              /\ NormalizeHost(h) = [i \in 1..n |-> Label(h, i)]
              /\ n # 0 => Label(h, n) # ""
              /\ \A i \in Nat : i > n => Label(h, i) = ""
<1>1. PICK n \in 0..Len(h) :
         /\ NormalizeHost(h) = [i \in 1..n |-> Lower[h[i]]]
         /\ n # 0 => h[n] # ""
         /\ \A i \in n + 1 .. Len(h) : h[i] = ""
  BY NormalForm
<1>2. Len(h) \in Nat /\ DOMAIN h = 1..Len(h) /\ \A i \in 1..Len(h) : h[i] \in DOMAIN Lower
  BY DEF Name
<1>a. n \in Nat /\ n <= Len(h)
  BY <1>2
<1>3. ASSUME NEW i \in 1..n PROVE i \in DOMAIN h /\ Label(h, i) = Lower[h[i]]
  <2>1. i \in 1..Len(h)
    BY <1>2, <1>a
  <2> QED
    BY <1>2, <2>1 DEF Label
<1>4. n # 0 => Label(h, n) # ""
  <2> SUFFICES ASSUME n # 0 PROVE Label(h, n) # ""
    OBVIOUS
  <2>1. n \in 1..n /\ n \in 1..Len(h)
    BY <1>2, <1>a
  <2> QED
    BY <1>1, <1>2, <1>3, <2>1, LowerAssumption
<1>5. ASSUME NEW i \in Nat, i > n PROVE Label(h, i) = ""
  <2>1. CASE i \in DOMAIN h
    <3>1. i \in n + 1 .. Len(h)
      BY <1>2, <1>a, <1>5, <2>1
    <3>2. h[i] = ""
      BY <1>1, <3>1
    <3> QED
      BY <2>1, <3>2, LowerAssumption DEF Label
  <2>2. CASE i \notin DOMAIN h
    BY <2>2 DEF Label
  <2> QED
    BY <2>1, <2>2
<1>6. NormalizeHost(h) = [i \in 1..n |-> Label(h, i)]
  BY <1>1, <1>3
<1> QED
  BY <1>a, <1>4, <1>5, <1>6

LEMMA SameLabels ==
    ASSUME NEW a \in Name, NEW b \in Name
    PROVE  SameName(a, b) <=> \A i \in Nat \ {0} : Label(a, i) = Label(b, i)
<1>1. DOMAIN a \subseteq Nat \ {0} /\ DOMAIN b \subseteq Nat \ {0}
  BY DEF Name
<1>2. \A i \in (Nat \ {0}) \ (DOMAIN a \cup DOMAIN b) : Label(a, i) = "" /\ Label(b, i) = ""
  BY DEF Label
<1> QED
  BY <1>1, <1>2 DEF SameName

(* Two spellings are of the same name exactly when they normalize alike.    *)
LEMMA SameIsNormal ==
    ASSUME NEW a \in Name, NEW b \in Name
    PROVE  SameName(a, b) <=> NormalizeHost(a) = NormalizeHost(b)
<1>1. PICK m \in Nat : /\ NormalizeHost(a) = [i \in 1..m |-> Label(a, i)]
                       /\ m # 0 => Label(a, m) # ""
                       /\ \A i \in Nat : i > m => Label(a, i) = ""
  BY NormalLabels
<1>2. PICK n \in Nat : /\ NormalizeHost(b) = [i \in 1..n |-> Label(b, i)]
                       /\ n # 0 => Label(b, n) # ""
                       /\ \A i \in Nat : i > n => Label(b, i) = ""
  BY NormalLabels
<1>4. SameName(a, b) <=> \A i \in Nat \ {0} : Label(a, i) = Label(b, i)
  BY SameLabels
<1>5. ASSUME \A i \in Nat \ {0} : Label(a, i) = Label(b, i)
      PROVE  NormalizeHost(a) = NormalizeHost(b)
  <2>1. ~(m > n)
    <3> SUFFICES ASSUME m > n PROVE FALSE
      OBVIOUS
    <3>1. m # 0 /\ m \in Nat \ {0}
      OBVIOUS
    <3> QED
      BY <1>1, <1>2, <1>5, <3>1
  <2>2. ~(n > m)
    <3> SUFFICES ASSUME n > m PROVE FALSE
      OBVIOUS
    <3>1. n # 0 /\ n \in Nat \ {0}
      OBVIOUS
    <3> QED
      BY <1>1, <1>2, <1>5, <3>1
  <2>3. m = n
    BY <2>1, <2>2
  <2>4. \A i \in 1..n : Label(a, i) = Label(b, i)
    BY <1>5
  <2> QED
    BY <1>1, <1>2, <2>3, <2>4
<1>6. ASSUME NormalizeHost(a) = NormalizeHost(b), NEW i \in Nat \ {0}
      PROVE  Label(a, i) = Label(b, i)
  <2>1. 1..m = 1..n
    BY <1>1, <1>2, <1>6
  <2>2. m = n
    BY <2>1
  <2>3. CASE i \in 1..m
    BY <1>1, <1>2, <1>6, <2>2, <2>3
  <2>4. CASE i > m
    BY <1>1, <1>2, <2>2, <2>4
  <2> QED
    BY <2>3, <2>4
<1> QED
  BY <1>4, <1>5, <1>6

-----------------------------------------------------------------------------
(* The parts of a file.                                                     *)
LEMMA SiteParts ==
    ASSUME raw \in RawConfigs, NEW i \in DOMAIN raw.sites
    PROVE  /\ raw.sites[i].domain \in Name /\ HasLabel(raw.sites[i].domain)
           /\ raw.sites[i].sub \in Seq(SubToml)
<1>1. raw.sites \in Seq(SiteToml) /\ HasLabel(raw.sites[i].domain)
  BY ConfigAssumption
<1>2. raw.sites[i] \in SiteToml
  BY <1>1, ElementOfSeq
<1> QED
  BY <1>1, <1>2 DEF SiteToml

LEMMA SubParts ==
    ASSUME NEW t \in Seq(SubToml), NEW j \in DOMAIN t
    PROVE  t[j].name \in Name
<1>1. t[j] \in SubToml
  BY ElementOfSeq
<1> QED
  BY <1>1 DEF SubToml

First(a, b) == IF a = Unset THEN b ELSE a

OwnDecl(s) == [upstream |-> s.upstream, bypass |-> s.bypass, depth |-> 0]
SubDecl(s, u) == [upstream |-> First(u.upstream, s.upstream),
                  bypass |-> First(u.bypass, s.bypass), depth |-> Len(u.name)]

(* What is declared of a name, block by block.                              *)
LEMMA DeclaredOf ==
    ASSUME NEW name, NEW d
    PROVE  d \in Declared(name) <=>
              \/ \E s \in ToSet(raw.sites) :
                    s.upstream # "" /\ SameName(s.domain, name) /\ d = OwnDecl(s)
              \/ \E s \in ToSet(raw.sites) : \E u \in ToSet(s.sub) :
                    /\ SameName(u.name \o s.domain, name)
                    /\ d = SubDecl(s, u) /\ d.upstream # ""
<1> DEFINE own == {s \in ToSet(raw.sites) : s.upstream # "" /\ SameName(s.domain, name)}
           pairs == UNION {{s} \X ToSet(s.sub) : s \in ToSet(raw.sites)}
           subs == {p \in pairs : SameName(p[2].name \o p[1].domain, name)}
<1>1. d \in Declared(name) <=>
         \/ \E s \in own : d = OwnDecl(s)
         \/ (\E p \in subs : d = SubDecl(p[1], p[2])) /\ d.upstream # ""
  BY DEF Declared, OwnDecl, SubDecl, First
<1>2. ASSUME NEW p \in pairs
      PROVE  p[1] \in ToSet(raw.sites) /\ p[2] \in ToSet(p[1].sub) /\ p = <<p[1], p[2]>>
  <2>1. PICK s \in ToSet(raw.sites) : p \in {s} \X ToSet(s.sub)
    BY <1>2
  <2> QED
    BY <2>1
<1>3. ASSUME NEW s \in ToSet(raw.sites), NEW u \in ToSet(s.sub)
      PROVE  <<s, u>> \in pairs
  OBVIOUS
<1> HIDE DEF pairs
<1>4. (\E p \in subs : d = SubDecl(p[1], p[2])) <=>
         \E s \in ToSet(raw.sites) : \E u \in ToSet(s.sub) :
            SameName(u.name \o s.domain, name) /\ d = SubDecl(s, u)
  <2>1. ASSUME NEW p \in subs, d = SubDecl(p[1], p[2])
        PROVE  \E s \in ToSet(raw.sites) : \E u \in ToSet(s.sub) :
                  SameName(u.name \o s.domain, name) /\ d = SubDecl(s, u)
    BY <1>2, <2>1
  <2>2. ASSUME NEW s \in ToSet(raw.sites), NEW u \in ToSet(s.sub),
               SameName(u.name \o s.domain, name), d = SubDecl(s, u)
        PROVE  \E p \in subs : d = SubDecl(p[1], p[2])
    <3>1. <<s, u>> \in subs /\ <<s, u>>[1] = s /\ <<s, u>>[2] = u
      BY <1>3, <2>2
    <3> QED
      BY <2>2, <3>1
  <2> QED
    BY <2>1, <2>2
<1> QED
  BY <1>1, <1>4

(* The places of the file.                                                  *)
LEMMA PlacesOf ==
    ASSUME raw \in RawConfigs, NEW p
    PROVE  p \in Places <=>
              \E i \in DOMAIN raw.sites :
                 \E j \in {0} \cup DOMAIN raw.sites[i].sub : p = <<i, j>>
<1>1. ASSUME NEW i \in DOMAIN raw.sites
      PROVE  0..Len(raw.sites[i].sub) = {0} \cup DOMAIN raw.sites[i].sub
  <2>1. PICK t \in Seq(SubToml) : t = raw.sites[i].sub
    BY SiteParts
  <2>2. Len(t) \in Nat /\ DOMAIN t = 1..Len(t)
    BY LenProperties
  <2>3. 0..Len(t) = {0} \cup 1..Len(t)
    BY <2>2
  <2> QED
    BY <2>1, <2>2, <2>3
<1>2. p \in Places <=> \E i \in DOMAIN raw.sites : p \in {i} \X (0..Len(raw.sites[i].sub))
  BY DEF Places
<1>3. ASSUME NEW i \in DOMAIN raw.sites
      PROVE  p \in {i} \X (0..Len(raw.sites[i].sub)) <=>
                \E j \in {0} \cup DOMAIN raw.sites[i].sub : p = <<i, j>>
  BY <1>1
<1> QED
  BY <1>2, <1>3

(* The entry a place gives.                                                 *)
LEMMA EntryOf ==
    ASSUME NEW i, NEW j
    PROVE  /\ EntryAt(<<i, 0>>).domain = NormalizeHost(raw.sites[i].domain)
           /\ EntryAt(<<i, 0>>).upstream = raw.sites[i].upstream
           /\ EntryAt(<<i, 0>>).bypass = raw.sites[i].bypass
           /\ j # 0 =>
                /\ EntryAt(<<i, j>>).domain =
                      NormalizeHost(raw.sites[i].sub[j].name \o raw.sites[i].domain)
                /\ EntryAt(<<i, j>>).upstream =
                      First(raw.sites[i].sub[j].upstream, raw.sites[i].upstream)
                /\ EntryAt(<<i, j>>).bypass =
                      First(raw.sites[i].sub[j].bypass, raw.sites[i].bypass)
BY DEF EntryAt, Entry, First

(* An entry and a declaration that say the same of a name.                  *)
Agree(p, d) == EntryAt(p).upstream = d.upstream /\ EntryAt(p).bypass = d.bypass

(* Every declaration of a name is pushed as an entry for it.                *)
LEMMA DeclaredIsPushed ==
    ASSUME raw \in RawConfigs, NEW name \in Name, NEW d \in Declared(name)
    PROVE  \E p \in Pushed : EntryAt(p).domain = NormalizeHost(name) /\ Agree(p, d)
<1>1. CASE \E s \in ToSet(raw.sites) :
              s.upstream # "" /\ SameName(s.domain, name) /\ d = OwnDecl(s)
  <2>1. PICK i \in DOMAIN raw.sites :
           /\ raw.sites[i].upstream # "" /\ SameName(raw.sites[i].domain, name)
           /\ d = OwnDecl(raw.sites[i])
    BY <1>1 DEF ToSet
  <2>2. <<i, 0>> \in Places
    BY PlacesOf
  <2>3. EntryAt(<<i, 0>>).domain = NormalizeHost(name)
    BY <2>1, SiteParts, SameIsNormal, EntryOf
  <2>4. Agree(<<i, 0>>, d) /\ EntryAt(<<i, 0>>).upstream # ""
    BY <2>1, EntryOf DEF Agree, OwnDecl
  <2> QED
    BY <2>2, <2>3, <2>4 DEF Pushed
<1>2. CASE \E s \in ToSet(raw.sites) : \E u \in ToSet(s.sub) :
              /\ SameName(u.name \o s.domain, name)
              /\ d = SubDecl(s, u) /\ d.upstream # ""
  <2>0. PICK i \in DOMAIN raw.sites : \E u \in ToSet(raw.sites[i].sub) :
           /\ SameName(u.name \o raw.sites[i].domain, name)
           /\ d = SubDecl(raw.sites[i], u) /\ d.upstream # ""
    BY <1>2 DEF ToSet
  <2>1. PICK j \in DOMAIN raw.sites[i].sub :
           /\ SameName(raw.sites[i].sub[j].name \o raw.sites[i].domain, name)
           /\ d = SubDecl(raw.sites[i], raw.sites[i].sub[j]) /\ d.upstream # ""
    BY <2>0 DEF ToSet
  <2>2. <<i, j>> \in Places
    BY PlacesOf
  <2>3. j # 0
    BY SiteParts, LenProperties
  <2>4. raw.sites[i].sub[j].name \o raw.sites[i].domain \in Name
    <3>1. raw.sites[i].domain \in Name /\ raw.sites[i].sub[j].name \in Name
      BY SiteParts, SubParts
    <3> QED
      BY <3>1, ConcatProperties DEF Name
  <2>5. EntryAt(<<i, j>>).domain = NormalizeHost(name)
    <3>1. EntryAt(<<i, j>>).domain =
             NormalizeHost(raw.sites[i].sub[j].name \o raw.sites[i].domain)
      BY <2>3, EntryOf
    <3>2. NormalizeHost(raw.sites[i].sub[j].name \o raw.sites[i].domain) = NormalizeHost(name)
      BY <2>1, <2>4, SameIsNormal
    <3> QED
      BY <3>1, <3>2
  <2>6. Agree(<<i, j>>, d) /\ EntryAt(<<i, j>>).upstream # ""
    BY <2>1, <2>3, EntryOf DEF Agree, SubDecl
  <2> QED
    BY <2>2, <2>5, <2>6 DEF Pushed
<1> QED
  BY <1>1, <1>2, DeclaredOf

(* ... and nothing else is.                                                 *)
LEMMA PushedIsDeclared ==
    ASSUME raw \in RawConfigs, NEW name \in Name, NEW p \in Pushed,
           EntryAt(p).domain = NormalizeHost(name)
    PROVE  \E d \in Declared(name) : Agree(p, d)
<1>0. PICK i \in DOMAIN raw.sites : \E j \in {0} \cup DOMAIN raw.sites[i].sub : p = <<i, j>>
  BY PlacesOf DEF Pushed
<1>1. PICK j \in {0} \cup DOMAIN raw.sites[i].sub : p = <<i, j>>
  BY <1>0
<1>2. EntryAt(p).upstream # ""
  BY DEF Pushed
<1>3. raw.sites[i] \in ToSet(raw.sites) /\ raw.sites[i].domain \in Name
  BY SiteParts DEF ToSet
<1>4. CASE j = 0
  <2> DEFINE d == OwnDecl(raw.sites[i])
  <2>1. raw.sites[i].upstream # "" /\ SameName(raw.sites[i].domain, name)
    BY <1>1, <1>2, <1>3, <1>4, EntryOf, SameIsNormal
  <2>2. d \in Declared(name)
    BY <1>3, <2>1, DeclaredOf
  <2>3. Agree(p, d)
    BY <1>1, <1>4, EntryOf DEF Agree, OwnDecl
  <2> QED
    BY <2>2, <2>3
<1>5. CASE j # 0
  <2> DEFINE u == raw.sites[i].sub[j]
             d == SubDecl(raw.sites[i], u)
  <2>1. j \in DOMAIN raw.sites[i].sub /\ u \in ToSet(raw.sites[i].sub) /\ u.name \in Name
    BY <1>1, <1>5, SiteParts, SubParts DEF ToSet
  <2>2. u.name \o raw.sites[i].domain \in Name
    BY <1>3, <2>1, ConcatProperties DEF Name
  <2>3. SameName(u.name \o raw.sites[i].domain, name)
    BY <1>1, <1>5, <2>2, EntryOf, SameIsNormal
  <2>4. d.upstream # "" /\ Agree(p, d)
    BY <1>1, <1>2, <1>5, EntryOf DEF Agree, SubDecl
  <2>5. d \in Declared(name)
    BY <1>3, <2>1, <2>3, <2>4, DeclaredOf
  <2> QED
    BY <2>4, <2>5
<1> QED
  BY <1>4, <1>5

(* What is up serves the entries of a usable file.                          *)
SitesInv ==
    /\ raw \in RawConfigs
    /\ up = "up" => Usable /\ sites = {EntryAt(p) : p \in Pushed}

LEMMA SitesInvHolds == Spec => []SitesInv
<1>1. Init => SitesInv
  BY DEF Init, SitesInv
<1>2. SitesInv /\ [Next]_vars => SitesInv'
  <2> SUFFICES ASSUME SitesInv, [Next]_vars PROVE SitesInv'
    OBVIOUS
  <2>0. UNCHANGED raw
    BY DEF Next, Expand, Panic, Restart, Issue, Hello, Route, vars, confVars
  <2>a. UNCHANGED <<Usable, Pushed, {EntryAt(p) : p \in Pushed}>>
    BY <2>0 DEF Usable, Pushed, Places, EntryAt
  <2>1. CASE Expand
    <3>1. up' = "up" => Usable /\ sites' = {EntryAt(p) : p \in Pushed}
      BY <2>1 DEF Expand
    <3> QED
      BY <2>0, <2>a, <3>1 DEF SitesInv
  <2>2. CASE Panic \/ Restart
    BY <2>0, <2>2 DEF Panic, Restart, SitesInv
  <2>3. CASE UNCHANGED <<raw, up, sites>>
    BY <2>a, <2>3 DEF SitesInv
  <2> QED
    BY <2>1, <2>2, <2>3 DEF Next, Issue, Hello, Route, vars, confVars
<1> QED
  BY <1>1, <1>2, PTL DEF Spec

(* A served name has one entry, and it says what every declaration of the   *)
(* name says.                                                               *)
LEMMA ServedAsDeclared ==
    ASSUME SitesInv, up = "up", NEW name \in Name
    PROVE  /\ SiteForHost(name) = {} <=> Declared(name) = {}
           /\ \A s \in SiteForHost(name) : \A d \in Declared(name) :
                 s.upstream = d.upstream /\ s.bypass = d.bypass
<1>1. raw \in RawConfigs /\ Usable /\ sites = {EntryAt(p) : p \in Pushed}
  BY DEF SitesInv
<1>2. \A s : s \in SiteForHost(name) <=>
                \E p \in Pushed : s = EntryAt(p) /\ EntryAt(p).domain = NormalizeHost(name)
  BY <1>1 DEF SiteForHost
<1>3. ASSUME NEW s \in SiteForHost(name) PROVE Declared(name) # {}
  BY <1>1, <1>2, <1>3, PushedIsDeclared
<1>4. ASSUME NEW d \in Declared(name) PROVE SiteForHost(name) # {}
  BY <1>1, <1>2, <1>4, DeclaredIsPushed
<1>5. ASSUME NEW s \in SiteForHost(name), NEW d \in Declared(name)
      PROVE  s.upstream = d.upstream /\ s.bypass = d.bypass
  <2>1. PICK p \in Pushed : s = EntryAt(p) /\ EntryAt(p).domain = NormalizeHost(name)
    BY <1>2, <1>5
  <2>2. PICK q \in Pushed : EntryAt(q).domain = NormalizeHost(name) /\ Agree(q, d)
    BY <1>1, <1>5, DeclaredIsPushed
  <2>3. p = q
    BY <1>1, <2>1, <2>2 DEF Usable
  <2> QED
    BY <2>1, <2>2, <2>3 DEF Agree
<1> QED
  BY <1>3, <1>4, <1>5

-----------------------------------------------------------------------------
LEMMA RoutedOtherwise ==
    ASSUME RoutedToOwn, UNCHANGED <<raw, last>>
    PROVE  RoutedToOwn'
BY DEF RoutedToOwn, Declared

LEMMA RouteStep ==
    ASSUME SitesInv, NEW host \in Asked, NEW path, Route(host, path)
    PROVE  RoutedToOwn'
<1> DEFINE found == SiteForHost(host)
           site == CHOOSE s \in found : TRUE
           other == raw.catchall
           ds == Declared(host)
<1>1. up = "up" /\ host \in Name /\ UNCHANGED raw
  BY AskedAssumption DEF Route
<1>2. /\ found = {} <=> ds = {}
      /\ \A s \in found : \A d \in ds : s.upstream = d.upstream /\ s.bypass = d.bypass
  BY <1>1, ServedAsDeclared
<1>3. /\ last'.kind = "route" /\ last'.name = host /\ last'.path = path
      /\ last'.upstream = CASE found # {} -> site.upstream
                            [] found = {} /\ other # Unset -> other.upstream
                            [] OTHER -> Unset
      /\ last'.bypassed = (\/ found # {} /\ path \in site.bypass
                           \/ other # Unset /\ path \in other.bypass)
  BY DEF Route
<1>4. UNCHANGED ds /\ UNCHANGED other
  BY <1>1 DEF Declared
<1>5. Declared(last.name)' = ds
  BY <1>1, <1>3 DEF Declared
<1> SUFFICES
      /\ \A d \in ds : last'.upstream = d.upstream
      /\ ds = {} => last'.upstream = IF other = Unset THEN Unset ELSE other.upstream
      /\ last'.bypassed <=> \/ \E d \in ds : path \in d.bypass
                            \/ other # Unset /\ path \in other.bypass
  BY <1>3, <1>4, <1>5 DEF RoutedToOwn
<1> HIDE DEF found, ds, other
<1>6. CASE found = {}
  BY <1>2, <1>3, <1>6
<1>7. CASE found # {}
  <2>1. site \in found
    BY <1>7
  <2> HIDE DEF site
  <2>2. last'.upstream = site.upstream
    BY <1>3, <1>7
  <2>3. \A d \in ds : site.upstream = d.upstream /\ site.bypass = d.bypass
    BY <1>2, <2>1
  <2>4. ds # {}
    BY <1>2, <1>7
  <2> QED
    BY <1>3, <1>7, <2>2, <2>3, <2>4
<1> QED
  BY <1>6, <1>7

(* For every file that expands: a request goes where the file says for its  *)
(* Host, however the two are spelt and in whatever order the blocks come,   *)
(* and skips the challenge on the declared paths only.                      *)
THEOREM RoutingIsTheFiles == Spec => []RoutedToOwn
<1>1. Init => RoutedToOwn
  BY DEF Init, Nothing, RoutedToOwn
<1>2. SitesInv /\ RoutedToOwn /\ [Next]_vars => RoutedToOwn'
  <2> SUFFICES ASSUME SitesInv, RoutedToOwn, [Next]_vars PROVE RoutedToOwn'
    OBVIOUS
  <2>1. CASE Expand \/ Panic
    BY <2>1, RoutedOtherwise DEF Expand, Panic
  <2>2. CASE Restart
    BY <2>2 DEF Restart, Nothing, RoutedToOwn
  <2>3. ASSUME NEW g, Issue(g) PROVE RoutedToOwn'
    BY <2>3, RoutedOtherwise DEF Issue
  <2>4. ASSUME NEW name, Hello(name) PROVE RoutedToOwn'
    <3>1. last'.kind = "hello"
      BY <2>4 DEF Hello
    <3> QED
      BY <3>1 DEF RoutedToOwn
  <2>5. ASSUME NEW host \in Asked, NEW path, Route(host, path) PROVE RoutedToOwn'
    BY <2>5, RouteStep
  <2>6. CASE UNCHANGED vars
    BY <2>6, RoutedOtherwise DEF vars, confVars
  <2> QED
    BY <2>1, <2>2, <2>3, <2>4, <2>5, <2>6 DEF Next
<1> QED
  BY <1>1, <1>2, SitesInvHolds, PTL DEF Spec

-----------------------------------------------------------------------------
(* Certificates.  A domain spelt as it is compared ends in a label, and is  *)
(* in lower case.                                                           *)
LEMMA SpeltDomain ==
    ASSUME NEW D \in Name, HasLabel(D), NormalizeHost(D) = D
    PROVE  /\ Len(D) \in Nat \ {0} /\ D[Len(D)] # ""
           /\ \A i \in 1..Len(D) : Lower[D[i]] = D[i]
<1>1. PICK L \in Nat : L = Len(D) /\ DOMAIN D = 1..L
  BY DEF Name
<1>2. PICK n \in 0..L : /\ NormalizeHost(D) = [i \in 1..n |-> Lower[D[i]]]
                        /\ n # 0 => D[n] # ""
  BY <1>1, NormalForm
<1>3. 1..n = 1..L
  BY <1>1, <1>2
<1>4. n = L
  BY <1>3
<1>5. L # 0
  <2>1. PICK i \in 1..L : TRUE
    BY <1>1 DEF HasLabel
  <2> QED
    BY <2>1
<1>6. \A i \in 1..L : Lower[D[i]] = D[i]
  BY <1>2, <1>4
<1> QED
  BY <1>1, <1>2, <1>4, <1>5, <1>6

(* One label put before a sequence.                                         *)
LEMMA Prefixed ==
    ASSUME NEW l \in DOMAIN Lower, NEW D \in Name
    PROVE  /\ <<l>> \o D \in Name
           /\ Len(<<l>> \o D) = Len(D) + 1
           /\ (<<l>> \o D)[1] = l
           /\ \A i \in 1..Len(D) : (<<l>> \o D)[i + 1] = D[i]
BY DEF Name

LEMMA NormalBelow ==
    ASSUME NEW l \in DOMAIN Lower, NEW D \in Name, HasLabel(D), NormalizeHost(D) = D
    PROVE  NormalizeHost(<<l>> \o D) = <<Lower[l]>> \o D
<1>1. PICK L \in Nat \ {0} : L = Len(D)
  BY SpeltDomain
<1>2. PICK E \in Name : E = <<l>> \o D
  BY Prefixed
<1>3. Len(E) = L + 1 /\ E[1] = l /\ \A i \in 1..L : E[i + 1] = D[i]
  BY <1>1, <1>2, Prefixed
<1>4. PICK n \in 0..(L + 1) : /\ NormalizeHost(E) = [i \in 1..n |-> Lower[E[i]]]
                              /\ \A i \in n + 1 .. L + 1 : E[i] = ""
  BY <1>3, NormalForm
<1>5. E[L + 1] # ""
  <2>1. D[L] # ""
    BY <1>1, SpeltDomain
  <2>2. L \in 1..L
    OBVIOUS
  <2> QED
    BY <1>3, <2>1, <2>2
<1>6. n = L + 1
  <2> SUFFICES ASSUME n # L + 1 PROVE FALSE
    OBVIOUS
  <2>1. L + 1 \in n + 1 .. L + 1
    OBVIOUS
  <2> QED
    BY <1>4, <1>5, <2>1
<1>7. PICK m \in DOMAIN Lower : m = Lower[l]
  BY LowerAssumption
<1>a. PICK F \in Name : F = <<m>> \o D
  BY Prefixed
<1>8. Len(F) = L + 1 /\ F[1] = m /\ \A i \in 1..L : F[i + 1] = D[i]
  BY <1>1, <1>a, Prefixed
<1>9. ASSUME NEW i \in 1..(L + 1) PROVE Lower[E[i]] = F[i]
  <2>1. CASE i = 1
    BY <1>3, <1>7, <1>8, <2>1
  <2>2. CASE i # 1
    <3>1. i - 1 \in 1..L /\ (i - 1) + 1 = i
      BY <2>2
    <3>2. E[i] = D[i - 1] /\ F[i] = D[i - 1]
      BY <1>3, <1>8, <3>1
    <3>3. Lower[D[i - 1]] = D[i - 1]
      BY <1>1, <3>1, SpeltDomain
    <3> QED
      BY <3>2, <3>3
  <2> QED
    BY <2>1, <2>2
<1>10. F = [i \in 1..(L + 1) |-> F[i]]
  BY <1>8 DEF Name
<1> QED
  BY <1>2, <1>4, <1>6, <1>7, <1>a, <1>9, <1>10

(* The resolver finds a certificate at least as close as any there is.      *)
LEMMA ResolveFinds ==
    ASSUME NEW N \in Name, NEW k \in 1..Len(N), NEW c \in certs,
           c.key = SubSeq(N, k, Len(N))
    PROVE  \E at \in 1..k : /\ Resolve(N) \in certs
                            /\ Resolve(N).key = SubSeq(N, at, Len(N))
<1> DEFINE keys == {i \in 1..Len(N) : \E d \in certs : d.key = SubSeq(N, i, Len(N))}
           at == CHOOSE i \in keys : \A j \in keys : i <= j
<1>1. keys \in SUBSET Nat /\ k \in keys
  OBVIOUS
<1>2. Resolve(N) = CHOOSE d \in certs : d.key = SubSeq(N, at, Len(N))
  BY <1>1 DEF Resolve
<1>3. \E i \in keys : \A j \in keys : i <= j
  <2> HIDE DEF keys
  <2> QED
    BY <1>1, LeastOf
<1>4. at \in keys /\ \A j \in keys : at <= j
  <2> HIDE DEF keys
  <2> QED
    BY <1>3
<1>5. at \in 1..Len(N) /\ \E d \in certs : d.key = SubSeq(N, at, Len(N))
  BY <1>4
<1>6. at <= k
  BY <1>1, <1>4
<1> HIDE DEF at
<1>7. at \in 1..k
  BY <1>5, <1>6
<1> QED
  BY <1>2, <1>5, <1>7

LEMMA GroupsOf ==
    ASSUME NEW g \in Groups
    PROVE  /\ \E s \in ToSet(raw.sites) : g.key = s.domain
           /\ g = Group(g.key) /\ g.key \in g.names
           /\ \A s \in ToSet(raw.sites) :
                 s.domain = g.key /\ s.sub # <<>> => <<"*">> \o g.key \in g.names
<1>1. PICK s \in ToSet(raw.sites) : g = Group(s.domain)
  BY DEF Groups
<1>2. g.key = s.domain
  BY <1>1 DEF Group
<1>3. g = Group(g.key)
  BY <1>1, <1>2
<1>4. g.key \in g.names
  BY <1>1, <1>2 DEF Group
<1>5. ASSUME NEW t \in ToSet(raw.sites), t.domain = g.key, t.sub # <<>>
      PROVE  <<"*">> \o g.key \in g.names
  BY <1>1, <1>2, <1>5 DEF Group
<1> QED
  BY <1>2, <1>3, <1>4, <1>5

(* The name below a domain's wildcard is the domain's.                      *)
LEMMA BelowIsSame ==
    ASSUME NEW l \in DOMAIN Lower, NEW D \in Name, NEW h \in Name, h # <<>>,
           SameName(<<l>> \o D, h)
    PROVE  SameName(D, Tail(h))
<1>1. PICK E \in Name : E = <<l>> \o D
  BY Prefixed
<1>2. PICK L \in Nat : L = Len(D) /\ DOMAIN D = 1..L
  BY DEF Name
<1>3. DOMAIN E = 1..(L + 1) /\ \A i \in 1..L : E[i + 1] = D[i]
  <2>1. Len(E) = L + 1 /\ \A i \in 1..L : E[i + 1] = D[i]
    BY <1>1, <1>2, Prefixed
  <2> QED
    BY <2>1 DEF Name
<1>4. PICK M \in Nat \ {0} : DOMAIN h = 1..M
  BY EmptySeq, LenProperties DEF Name
<1>5. PICK t \in Name : t = Tail(h)
  BY HeadTailProperties DEF Name
<1>6. DOMAIN t = 1..(M - 1) /\ \A i \in 1..(M - 1) : t[i] = h[i + 1]
  BY <1>4, <1>5 DEF Name
<1>7. ASSUME NEW i \in Nat \ {0} PROVE Label(D, i) = Label(t, i)
  <2>1. Label(E, i + 1) = Label(h, i + 1)
    BY <1>1, SameLabels
  <2>2. i \in 1..L <=> i + 1 \in 1..(L + 1)
    OBVIOUS
  <2>3. i \in 1..(M - 1) <=> i + 1 \in 1..M
    OBVIOUS
  <2>4. Label(D, i) = Label(E, i + 1)
    BY <1>2, <1>3, <2>2 DEF Label
  <2>5. Label(t, i) = Label(h, i + 1)
    BY <1>4, <1>6, <2>3 DEF Label
  <2> QED
    BY <2>1, <2>4, <2>5
<1> QED
  BY <1>5, <1>7, SameLabels

LEMMA BlockParts ==
    ASSUME raw \in RawConfigs, NEW s \in ToSet(raw.sites)
    PROVE  s.domain \in Name /\ HasLabel(s.domain) /\ s.sub \in Seq(SubToml)
<1>1. PICK i \in DOMAIN raw.sites : s = raw.sites[i]
  BY DEF ToSet
<1> QED
  BY <1>1, SiteParts

LEMMA GroupIsSet ==
    ASSUME raw \in RawConfigs, NEW g \in Groups
    PROVE  g # Unset
<1>1. PICK s \in ToSet(raw.sites) : g = Group(s.domain)
  BY DEF Groups
<1>2. s.domain \in Name
  BY <1>1, BlockParts
<1>3. <<"*">> \o s.domain \in Name
  BY <1>2, Prefixed, LowerAssumption
<1>4. Group(s.domain) \in [key : Name, names : SUBSET Name]
  BY <1>2, <1>3 DEF Group
<1> QED
  BY <1>1, <1>4, ConfigAssumption

Spelt == \A s \in ToSet(raw.sites) : NormalizeHost(s.domain) = s.domain

LEMMA OneLabel ==
    ASSUME NEW b \in Name, Len(b) = 1
    PROVE  b[1] \in DOMAIN Lower /\ b = <<b[1]>>
<1>1. b[1] \in DOMAIN Lower /\ DOMAIN b = 1..1
  BY DEF Name
<1>2. b = [i \in 1..1 |-> b[i]]
  BY <1>1 DEF Name
<1> QED
  BY <1>1, <1>2

(* A declaration is of a domain, or puts one label before it.               *)
LEMMA ShallowDeclared ==
    ASSUME raw \in RawConfigs, NEW name \in Name, NEW d \in Declared(name), d.depth <= 1
    PROVE  \/ \E s \in ToSet(raw.sites) : SameName(s.domain, name)
           \/ \E s \in ToSet(raw.sites) : \E l \in DOMAIN Lower :
                 s.sub # <<>> /\ SameName(<<l>> \o s.domain, name)
<1>1. CASE \E s \in ToSet(raw.sites) :
              s.upstream # "" /\ SameName(s.domain, name) /\ d = OwnDecl(s)
  BY <1>1
<1>2. CASE \E s \in ToSet(raw.sites) : \E u \in ToSet(s.sub) :
              /\ SameName(u.name \o s.domain, name)
              /\ d = SubDecl(s, u) /\ d.upstream # ""
  <2>1. PICK s \in ToSet(raw.sites) : \E u \in ToSet(s.sub) :
           SameName(u.name \o s.domain, name) /\ d = SubDecl(s, u)
    BY <1>2
  <2>2. PICK u \in ToSet(s.sub) : SameName(u.name \o s.domain, name) /\ d = SubDecl(s, u)
    BY <2>1
  <2>3. PICK t \in Seq(SubToml) : t = s.sub
    BY BlockParts
  <2>4. PICK j \in DOMAIN t : u = t[j]
    BY <2>2, <2>3 DEF ToSet
  <2>5. PICK b \in Name : b = u.name
    BY <2>4, SubParts
  <2>6. Len(b) = 0 \/ Len(b) = 1
    <3>1. PICK n \in Nat : n = Len(b)
      BY LenProperties DEF Name
    <3>2. n <= 1
      BY <2>2, <2>5, <3>1 DEF SubDecl
    <3>3. n = 0 \/ n = 1
      BY <3>2
    <3> QED
      BY <3>1, <3>3
  <2>7. s.domain \in Name
    BY BlockParts
  <2>8. CASE Len(b) = 0
    <3>1. b \o s.domain = s.domain
      <4>1. b = <<>>
        BY <2>8, EmptySeq DEF Name
      <4> QED
        BY <2>7, <4>1, ConcatEmptySeq DEF Name
    <3> QED
      BY <2>2, <2>5, <3>1
  <2>9. CASE Len(b) = 1
    <3>1. b[1] \in DOMAIN Lower /\ b = <<b[1]>>
      BY <2>9, OneLabel
    <3>2. t # <<>>
      BY <2>4
    <3> QED
      BY <2>2, <2>3, <2>5, <3>1, <3>2
  <2> QED
    BY <2>6, <2>8, <2>9
<1> QED
  BY <1>1, <1>2, DeclaredOf

LEMMA WholeIsSuffix ==
    ASSUME NEW N \in Name
    PROVE  SubSeq(N, 1, Len(N)) = N
BY DEF Name

LEMMA BelowIsSuffix ==
    ASSUME NEW l \in DOMAIN Lower, NEW D \in Name
    PROVE  SubSeq(<<l>> \o D, 2, Len(<<l>> \o D)) = D
BY DEF Name

LEMMA ResolvedCovers ==
    ASSUME raw \in RawConfigs, certs = Groups, Spelt,
           NEW name \in Name, NEW d \in Declared(name), d.depth <= 1
    PROVE  LET cert == Resolve(NormalizeHost(name))
           IN  cert # Unset /\ Covers(cert, name)
<1>0. PICK N : N = NormalizeHost(name)
  OBVIOUS
<1>1. PICK cert : cert = Resolve(N)
  OBVIOUS
<1>2. SUFFICES cert \in certs /\ Covers(cert, name)
  BY <1>0, <1>1, GroupIsSet
<1>3. ASSUME NEW c \in certs, c.key = N PROVE Covers(c, name)
  <2>1. PICK s \in ToSet(raw.sites) : c.key = s.domain
    BY GroupsOf
  <2>2. N \in Name /\ NormalizeHost(N) = N
    BY <1>3, <2>1, BlockParts DEF Spelt
  <2>3. SameName(N, name)
    BY <1>0, <2>2, SameIsNormal
  <2>4. N \in c.names
    BY <1>3, GroupsOf
  <2> QED
    BY <2>3, <2>4 DEF Covers
<1>4. ASSUME NEW s \in ToSet(raw.sites)
      PROVE  /\ s.domain \in Name /\ HasLabel(s.domain) /\ NormalizeHost(s.domain) = s.domain
             /\ Group(s.domain) \in certs /\ Group(s.domain).key = s.domain
  BY BlockParts DEF Spelt, Groups, Group
<1>5. CASE \E s \in ToSet(raw.sites) : SameName(s.domain, name)
  <2>1. PICK s \in ToSet(raw.sites) : SameName(s.domain, name)
    BY <1>5
  <2>2. s.domain = N /\ N \in Name
    BY <1>0, <1>4, <2>1, SameIsNormal
  <2>3. 1 \in 1..Len(N)
    <3>1. PICK L \in Nat \ {0} : L = Len(N)
      BY <1>4, <2>2, SpeltDomain
    <3> QED
      BY <3>1
  <2>4. PICK at \in 1..1 : cert \in certs /\ cert.key = SubSeq(N, at, Len(N))
    BY <1>1, <1>4, <2>2, <2>3, WholeIsSuffix, ResolveFinds
  <2>5. cert.key = N
    BY <2>2, <2>4, WholeIsSuffix
  <2> QED
    BY <1>3, <2>4, <2>5
<1>6. CASE \E s \in ToSet(raw.sites) : \E l \in DOMAIN Lower :
              s.sub # <<>> /\ SameName(<<l>> \o s.domain, name)
  <2>1. PICK s \in ToSet(raw.sites) : \E l \in DOMAIN Lower :
           s.sub # <<>> /\ SameName(<<l>> \o s.domain, name)
    BY <1>6
  <2>2. PICK l \in DOMAIN Lower : s.sub # <<>> /\ SameName(<<l>> \o s.domain, name)
    BY <2>1
  <2>3. PICK D \in Name : D = s.domain /\ HasLabel(D) /\ NormalizeHost(D) = D
    BY <1>4
  <2>4. N = <<Lower[l]>> \o D
    <3>1. NormalizeHost(<<l>> \o D) = NormalizeHost(name)
      BY <2>2, <2>3, Prefixed, SameIsNormal
    <3> QED
      BY <1>0, <2>3, <3>1, NormalBelow
  <2>5. PICK m \in DOMAIN Lower : m = Lower[l]
    BY LowerAssumption
  <2>6. N \in Name /\ SubSeq(N, 2, Len(N)) = D
    BY <2>4, <2>5, Prefixed, BelowIsSuffix
  <2>7. 2 \in 1..Len(N)
    <3>1. PICK L \in Nat \ {0} : L = Len(D)
      BY <2>3, SpeltDomain
    <3>2. Len(N) = L + 1
      BY <2>4, <2>5, <3>1, Prefixed
    <3> QED
      BY <3>2
  <2>8. PICK at \in 1..2 : cert \in certs /\ cert.key = SubSeq(N, at, Len(N))
    BY <1>1, <1>4, <2>3, <2>6, <2>7, ResolveFinds
  <2>9. CASE at = 1
    BY <1>3, <2>6, <2>8, <2>9, WholeIsSuffix
  <2>10. CASE at = 2
    <3>1. cert.key = D
      BY <2>6, <2>8, <2>10
    <3>2. <<"*">> \o D \in cert.names
      BY <2>2, <2>3, <2>8, <3>1, GroupsOf
    <3>3. name # <<>>
      <4> SUFFICES ASSUME name = <<>> PROVE FALSE
        OBVIOUS
      <4>1. PICK n \in 0..Len(name) : N = [i \in 1..n |-> Lower[name[i]]]
        BY <1>0, NormalForm
      <4>2. Len(N) = 0
        BY <4>1
      <4> QED
        BY <2>7, <4>2
    <3>4. SameName(D, Tail(name))
      BY <2>2, <2>3, <3>3, BelowIsSame
    <3>5. (<<"*">> \o D)[1] = "*" /\ Tail(<<"*">> \o D) = D
      BY DEF Name
    <3> QED
      BY <2>8, <3>2, <3>4, <3>5 DEF Covers
  <2> QED
    BY <2>8, <2>9, <2>10
<1> QED
  BY <1>5, <1>6, ShallowDeclared

(* Without a trailing dot, the name the resolver is asked for is the name   *)
(* as it is compared.                                                       *)
LEMMA UndottedIsNormal ==
    ASSUME NEW h \in Name, Undotted(h)
    PROVE  LowerCase(h) = NormalizeHost(h)
<1>1. PICK L \in Nat : L = Len(h) /\ DOMAIN h = 1..L
  BY DEF Name
<1>2. L # 0 /\ h[L] # ""
  BY <1>1, EmptySeq DEF Undotted, Last, Name
<1>3. PICK n \in 0..L : /\ NormalizeHost(h) = [i \in 1..n |-> Lower[h[i]]]
                        /\ \A i \in n + 1 .. L : h[i] = ""
  BY <1>1, NormalForm
<1>4. n = L
  <2> SUFFICES ASSUME n # L PROVE FALSE
    OBVIOUS
  <2>1. L \in n + 1 .. L
    OBVIOUS
  <2> QED
    BY <1>2, <1>3, <2>1
<1> QED
  BY <1>1, <1>3, <1>4 DEF LowerCase

LEMMA HelloStep ==
    ASSUME SitesInv, NEW name \in Asked, Hello(name)
    PROVE  CertificateFits'
<1>1. /\ up = "up" /\ UNCHANGED <<raw, sites>> /\ raw \in RawConfigs /\ name \in Name
      /\ last'.name = name /\ last'.had = certs
      /\ last'.cert = IF SiteForHost(name) # {} \/ raw.catchall # Unset
                      THEN Resolve(LowerCase(name)) ELSE Unset
  BY AskedAssumption DEF Hello, SitesInv
<1>2. UNCHANGED <<Spelt, Groups>> /\ Declared(last.name)' = Declared(name)
  BY <1>1 DEF Spelt, Groups, Group, Declared
<1>3. SUFFICES ASSUME Spelt, certs = Groups, Undotted(name),
                      NEW d \in Declared(name), d.depth <= 1
               PROVE  last'.cert # Unset /\ Covers(last'.cert, name)
  BY <1>1, <1>2 DEF CertificateFits, Spelt
<1>4. SiteForHost(name) # {}
  BY <1>1, ServedAsDeclared
<1>5. last'.cert = Resolve(NormalizeHost(name))
  BY <1>1, <1>3, <1>4, UndottedIsNormal
<1> QED
  BY <1>1, <1>3, <1>5, ResolvedCovers

(* For every file spelt as names are compared, with a certificate for each  *)
(* of its groups: a hello without a trailing dot, for a name it serves at   *)
(* most one label below a domain, gets a certificate good for that name,    *)
(* whichever domains of the file lie within one another.                    *)
THEOREM HelloGetsFittingCertificate == Spec => []CertificateFits
<1>1. Init => CertificateFits
  BY DEF Init, Nothing, CertificateFits
<1>2. SitesInv /\ CertificateFits /\ [Next]_vars => CertificateFits'
  <2> SUFFICES ASSUME SitesInv, CertificateFits, [Next]_vars PROVE CertificateFits'
    OBVIOUS
  <2>1. CASE UNCHANGED <<raw, last>>
    BY <2>1 DEF CertificateFits, Declared, Groups, Group
  <2>2. CASE Restart
    BY <2>2 DEF Restart, Nothing, CertificateFits
  <2>3. ASSUME NEW name \in Asked, Hello(name) PROVE CertificateFits'
    BY <2>3, HelloStep
  <2>4. ASSUME NEW host, NEW path, Route(host, path) PROVE CertificateFits'
    <3>1. last'.kind = "route"
      BY <2>4 DEF Route
    <3> QED
      BY <3>1 DEF CertificateFits
  <2>5. CASE Expand \/ Panic \/ (\E g \in Groups : Issue(g)) \/ UNCHANGED vars
    BY <2>1, <2>5 DEF Expand, Panic, Issue, vars, confVars
  <2> QED
    BY <2>2, <2>3, <2>4, <2>5 DEF Next
<1> QED
  BY <1>1, <1>2, SitesInvHolds, PTL DEF Spec

=============================================================================
