--------------------------- MODULE ConnectionProofs ---------------------------
(* Proofs about Connection and the parts it is composed of, for any requests, *)
(* segments, documents, frames and caps.                                      *)
EXTENDS Connection, SequenceTheorems, WellFoundedInduction, TLAPS

-----------------------------------------------------------------------------
(* The front of a sequence.                                                   *)
LEMMA FrontSeq ==
    ASSUME NEW S, NEW s \in Seq(S), NEW n \in 0..Len(s)
    PROVE  /\ SubSeq(s, 1, n) \in Seq(S) /\ Len(SubSeq(s, 1, n)) = n
           /\ \A i \in 1..n : SubSeq(s, 1, n)[i] = s[i]
<1> DEFINE b == SubSeq(s, 1, n)
<1>1. Len(s) \in Nat /\ n \in Nat /\ n <= Len(s)
  BY LenProperties
<1>2. \A i \in 1..n : s[i] \in S
  BY <1>1, ElementOfSeq
<1>3. 1 \in Int /\ n \in Int
  BY <1>1
<1>4. /\ b \in Seq(S) /\ Len(b) = IF 1 <= n THEN n - 1 + 1 ELSE 0
      /\ \A i \in 1..(n - 1 + 1) : b[i] = s[1 + i - 1]
  BY <1>2, <1>3, SubSeqProperties
<1> HIDE DEF b
<1>5. Len(b) = n
  BY <1>4, <1>1
<1>6. ASSUME NEW i \in 1..n PROVE b[i] = s[i]
  <2>1. i \in 1..(n - 1 + 1) /\ 1 + i - 1 = i
    BY <1>1
  <2> QED BY <1>4, <2>1
<1>7. b \in Seq(S) /\ Len(b) = n /\ \A i \in 1..n : b[i] = s[i]
  BY <1>4, <1>5, <1>6
<1> QED BY <1>7 DEF b

LEMMA FrontOfFront ==
    ASSUME NEW S, NEW s \in Seq(S), NEW n \in 0..Len(s), NEW k \in 0..n
    PROVE  SubSeq(SubSeq(s, 1, n), 1, k) = SubSeq(s, 1, k)
<1> DEFINE b == SubSeq(s, 1, n)
           x == SubSeq(b, 1, k)
           y == SubSeq(s, 1, k)
<1>1. b \in Seq(S) /\ Len(b) = n /\ \A i \in 1..n : b[i] = s[i]
  BY FrontSeq
<1>2. Len(s) \in Nat /\ n \in Nat /\ k \in 0..Len(s) /\ k \in 0..Len(b) /\ k <= n
  BY <1>1, LenProperties
<1>3. y \in Seq(S) /\ Len(y) = k /\ \A i \in 1..k : y[i] = s[i]
  BY <1>2, FrontSeq
<1> HIDE DEF b
<1>4. x \in Seq(S) /\ Len(x) = k /\ \A i \in 1..k : x[i] = b[i]
  BY <1>1, <1>2, FrontSeq
<1> HIDE DEF x, y
<1>5. \A i \in 1..k : x[i] = y[i]
  BY <1>1, <1>2, <1>3, <1>4
<1>6. x = y
  BY <1>3, <1>4, <1>5, SeqEqual
<1> QED BY <1>6 DEF b, x, y

LEMMA FrontIsPrefix ==
    ASSUME NEW S, NEW s \in Seq(S), NEW n \in 0..Len(s)
    PROVE  IsPrefix(SubSeq(s, 1, n), s)
<1> DEFINE b == SubSeq(s, 1, n)
<1>1. Len(b) = n /\ n <= Len(s) /\ n \in 0..n
  BY FrontSeq, LenProperties
<1>2. SubSeq(b, 1, n) = b
  BY <1>1, FrontOfFront
<1> HIDE DEF b
<1>3. Len(b) <= Len(s) /\ SubSeq(b, 1, Len(b)) = SubSeq(s, 1, Len(b))
  BY <1>1, <1>2 DEF b
<1>4. IsPrefix(b, s)
  BY <1>3 DEF IsPrefix
<1> QED BY <1>4 DEF b

LEMMA FrontGrows ==
    ASSUME NEW S, NEW s \in Seq(S), NEW m \in 0..Len(s), NEW n \in m..Len(s)
    PROVE  /\ SubSeq(s, 1, m) \o SubSeq(s, m + 1, n) = SubSeq(s, 1, n)
           /\ n = m + 1 => Append(SubSeq(s, 1, m), s[m + 1]) = SubSeq(s, 1, n)
<1>1. Len(s) \in Nat
  BY LenProperties
<1>2. 1 \in 1..(Len(s) + 1) /\ m \in (1 - 1)..Len(s)
  BY <1>1
<1>3. SubSeq(s, 1, m) \o SubSeq(s, m + 1, n) = SubSeq(s, 1, n)
  BY <1>2, ConcatAdjacentSubSeq
<1>4. ASSUME n = m + 1 PROVE Append(SubSeq(s, 1, m), s[m + 1]) = SubSeq(s, 1, n)
  <2>1. n \in 1..Len(s) /\ 1 \in 1..Len(s) /\ n - 1 = m /\ m + 1 = n
    BY <1>1, <1>4
  <2>2. SubSeq(s, 1, n) = SubSeq(s, 1, n - 1) \o <<s[n]>>
    BY <2>1, SubSeqRecursiveSecond
  <2>3. SubSeq(s, 1, m) \in Seq(S) /\ s[n] \in S
    BY <2>1, FrontSeq, ElementOfSeq
  <2> DEFINE x == SubSeq(s, 1, m)
  <2> HIDE DEF x
  <2>4. Append(x, s[n]) = x \o <<s[n]>>
    BY <2>3, AppendIsConcat DEF x
  <2>5. SubSeq(s, 1, n) = SubSeq(s, 1, m) \o <<s[n]>>
    BY <2>1, <2>2
  <2> QED BY <2>1, <2>4, <2>5 DEF x
<1> QED BY <1>3, <1>4

(* A prefix is what comes before something else.                              *)
LEMMA PrefixOfConcat ==
    ASSUME NEW S, NEW a \in Seq(S), NEW b \in Seq(S)
    PROVE  IsPrefix(a, a \o b)
<1>1. Len(a) \in Nat /\ Len(b) \in Nat /\ a \o b \in Seq(S) /\ Len(a \o b) = Len(a) + Len(b)
  BY LenProperties, ConcatProperties
<1>2. SubSeq(a, 1, Len(a)) = SubSeq(a \o b, 1, Len(a))
  <2>1. CASE Len(a) = 0
    <3>1. 0 \in Int /\ 1 \in Int /\ 0 < 1
      OBVIOUS
    <3> QED BY <2>1, <3>1, SubSeqEmpty
  <2>2. CASE Len(a) # 0
    <3>1. 1 \in 1..Len(a) /\ Len(a) \in 1..Len(a)
      BY <1>1, <2>2
    <3> QED BY <3>1, SubSeqOfConcat1
  <2> QED BY <2>1, <2>2
<1>3. Len(a) <= Len(a \o b)
  BY <1>1
<1> QED BY <1>2, <1>3 DEF IsPrefix

(* What is read off the front of one sequence and put behind another.         *)
LEMMA Moved ==
    ASSUME NEW S, NEW a \in Seq(S), NEW b \in Seq(S), NEW n \in 0..Len(b)
    PROVE  /\ SubSeq(b, 1, n) \in Seq(S) /\ SubSeq(b, n + 1, Len(b)) \in Seq(S)
           /\ (a \o SubSeq(b, 1, n)) \o SubSeq(b, n + 1, Len(b)) = a \o b
<1>1. Len(b) \in Nat /\ \A i \in 1..Len(b) : b[i] \in S
  BY LenProperties, ElementOfSeq
<1>2. n \in Int /\ 1 \in Int /\ n + 1 \in Int /\ Len(b) \in Int
  BY <1>1
<1>3. (\A i \in 1..n : b[i] \in S) /\ (\A i \in (n + 1)..Len(b) : b[i] \in S)
  BY <1>1
<1>4. SubSeq(b, 1, n) \in Seq(S) /\ SubSeq(b, n + 1, Len(b)) \in Seq(S)
  BY <1>2, <1>3, SubSeqProperties
<1>5. SubSeq(b, 1, n) \o SubSeq(b, n + 1, Len(b)) = SubSeq(b, 1, Len(b))
  <2>1. 1 \in 1..(Len(b) + 1) /\ n \in (1 - 1)..Len(b) /\ Len(b) \in n..Len(b)
    BY <1>1
  <2> QED BY <2>1, ConcatAdjacentSubSeq
<1>6. SubSeq(b, 1, Len(b)) = b
  BY SubSeqFull
<1>7. (a \o SubSeq(b, 1, n)) \o SubSeq(b, n + 1, Len(b))
          = a \o (SubSeq(b, 1, n) \o SubSeq(b, n + 1, Len(b)))
  <2> DEFINE x == SubSeq(b, 1, n)
             y == SubSeq(b, n + 1, Len(b))
  <2>1. x \in Seq(S) /\ y \in Seq(S)
    BY <1>4
  <2> HIDE DEF x, y
  <2>2. (a \o x) \o y = a \o (x \o y)
    BY <2>1, ConcatAssociative, SMTT(60)
  <2> QED BY <2>2 DEF x, y
<1> QED BY <1>4, <1>5, <1>6, <1>7, Zenon

LEMMA MovedHead ==
    ASSUME NEW S, NEW a \in Seq(S), NEW b \in Seq(S), b # <<>>
    PROVE  /\ Head(b) \in S /\ Tail(b) \in Seq(S) /\ <<Head(b)>> \in Seq(S)
           /\ a \o <<Head(b)>> \in Seq(S)
           /\ (a \o <<Head(b)>>) \o Tail(b) = a \o b
<1>1. Len(b) \in Nat /\ Len(b) # 0
  BY EmptySeq, LenProperties
<1>2. 1 \in 1..Len(b) /\ Len(b) \in 1..Len(b)
  BY <1>1
<1>3. SubSeq(b, 1, Len(b)) = b /\ Tail(b) = SubSeq(b, 2, Len(b)) /\ Head(b) = b[1]
  <2>1. Head(SubSeq(b, 1, Len(b))) = b[1]
    BY <1>2, HeadTailOfSubSeq
  <2> QED BY <2>1, SubSeqFull, TailIsSubSeq
<1>4. b = <<Head(b)>> \o Tail(b)
  <2>1. SubSeq(b, 1, Len(b)) = <<b[1]>> \o SubSeq(b, 1 + 1, Len(b))
    BY <1>2, SubSeqRecursiveFirst
  <2>2. 1 + 1 = 2
    OBVIOUS
  <2> QED BY <2>1, <2>2, <1>3
<1>5. Head(b) \in S /\ Tail(b) \in Seq(S)
  BY HeadTailProperties
<1>6. <<Head(b)>> \in Seq(S)
  BY <1>5
<1> QED BY <1>4, <1>5, <1>6, ConcatAssociative, ConcatProperties

(* A piece that one side sends is behind all that it sent.                    *)
LEMMA SentBehind ==
    ASSUME NEW S, NEW a \in Seq(S), NEW b \in Seq(S), NEW c \in Seq(S), NEW p \in S,
           c = a \o b
    PROVE  Append(c, p) = a \o Append(b, p)
<1>1. a \o b \in Seq(S) /\ <<p>> \in Seq(S)
  BY ConcatProperties
<1>2. Append(c, p) = c \o <<p>> /\ Append(b, p) = b \o <<p>>
  BY AppendIsConcat
<1>3. (a \o b) \o <<p>> = a \o (b \o <<p>>)
  BY <1>1, ConcatAssociative
<1> QED BY <1>2, <1>3

-----------------------------------------------------------------------------
(* The relay.  Before the copies run nothing was passed on, and what the      *)
(* upstream sent is in the buffer and behind it; from then on what a side     *)
(* sent has been passed on but for what is still to be read.                  *)
(* What each side sees of RelayFlow.                                          *)
SideFlow(s) ==
    /\ copy[s] = "off" => got[Other(s)] = <<>>
    /\ copy[s] = "on" => rpc = "copy"
    /\ copy[s] # "off" /\ ~gone[Other(s)] =>
          sent[s] = got[Other(s)] \o inbox[s]
    /\ copy[s] = "eof" => inbox[s] = <<>> /\ shut[s]

RelayFlow ==
    /\ rpc \in {"off", "connect", "head"} =>
          /\ \A s \in Sides : copy[s] = "off"
          /\ sent["upstream"] = buf \o inbox["upstream"]
          /\ sent["client"] = <<>> /\ inbox["client"] = <<>>
    /\ \A s \in Sides : SideFlow(s)

RelayInv == RelayTypeOK /\ RelayFlow

LEMMA Both ==
    /\ "client" \in Sides /\ "upstream" \in Sides
    /\ \A s \in Sides : s = "client" \/ s = "upstream"
    /\ Other("client") = "upstream" /\ Other("upstream") = "client"
    /\ \A s \in Sides : Other(s) \in Sides /\ Other(s) # s /\ Other(Other(s)) = s
BY DEF Sides, Other

LEMMA RelayTypes ==
    RelayTypeOK <=>
        /\ rpc \in {"off", "connect", "head", "copy", "ended"}
        /\ strict \in BOOLEAN
        /\ sent \in [Sides -> Seq(Pieces)] /\ inbox \in [Sides -> Seq(Pieces)]
        /\ got \in [Sides -> Seq(Pieces)]
        /\ shut \in [Sides -> BOOLEAN] /\ gone \in [Sides -> BOOLEAN]
        /\ \A s \in Sides : gone[s] => shut[s]
        /\ buf \in Seq(Pieces)
        /\ copy \in [Sides -> {"off", "on", "eof", "error"}]
BY Zenon DEF RelayTypeOK

LEMMA RelayTypes2 ==
    RelayTypeOK' <=>
        /\ rpc' \in {"off", "connect", "head", "copy", "ended"}
        /\ strict' \in BOOLEAN
        /\ sent' \in [Sides -> Seq(Pieces)] /\ inbox' \in [Sides -> Seq(Pieces)]
        /\ got' \in [Sides -> Seq(Pieces)]
        /\ shut' \in [Sides -> BOOLEAN] /\ gone' \in [Sides -> BOOLEAN]
        /\ \A s \in Sides : gone'[s] => shut'[s]
        /\ buf' \in Seq(Pieces)
        /\ copy' \in [Sides -> {"off", "on", "eof", "error"}]
BY Zenon DEF RelayTypeOK

LEMMA RelayInitially == RelayInit => RelayInv
<1> SUFFICES ASSUME RelayInit PROVE RelayInv
  OBVIOUS
<1>1. <<>> \in Seq(Pieces) /\ <<>> \o <<>> = <<>>
  BY EmptySeq, ConcatEmptySeq
<1>2. RelayTypeOK
  <2>1. [s \in Sides |-> <<>>] \in [Sides -> Seq(Pieces)]
    BY <1>1, Zenon
  <2>2. [s \in Sides |-> FALSE] \in [Sides -> BOOLEAN]
    OBVIOUS
  <2>3. [s \in Sides |-> "off"] \in [Sides -> {"off", "on", "eof", "error"}]
    OBVIOUS
  <2>4. \A s \in Sides : gone[s] => shut[s]
    BY DEF RelayInit
  <2> QED BY <1>1, <2>1, <2>2, <2>3, <2>4, RelayTypes, Zenon DEF RelayInit
<1>3. RelayFlow
  BY <1>1, Both, SMT DEF RelayInit, RelayFlow, SideFlow
<1> QED BY <1>2, <1>3 DEF RelayInv

LEMMA RelayStarts ==
    ASSUME RelayInv, NEW plain \in BOOLEAN, NEW known \in BOOLEAN, RelayStart(plain, known)
    PROVE  RelayInv'
<1>1. RelayTypeOK'
  BY RelayTypes, RelayTypes2 DEF RelayInv, RelayStart
<1>2. RelayFlow'
  BY Both DEF RelayInv, RelayStart, RelayFlow, SideFlow
<1> QED BY <1>1, <1>2 DEF RelayInv

LEMMA RelayReads ==
    ASSUME RelayInv, NEW n \in 1..Len(inbox["upstream"]), ReadResponse(n)
    PROVE  RelayInv'
<1> DEFINE u == inbox["upstream"]
           b == buf \o SubSeq(u, 1, n)
           rest == SubSeq(u, n + 1, Len(u))
<1>1. RelayTypeOK /\ RelayFlow
  BY DEF RelayInv
<1>2. buf \in Seq(Pieces) /\ u \in Seq(Pieces) /\ inbox \in [Sides -> Seq(Pieces)]
  BY <1>1, RelayTypes, Both
<1>3. n \in 0..Len(u)
  BY <1>2, LenProperties
<1>4. SubSeq(u, 1, n) \in Seq(Pieces) /\ rest \in Seq(Pieces) /\ b \o rest = buf \o u
  <2> HIDE DEF u
  <2>1. /\ SubSeq(u, 1, n) \in Seq(Pieces) /\ SubSeq(u, n + 1, Len(u)) \in Seq(Pieces)
        /\ (buf \o SubSeq(u, 1, n)) \o SubSeq(u, n + 1, Len(u)) = buf \o u
    <3>1. buf \in Seq(Pieces) /\ u \in Seq(Pieces) /\ n \in 0..Len(u)
      BY <1>2, <1>3
    <3> QED BY <3>1, Moved, ZenonT(90)
  <2> QED BY <2>1
<1>5. b \in Seq(Pieces) /\ <<>> \o b = b
  BY <1>2, <1>4, ConcatProperties, ConcatEmptySeq
<1>6. /\ rpc = "head" /\ buf' = b /\ inbox' = [inbox EXCEPT !["upstream"] = rest]
      /\ strict' = strict /\ sent' = sent /\ shut' = shut /\ gone' = gone
      /\ \/ rpc' = "head" /\ got' = got /\ copy' = copy
         \/ rpc' = "ended" /\ got' = got /\ copy' = copy
         \/ /\ rpc' = "copy" /\ copy' = [s \in Sides |-> "on"]
            /\ \/ ~gone["client"] /\ got' = [got EXCEPT !["client"] = got["client"] \o b]
               \/ gone["client"] /\ got' = got
  BY DEF ReadResponse, Written, PassOn
<1> HIDE DEF b, rest
<1>7. /\ inbox'["upstream"] = rest /\ inbox'["client"] = inbox["client"]
      /\ inbox' \in [Sides -> Seq(Pieces)]
  BY <1>2, <1>4, <1>6, Both
<1>8. /\ sent["upstream"] = b \o rest /\ sent["client"] = <<>> /\ inbox["client"] = <<>>
      /\ \A s \in Sides : copy[s] = "off" /\ got[s] = <<>>
  <2>1. \A s \in Sides : copy[s] = "off" /\ got[Other(s)] = <<>>
    BY <1>1, <1>6, Zenon DEF RelayFlow, SideFlow
  <2> QED BY <1>1, <1>4, <1>6, <2>1, Both DEF RelayFlow
<1>9. \/ got' = got
      \/ got' = [got EXCEPT !["client"] = b]
  BY <1>5, <1>6, <1>8, Both
<1>10. RelayTypeOK'
  <2>1. got' \in [Sides -> Seq(Pieces)]
    <3>1. got \in [Sides -> Seq(Pieces)]
      BY <1>1, RelayTypes, Zenon
    <3> QED BY <3>1, <1>5, <1>9
  <2>2. copy' \in [Sides -> {"off", "on", "eof", "error"}]
    BY <1>1, <1>6, RelayTypes
  <2>3. rpc' \in {"off", "connect", "head", "copy", "ended"}
    BY <1>6
  <2> QED BY <1>1, <1>5, <1>6, <1>7, <2>1, <2>2, <2>3, RelayTypes, RelayTypes2, Zenon
<1>11. CASE got' = got /\ copy' = copy /\ rpc' \in {"head", "ended"}
  <2>1. RelayFlow'
    BY <1>1, <1>6, <1>7, <1>8, <1>11, Both DEF RelayFlow, SideFlow
  <2> QED BY <1>10, <2>1 DEF RelayInv
<1>12. CASE rpc' = "copy" /\ copy' = [s \in Sides |-> "on"]
  <2>1. <<>> \o <<>> = <<>>
    BY ConcatEmptySeq, EmptySeq
  <2>2. ~gone["client"] => got'["client"] = b
    BY <1>1, <1>5, <1>6, <1>8, <1>9, <1>12, Both, RelayTypes
  <2>3. got'["upstream"] = <<>>
    BY <1>1, <1>8, <1>9, Both, RelayTypes
  <2>4. SideFlow("upstream")'
    BY <1>6, <1>7, <1>8, <1>12, <2>2, Both DEF SideFlow
  <2>5. SideFlow("client")'
    BY <1>6, <1>7, <1>8, <1>12, <2>1, <2>3, Both DEF SideFlow
  <2> QED BY <1>10, <1>12, <2>4, <2>5, Both DEF RelayInv, RelayFlow
<1> QED BY <1>6, <1>11, <1>12

LEMMA RelayCopies ==
    ASSUME RelayInv, NEW s \in Sides, Copy(s)
    PROVE  RelayInv'
<1> DEFINE o == Other(s)
<1>1. RelayTypeOK /\ RelayFlow
  BY DEF RelayInv
<1>2. /\ copy[s] = "on" /\ inbox[s] # <<>> /\ rpc = "copy"
      /\ inbox' = [inbox EXCEPT ![s] = Tail(inbox[s])]
      /\ rpc' = rpc /\ strict' = strict /\ sent' = sent /\ shut' = shut /\ gone' = gone /\ buf' = buf
      /\ \/ /\ ~gone[o] /\ copy' = copy
            /\ got' = [got EXCEPT ![o] = got[o] \o <<Head(inbox[s])>>]
         \/ gone[o] /\ copy' = copy /\ got' = got
         \/ gone[o] /\ copy' = [copy EXCEPT ![s] = "error"] /\ got' = got
  BY <1>1 DEF Copy, Written, RelayFlow, SideFlow
<1>3. got[o] \in Seq(Pieces) /\ inbox[s] \in Seq(Pieces) /\ o \in Sides /\ o # s /\ Other(o) = s
  BY <1>1, RelayTypes, Both
<1>4. /\ Tail(inbox[s]) \in Seq(Pieces) /\ got[o] \o <<Head(inbox[s])>> \in Seq(Pieces)
      /\ (got[o] \o <<Head(inbox[s])>>) \o Tail(inbox[s]) = got[o] \o inbox[s]
  <2> HIDE DEF o
  <2>1. got[o] \in Seq(Pieces) /\ inbox[s] \in Seq(Pieces) /\ inbox[s] # <<>>
    BY <1>2, <1>3
  <2>2. \A a, b \in Seq(Pieces) : b # <<>> =>
           /\ Tail(b) \in Seq(Pieces) /\ a \o <<Head(b)>> \in Seq(Pieces)
           /\ (a \o <<Head(b)>>) \o Tail(b) = a \o b
    BY MovedHead, ZenonT(90)
  <2> QED BY <2>1, <2>2, Zenon
<1>5. RelayTypeOK'
  <2>1. got' \in [Sides -> Seq(Pieces)]
    BY <1>1, <1>2, <1>3, <1>4, RelayTypes
  <2>2. inbox' \in [Sides -> Seq(Pieces)]
    BY <1>1, <1>2, <1>4, RelayTypes
  <2>3. copy' \in [Sides -> {"off", "on", "eof", "error"}]
    BY <1>1, <1>2, RelayTypes
  <2> QED BY <1>1, <1>2, <2>1, <2>2, <2>3, RelayTypes, RelayTypes2, Zenon
<1>6. /\ inbox'[s] = Tail(inbox[s]) /\ inbox'[o] = inbox[o]
      /\ got'[s] = got[s] /\ copy'[o] = copy[o]
      /\ ~gone[o] => got'[o] = got[o] \o <<Head(inbox[s])>>
      /\ copy'[s] = "on" \/ (copy'[s] = "error" /\ gone[o])
  BY <1>1, <1>2, <1>3, RelayTypes
<1>7. SideFlow(s)'
  <2>1. ~gone[o] => sent[s] = got[o] \o inbox[s]
    BY <1>1, <1>2, Zenon DEF RelayFlow, SideFlow
  <2> QED BY <1>2, <1>4, <1>6, <2>1 DEF SideFlow
<1>8. SideFlow(o)'
  <2>1. SideFlow(o)
    BY <1>1, <1>3 DEF RelayFlow
  <2> QED BY <1>2, <1>3, <1>6, <2>1 DEF SideFlow
<1>9. \A x \in Sides : x = s \/ x = o
  BY Both
<1> QED BY <1>2, <1>5, <1>7, <1>8, <1>9 DEF RelayInv, RelayFlow

LEMMA RelaySends ==
    ASSUME RelayInv, NEW s \in Sides, NEW p \in Pieces, Sends(s, p)
    PROVE  RelayInv'
<1> DEFINE o == Other(s)
<1>1. RelayTypeOK /\ RelayFlow
  BY DEF RelayInv
<1>2. /\ rpc \in {"head", "copy"} /\ ~shut[s]
      /\ s = "client" => "end" \in ToSet(got["client"])
      /\ sent' = [sent EXCEPT ![s] = Append(sent[s], p)]
      /\ inbox' = [inbox EXCEPT ![s] = Append(inbox[s], p)]
      /\ UNCHANGED <<rpc, strict, shut, gone, buf, got, copy>>
  BY DEF Sends
<1>3. /\ got[o] \in Seq(Pieces) /\ inbox[s] \in Seq(Pieces) /\ sent[s] \in Seq(Pieces)
      /\ buf \in Seq(Pieces) /\ o \in Sides /\ o # s /\ Other(o) = s
  BY <1>1, RelayTypes, Both
<1>4. /\ Append(sent[s], p) \in Seq(Pieces) /\ Append(inbox[s], p) \in Seq(Pieces)
      /\ sent[s] = got[o] \o inbox[s] => Append(sent[s], p) = got[o] \o Append(inbox[s], p)
      /\ sent[s] = buf \o inbox[s] => Append(sent[s], p) = buf \o Append(inbox[s], p)
  <2> HIDE DEF o
  <2>1. Append(sent[s], p) \in Seq(Pieces) /\ Append(inbox[s], p) \in Seq(Pieces)
    BY <1>3, AppendProperties
  <2>2. ASSUME NEW a \in Seq(Pieces), sent[s] = a \o inbox[s]
        PROVE  Append(sent[s], p) = a \o Append(inbox[s], p)
    <3> DEFINE x == sent[s]
               y == inbox[s]
    <3>1. x \in Seq(Pieces) /\ y \in Seq(Pieces) /\ p \in Pieces /\ x = a \o y
      BY <1>3, <2>2
    <3> HIDE DEF x, y
    <3>2. Append(x, p) = a \o Append(y, p)
      BY <3>1, SentBehind, ZenonT(90)
    <3> QED BY <3>2 DEF x, y
  <2> QED BY <1>3, <2>1, <2>2
<1>5. /\ inbox'[s] = Append(inbox[s], p) /\ inbox'[o] = inbox[o]
      /\ sent'[s] = Append(sent[s], p) /\ sent'[o] = sent[o]
  BY <1>1, <1>2, <1>3, RelayTypes
<1>6. RelayTypeOK'
  <2>1. inbox' \in [Sides -> Seq(Pieces)] /\ sent' \in [Sides -> Seq(Pieces)]
    BY <1>1, <1>2, <1>4, RelayTypes
  <2> QED BY <1>1, <1>2, <2>1, RelayTypes, RelayTypes2, Zenon
<1>7. SideFlow(s)'
  <2>1. SideFlow(s) /\ copy[s] # "eof"
    BY <1>1, <1>2 DEF RelayFlow, SideFlow
  <2> QED BY <1>2, <1>4, <1>5, <2>1 DEF SideFlow
<1>8. SideFlow(o)'
  <2>1. SideFlow(o)
    BY <1>1, <1>3 DEF RelayFlow
  <2> QED BY <1>2, <1>3, <1>5, <2>1 DEF SideFlow
<1>9. \A x \in Sides : x = s \/ x = o
  BY Both
<1>10. rpc = "head" =>
          /\ \A x \in Sides : copy[x] = "off"
          /\ sent'["upstream"] = buf \o inbox'["upstream"]
          /\ sent'["client"] = <<>> /\ inbox'["client"] = <<>>
  <2> SUFFICES ASSUME rpc = "head"
               PROVE  /\ \A x \in Sides : copy[x] = "off"
                      /\ sent'["upstream"] = buf \o inbox'["upstream"]
                      /\ sent'["client"] = <<>> /\ inbox'["client"] = <<>>
    OBVIOUS
  <2>1. /\ \A x \in Sides : copy[x] = "off"
        /\ sent["upstream"] = buf \o inbox["upstream"]
        /\ sent["client"] = <<>> /\ inbox["client"] = <<>>
    BY <1>1 DEF RelayFlow
  <2>2. got["client"] = <<>>
    <3>1. got[Other("upstream")] = <<>>
      BY <1>1, <2>1, Both DEF RelayFlow, SideFlow
    <3> QED BY <3>1, Both
  <2>3. s # "client"
    BY <1>2, <2>2 DEF ToSet
  <2> QED BY <1>4, <1>5, <2>1, <2>3, Both
<1> QED BY <1>2, <1>6, <1>7, <1>8, <1>9, <1>10 DEF RelayInv, RelayFlow

LEMMA RelayReadFails ==
    ASSUME RelayInv, NEW s \in Sides, ReadFails(s)
    PROVE  RelayInv'
<1>1. RelayTypeOK /\ RelayFlow
  BY DEF RelayInv
<1>2. CASE /\ copy[s] = "on" /\ copy' = [copy EXCEPT ![s] = "error"]
           /\ UNCHANGED <<rpc, strict, sent, inbox, shut, gone, buf, got>>
  <2>1. /\ copy' \in [Sides -> {"off", "on", "eof", "error"}]
        /\ copy'[s] = "error" /\ \A x \in Sides : x # s => copy'[x] = copy[x]
    BY <1>1, <1>2, RelayTypes
  <2>2. RelayTypeOK'
    BY <1>1, <1>2, <2>1, RelayTypes, RelayTypes2
  <2>3. ASSUME NEW x \in Sides PROVE SideFlow(x)'
    <3>1. SideFlow(x)
      BY <1>1 DEF RelayFlow
    <3> QED BY <1>2, <2>1, <3>1 DEF SideFlow
  <2>4. rpc = "copy"
    BY <1>1, <1>2 DEF RelayFlow, SideFlow
  <2> QED BY <1>2, <2>2, <2>3, <2>4 DEF RelayInv, RelayFlow
<1>3. CASE /\ rpc = "head" /\ rpc' = "ended"
           /\ UNCHANGED <<strict, sent, inbox, shut, gone, buf, got, copy>>
  <2>1. rpc' \in {"off", "connect", "head", "copy", "ended"}
    BY <1>3
  <2>2. RelayTypeOK'
    BY <1>1, <1>3, <2>1, RelayTypes, RelayTypes2, Zenon
  <2>3. ASSUME NEW x \in Sides PROVE SideFlow(x)'
    <3>1. SideFlow(x) /\ copy[x] = "off"
      BY <1>1, <1>3 DEF RelayFlow
    <3> QED BY <1>3, <3>1 DEF SideFlow
  <2> QED BY <1>3, <2>2, <2>3 DEF RelayInv, RelayFlow
<1> QED BY <1>2, <1>3 DEF ReadFails

LEMMA RelayLeaves ==
    ASSUME RelayInv, NEW s \in Sides, Leaves(s)
    PROVE  RelayInv'
<1>1. RelayTypeOK /\ RelayFlow
  BY DEF RelayInv
<1>2. /\ gone' = gone \/ gone' = [gone EXCEPT ![s] = TRUE]
      /\ shut' = [shut EXCEPT ![s] = TRUE]
      /\ UNCHANGED <<rpc, strict, sent, inbox, buf, got, copy>>
  BY DEF Leaves
<1>3. /\ shut' \in [Sides -> BOOLEAN] /\ gone' \in [Sides -> BOOLEAN]
      /\ \A x \in Sides : (gone[x] => gone'[x]) /\ (shut[x] => shut'[x]) /\ (gone'[x] => shut'[x])
  BY <1>1, <1>2, RelayTypes
<1>4. RelayTypeOK'
  BY <1>1, <1>2, <1>3, RelayTypes, RelayTypes2
<1>5. ASSUME NEW x \in Sides PROVE SideFlow(x)'
  <2>1. SideFlow(x) /\ Other(x) \in Sides
    BY <1>1, Both DEF RelayFlow
  <2> QED BY <1>2, <1>3, <2>1 DEF SideFlow
<1> QED BY <1>1, <1>2, <1>4, <1>5 DEF RelayInv, RelayFlow

(* Any other step of the relay, or none.                                      *)
LEMMA RelayGoesOn ==
    ASSUME RelayInv,
           \/ Connected \/ NotConnected \/ ResponseEof \/ Join
           \/ \E s \in Sides : CopyEof(s)
           \/ UNCHANGED relayVars
    PROVE  RelayInv'
<1>1. RelayTypeOK /\ RelayFlow
  BY DEF RelayInv
<1>2. CASE Connected \/ NotConnected \/ ResponseEof \/ Join
  <2>1. /\ rpc' \in {"head", "ended"}
        /\ rpc' = "head" => rpc = "connect"
        /\ rpc = "copy" => \A s \in Sides : copy[s] # "on"
        /\ UNCHANGED <<strict, sent, inbox, shut, gone, buf, got, copy>>
    BY <1>2 DEF Connected, NotConnected, ResponseEof, Join, RelayEnds
  <2>2. RelayTypeOK'
    <3>1. rpc' \in {"off", "connect", "head", "copy", "ended"}
      BY <2>1
    <3> QED BY <1>1, <2>1, <3>1, RelayTypes, RelayTypes2, Zenon
  <2>3. RelayFlow'
    <3>1. ASSUME NEW s \in Sides PROVE SideFlow(s)'
      <4>1. SideFlow(s)
        BY <1>1 DEF RelayFlow
      <4>2. copy[s] # "on"
        BY <1>1, <1>2, <2>1, <4>1, RelayTypes DEF SideFlow, RelayFlow
      <4> QED BY <2>1, <4>1, <4>2 DEF SideFlow
    <3> QED BY <1>1, <2>1, <3>1 DEF RelayFlow
  <2> QED BY <2>2, <2>3 DEF RelayInv
<1>3. ASSUME NEW s \in Sides, CopyEof(s) PROVE RelayInv'
  <2>1. /\ copy[s] = "on" /\ inbox[s] = <<>> /\ shut[s]
        /\ copy' = [copy EXCEPT ![s] = "eof"]
        /\ UNCHANGED <<rpc, strict, sent, inbox, shut, gone, buf, got>>
    BY <1>3 DEF CopyEof
  <2>2. /\ copy' \in [Sides -> {"off", "on", "eof", "error"}]
        /\ copy'[s] = "eof" /\ \A x \in Sides : x # s => copy'[x] = copy[x]
    BY <1>1, <2>1, RelayTypes
  <2>3. RelayTypeOK'
    BY <1>1, <2>1, <2>2, RelayTypes, RelayTypes2
  <2>4. ASSUME NEW x \in Sides PROVE SideFlow(x)'
    <3>1. SideFlow(x)
      BY <1>1 DEF RelayFlow
    <3> QED BY <2>1, <2>2, <3>1 DEF SideFlow
  <2>5. rpc = "copy"
    BY <1>1, <2>1 DEF RelayFlow, SideFlow
  <2> QED BY <2>1, <2>3, <2>4, <2>5 DEF RelayInv, RelayFlow
<1>4. CASE UNCHANGED relayVars
  BY <1>4 DEF relayVars, RelayInv, RelayTypeOK, RelayFlow, SideFlow
<1> QED BY <1>2, <1>3, <1>4

(* What a step of the connection is to the relay.                             *)
LEMMA RelayPart ==
    ASSUME [Next]_vars
    PROVE  \/ \E plain, known \in BOOLEAN : RelayStart(plain, known)
           \/ RelayStep \/ RelayEnvironment \/ UNCHANGED relayVars
<1>1. CASE Next
  <2>1. CASE \E known \in BOOLEAN : UpgradeRequest(known)
    BY <2>1 DEF UpgradeRequest
  <2>2. CASE Relaying
    BY <2>2 DEF Relaying
  <2>3. CASE Handle \/ RedirectToHttps \/ Interstitial \/ ProxyFails \/ ProxyUpgraded
             \/ \E r \in Responses : Proxied(r)
    BY <2>3 DEF Handle, RedirectToHttps, Interstitial, ProxyFails, ProxyUpgraded, Proxied, Answers
  <2>4. CASE \/ Accept \/ Hello \/ ReadHeader \/ Peek \/ HyperHead \/ Fetch \/ ClientCloses
             \/ (\E n \in 1..Len(stream) : HyperRead(n)) \/ (\E n \in 1..Len(stream) : Arrive(n))
    BY <2>4 DEF Accept, Hello, ReadHeader, Peek, HyperHead, Fetch, ClientCloses, HyperRead, Arrive
  <2> QED BY <1>1, <2>1, <2>2, <2>3, <2>4 DEF Next, Edge
<1>2. CASE UNCHANGED vars
  BY <1>2 DEF vars
<1> QED BY <1>1, <1>2

LEMMA RelayPreserved == RelayInv /\ [Next]_vars => RelayInv'
<1> SUFFICES ASSUME RelayInv, [Next]_vars PROVE RelayInv'
  OBVIOUS
<1>1. ASSUME NEW plain \in BOOLEAN, NEW known \in BOOLEAN, RelayStart(plain, known) PROVE RelayInv'
  BY <1>1, RelayStarts
<1>2. CASE RelayStep
  <2>1. CASE \E n \in 1..Len(inbox["upstream"]) : ReadResponse(n)
    BY <2>1, RelayReads
  <2>2. CASE \E s \in Sides : Copy(s)
    BY <2>2, RelayCopies
  <2>3. CASE Connected \/ NotConnected \/ ResponseEof \/ Join \/ \E s \in Sides : CopyEof(s)
    BY <2>3, RelayGoesOn
  <2> QED BY <1>2, <2>1, <2>2, <2>3 DEF RelayStep
<1>3. CASE RelayEnvironment
  BY <1>3, RelayLeaves, RelayReadFails, RelaySends DEF RelayEnvironment
<1>4. CASE UNCHANGED relayVars
  BY <1>4, RelayGoesOn
<1> QED BY <1>1, <1>2, <1>3, <1>4, RelayPart

LEMMA RelayFlowFaithful == RelayInv => RelayFaithful
<1> SUFFICES ASSUME RelayInv, NEW s \in Sides, ~gone[Other(s)]
             PROVE  /\ IsPrefix(got[Other(s)], sent[s])
                    /\ copy[s] = "eof" => got[Other(s)] = sent[s]
  BY DEF RelayFaithful
<1>1. RelayTypeOK /\ SideFlow(s) /\ Other(s) \in Sides
  BY Both DEF RelayInv, RelayFlow
<1>2. /\ got[Other(s)] \in Seq(Pieces) /\ inbox[s] \in Seq(Pieces) /\ sent[s] \in Seq(Pieces)
      /\ copy[s] \in {"off", "on", "eof", "error"}
  BY <1>1, RelayTypes
<1>3. CASE copy[s] # "off"
  <2>1. IsPrefix(got[Other(s)], got[Other(s)] \o inbox[s])
    BY <1>2, PrefixOfConcat
  <2>2. got[Other(s)] \o <<>> = got[Other(s)]
    BY <1>2, ConcatEmptySeq
  <2> QED BY <1>1, <1>3, <2>1, <2>2 DEF SideFlow
<1>4. CASE copy[s] = "off"
  <2>1. IsPrefix(<<>>, <<>> \o sent[s]) /\ <<>> \o sent[s] = sent[s]
    BY <1>2, PrefixOfConcat, ConcatEmptySeq, EmptySeq
  <2> QED BY <1>1, <1>4, <2>1 DEF SideFlow
<1> QED BY <1>3, <1>4

-----------------------------------------------------------------------------
(* The origin's page.  No marker ends within what was searched, and the next  *)
(* search starts before any that could end later.                             *)
FetchInv ==
    /\ FetchTypeOK
    /\ fpc \in {"idle", "request"} =>
          hops < MaxHops /\ pos = 0 /\ scanned = 0 /\ head = None /\ refused = FALSE
    /\ fpc = "body" =>
          /\ \A j \in 0..(pos - Len(Marker)) : ~MarkerAt(doc, j)
          /\ scanned = 0 \/ scanned + Len(Marker) <= pos + 1
          /\ refused = FALSE
    /\ HeadIsExact

LEMMA FetchConstants ==
    /\ Marker \in Seq(Bytes) /\ Len(Marker) \in Nat /\ Len(Marker) >= 1
    /\ MaxHtml \in Nat /\ MaxHops \in Nat /\ MaxHops > 0 /\ None \notin Nat /\ None \notin Seq(Bytes)
    /\ \A d \in Docs \cup {<<>>} : d \in Seq(Bytes)
<1>1. Len(Marker) \in Nat \ {0}
  BY HeadFetchAssumption, EmptySeq
<1>2. /\ Len(Marker) \in Nat /\ Len(Marker) >= 1 /\ MaxHops \in Nat /\ MaxHops > 0
  BY <1>1, HeadFetchAssumption
<1>3. \A d \in Docs \cup {<<>>} : d \in Seq(Bytes)
  BY HeadFetchAssumption, EmptySeq
<1> QED BY <1>2, <1>3, HeadFetchAssumption

(* There is a first among some naturals.                                      *)
LEMMA Least ==
    ASSUME NEW T \in SUBSET Nat, T # {}
    PROVE  \E x \in T : \A y \in T : x <= y
<1> DEFINE R == {ss \in Nat \X Nat : ss[1] < ss[2]}
<1>1. IsWellFoundedOn(R, Nat)
  BY NatLessThanWellFounded, Zenon DEF OpToRel
<1> HIDE DEF R
<1>2. PICK x \in T : ~ (\E y \in T : <<y, x>> \in R)
  BY <1>1, WFMin
<1>3. \A y \in T : x <= y
  BY <1>2, x \in Nat DEF R
<1> QED BY <1>3

(* A marker in what was read is one in the document.                          *)
LEMMA MarkerRead ==
    ASSUME NEW d \in Seq(Bytes), NEW n \in 0..Len(d), NEW j \in Nat
    PROVE  /\ SubSeq(d, 1, n) \in Seq(Bytes) /\ Len(SubSeq(d, 1, n)) = n
           /\ MarkerAt(SubSeq(d, 1, n), j) <=> j + Len(Marker) <= n /\ MarkerAt(d, j)
<1> DEFINE b == SubSeq(d, 1, n)
           m == Len(Marker)
<1>1. Len(d) \in Nat /\ n \in Nat /\ n <= Len(d) /\ m \in Nat /\ m >= 1
  BY LenProperties, FetchConstants
<1>2. b \in Seq(Bytes) /\ Len(b) = n /\ \A i \in 1..n : b[i] = d[i]
  BY FrontSeq
<1>3. ASSUME j + m <= n PROVE SubSeq(b, j + 1, j + m) = SubSeq(d, j + 1, j + m)
  <2> DEFINE x == SubSeq(b, j + 1, j + m)
             y == SubSeq(d, j + 1, j + m)
  <2>1. j + 1 \in Int /\ j + m \in Int
    BY <1>1
  <2>2. \A i \in (j + 1)..(j + m) : i \in 1..n /\ i \in 1..Len(d)
    BY <1>1, <1>3
  <2>3. \A i \in (j + 1)..(j + m) : b[i] \in Bytes /\ d[i] \in Bytes /\ b[i] = d[i]
    BY <2>2, <1>2, ElementOfSeq
  <2> HIDE DEF b
  <2>4. /\ x \in Seq(Bytes) /\ Len(x) = IF j + 1 <= j + m THEN j + m - (j + 1) + 1 ELSE 0
        /\ \A i \in 1..(j + m - (j + 1) + 1) : x[i] = b[j + 1 + i - 1]
    BY <2>1, <2>3, SubSeqProperties
  <2>5. /\ y \in Seq(Bytes) /\ Len(y) = IF j + 1 <= j + m THEN j + m - (j + 1) + 1 ELSE 0
        /\ \A i \in 1..(j + m - (j + 1) + 1) : y[i] = d[j + 1 + i - 1]
    BY <2>1, <2>3, SubSeqProperties
  <2> HIDE DEF x, y
  <2>6. Len(x) = m /\ Len(y) = m
    BY <1>1, <2>4, <2>5
  <2>7. ASSUME NEW i \in 1..m PROVE x[i] = y[i]
    <3>1. i \in 1..(j + m - (j + 1) + 1) /\ j + 1 + i - 1 \in (j + 1)..(j + m)
      BY <1>1
    <3> QED BY <3>1, <2>3, <2>4, <2>5
  <2>8. x = y
    BY <2>4, <2>5, <2>6, <2>7, SeqEqual
  <2> QED BY <2>8 DEF x, y
<1>4. MarkerAt(b, j) <=> j + m <= n /\ MarkerAt(d, j)
  <2> HIDE DEF b
  <2> QED BY <1>1, <1>2, <1>3 DEF MarkerAt
<1> QED BY <1>2, <1>4

(* What find_head_end finds: the first marker from where it starts, if any.   *)
LEMMA HeadEndFound ==
    ASSUME NEW b \in Seq(Bytes), NEW from \in Nat
    PROVE  \/ /\ FindHeadEnd(b, from) \in Nat /\ MarkerAt(b, FindHeadEnd(b, from))
              /\ \A j \in from..(FindHeadEnd(b, from) - 1) : ~MarkerAt(b, j)
           \/ /\ FindHeadEnd(b, from) = None
              /\ \A j \in from..Len(b) : ~MarkerAt(b, j)
<1> DEFINE last == Len(b) - Len(Marker)
           start == IF from < last THEN from ELSE last
           hits == {i \in start..last : MarkerAt(b, i)}
           at == FindHeadEnd(b, from)
<1>1. Len(b) \in Nat /\ Len(Marker) \in Nat /\ Len(Marker) >= 1 /\ last \in Int
  BY LenProperties, FetchConstants
<1>2. CASE last < 0
  <2>1. at = None
    BY <1>2 DEF FindHeadEnd
  <2>2. \A j \in from..Len(b) : ~MarkerAt(b, j)
    BY <1>1, <1>2 DEF MarkerAt
  <2> QED BY <2>1, <2>2
<1>3. CASE last >= 0 /\ hits = {}
  <2>1. at = None
    BY <1>3 DEF FindHeadEnd
  <2>2. ASSUME NEW j \in from..Len(b), MarkerAt(b, j) PROVE FALSE
    <3>1. j <= last
      BY <1>1, <2>2 DEF MarkerAt
    <3>2. j \in start..last
      BY <1>1, <1>3, <3>1
    <3> QED BY <1>3, <2>2, <3>2
  <2> QED BY <2>1, <2>2
<1>4. CASE last >= 0 /\ hits # {}
  <2>1. at = CHOOSE i \in hits : \A j \in hits : i <= j
    BY <1>1, <1>4 DEF FindHeadEnd
  <2>2. start \in Nat
    BY <1>1, <1>4
  <2>3. hits \in SUBSET Nat
    <3> HIDE DEF start, last
    <3> QED BY <2>2, <1>1
  <2>4. \E i \in hits : \A j \in hits : i <= j
    <3> HIDE DEF hits
    <3> QED BY <1>4, <2>3, Least
  <2>5. at \in hits /\ \A j \in hits : at <= j
    <3> HIDE DEF hits, at
    <3> QED BY <2>1, <2>4
  <2>6. at \in Nat /\ MarkerAt(b, at) /\ at <= last
    <3> HIDE DEF at
    <3> QED BY <2>2, <2>3, <2>5
  <2>7. ASSUME NEW j \in from..(at - 1), MarkerAt(b, j) PROVE FALSE
    <3> HIDE DEF at
    <3>1. j < at /\ j \in start..last
      BY <1>1, <2>6
    <3> QED BY <2>5, <2>6, <2>7, <3>1
  <2> QED BY <2>6, <2>7
<1> QED BY <1>1, <1>2, <1>3, <1>4

LEMMA FetchInitially == FetchInit => FetchInv
<1> SUFFICES ASSUME FetchInit PROVE FetchInv
  OBVIOUS
<1>1. Len(<<>>) = 0
  BY EmptySeq
<1>2. FetchTypeOK
  <2>1. 0 \in 0..MaxHops /\ 0 \in 0..0 /\ 0 \in 0..Len(<<>>)
    BY <1>1, FetchConstants
  <2>2. <<>> \in Docs \cup {<<>>} /\ FALSE \in BOOLEAN
    OBVIOUS
  <2> QED BY <2>1, <2>2, Zenon DEF FetchInit, FetchTypeOK
<1> QED BY <1>2, FetchConstants DEF FetchInit, FetchInv, HeadIsExact

LEMMA FetchChunk ==
    ASSUME FetchInv, NEW n \in Nat, Chunk(n)
    PROVE  FetchInv'
<1> DEFINE len == pos + n
           m == Len(Marker)
           b == SubSeq(doc, 1, len)
           at == FindHeadEnd(b, scanned)
<1>1. /\ fpc = "body" /\ n > 0 /\ len <= Len(doc) /\ pos' = len
      /\ scanned' = IF at = None THEN Overlap(len) ELSE scanned
      /\ fpc' = IF at # None \/ len > MaxHtml THEN "done" ELSE "body"
      /\ head' = IF at # None THEN SubSeq(doc, 1, at) ELSE None
      /\ refused' = (at = None /\ len > MaxHtml)
      /\ hops' = hops /\ doc' = doc
  BY DEF Chunk
<1>2. /\ hops \in 0..MaxHops /\ doc \in Docs \cup {<<>>} /\ doc \in Seq(Bytes) /\ Len(doc) \in Nat
      /\ pos \in Nat /\ pos <= Len(doc) /\ scanned \in Nat /\ scanned <= pos
  BY FetchConstants, LenProperties DEF FetchInv, FetchTypeOK
<1>3. /\ \A j \in 0..(pos - m) : ~MarkerAt(doc, j)
      /\ scanned = 0 \/ scanned + m <= pos + 1
  BY <1>1 DEF FetchInv
<1>4. m \in Nat /\ m >= 1 /\ MaxHtml \in Nat /\ None \notin Nat
  BY FetchConstants
<1>5. len \in 0..Len(doc) /\ len \in Nat
  BY <1>1, <1>2
<1> HIDE DEF len, m, b, at
<1>6. /\ b \in Seq(Bytes) /\ Len(b) = len
      /\ \A j \in Nat : MarkerAt(b, j) <=> j + m <= len /\ MarkerAt(doc, j)
  BY <1>2, <1>5, MarkerRead DEF b, m
<1>7. \/ at \in Nat /\ MarkerAt(b, at) /\ \A j \in scanned..(at - 1) : ~MarkerAt(b, j)
      \/ at = None /\ \A j \in scanned..Len(b) : ~MarkerAt(b, j)
  BY <1>2, <1>6, HeadEndFound DEF at
<1>8. ASSUME NEW j \in Nat, j < scanned PROVE ~MarkerAt(doc, j)
  BY <1>2, <1>3, <1>4, <1>8
<1>9. CASE at \in Nat
  <2>1. MarkerAt(b, at) /\ \A j \in scanned..(at - 1) : ~MarkerAt(b, j)
    BY <1>4, <1>7, <1>9
  <2>2. at + m <= len /\ MarkerAt(doc, at)
    BY <1>6, <1>9, <2>1
  <2>3. ASSUME NEW j \in 0..(at - 1) PROVE ~MarkerAt(doc, j)
    <3>1. CASE j < scanned
      BY <1>8, <3>1
    <3>2. CASE j >= scanned
      <4>1. j \in scanned..(at - 1) /\ j \in Nat /\ j + m <= len
        BY <1>2, <1>4, <1>5, <1>9, <2>2, <3>2
      <4> QED BY <4>1, <2>1, <1>6
    <3> QED BY <1>2, <3>1, <3>2
  <2>4. head' = SubSeq(doc, 1, at) /\ fpc' = "done" /\ refused' = FALSE /\ scanned' = scanned
    BY <1>1, <1>4, <1>9
  <2>5. Len(SubSeq(doc, 1, at)) = at
    <3>1. at \in 0..Len(doc)
      BY <1>2, <1>4, <1>5, <1>9, <2>2
    <3> QED BY <3>1, <1>2, MarkerRead, 0 \in Nat
  <2>6. FetchTypeOK'
    <3>1. at \in 0..len /\ scanned \in 0..len
      BY <1>1, <1>2, <1>4, <1>5, <1>9, <2>2 DEF len
    <3> QED BY <1>1, <1>2, <1>5, <2>4, <3>1 DEF FetchTypeOK
  <2>7. HeadIsExact'
    <3>1. MarkerAt(doc, Len(head')) /\ head' = SubSeq(doc, 1, Len(head')) /\ Len(head') = at
      BY <2>2, <2>4, <2>5
    <3>2. \A j \in 0..(Len(head') - 1) : ~MarkerAt(doc, j)
      BY <3>1, <2>3
    <3> QED BY <1>1, <2>4, <3>1, <3>2 DEF HeadIsExact, MarkerAt
  <2> QED BY <2>4, <2>6, <2>7 DEF FetchInv
<1>10. CASE at = None
  <2>1. \A j \in scanned..Len(b) : ~MarkerAt(b, j)
    BY <1>4, <1>7, <1>10
  <2>2. ASSUME NEW j \in 0..(len - m) PROVE ~MarkerAt(doc, j)
    <3>1. CASE j < scanned
      BY <1>8, <3>1
    <3>2. CASE j >= scanned
      <4>1. j \in scanned..Len(b) /\ j \in Nat /\ j + m <= len
        BY <1>2, <1>4, <1>5, <1>6, <3>2
      <4> QED BY <4>1, <2>1, <1>6
    <3> QED BY <1>2, <3>1, <3>2
  <2>3. /\ head' = None /\ scanned' = Overlap(len)
        /\ fpc' = IF len > MaxHtml THEN "done" ELSE "body"
        /\ refused' = (len > MaxHtml)
    BY <1>1, <1>10
  <2> DEFINE over == len > MaxHtml
  <2>31. (over /\ refused' = TRUE) \/ (~over /\ refused' = FALSE)
    <3> HIDE DEF over
    <3>1. refused' = over
      BY <2>3, Zenon DEF over
    <3>2. over \in BOOLEAN
      BY <1>4, <1>5 DEF over
    <3> QED BY <3>1, <3>2, Zenon
  <2>4. /\ scanned' \in Nat /\ scanned' <= len
        /\ scanned' = 0 \/ scanned' + m <= len + 1
    BY <1>4, <1>5, <2>3 DEF Overlap, m
  <2>5. FetchTypeOK'
    BY <1>1, <1>2, <1>5, <2>3, <2>31, <2>4 DEF FetchTypeOK
  <2>6. HeadIsExact'
    <3>1. refused' => \A j \in 0..(MaxHtml - m) : j \in 0..(len - m)
      BY <1>4, <1>5, <2>31
    <3>2. refused' => \A j \in 0..(MaxHtml - m) : ~MarkerAt(doc, j)
      BY <2>2, <3>1
    <3> QED BY <1>1, <2>3, <3>2 DEF HeadIsExact, MarkerAt, m
  <2>7. fpc' = "body" => refused' = FALSE
    BY <2>3, <2>31
  <2>8. \A j \in 0..(pos' - Len(Marker)) : ~MarkerAt(doc', j)
    BY <1>1, <2>2 DEF m
  <2>9. scanned' = 0 \/ scanned' + Len(Marker) <= pos' + 1
    BY <1>1, <2>4 DEF m
  <2>10. fpc' \notin {"idle", "request"}
    BY <2>3
  <2> QED BY <2>5, <2>6, <2>7, <2>8, <2>9, <2>10 DEF FetchInv, MarkerAt
<1> QED BY <1>7, <1>9, <1>10

LEMMA FetchPart ==
    ASSUME [Next]_vars
    PROVE  FetchHtml \/ FetchStep \/ UNCHANGED fetchVars
<1>1. CASE Next
  <2>1. CASE Handle
    BY <2>1 DEF Handle
  <2>2. CASE Fetch
    BY <2>2 DEF Fetch
  <2>3. CASE RedirectToHttps \/ Interstitial \/ ProxyFails \/ ProxyUpgraded
             \/ \E r \in Responses : Proxied(r)
    BY <2>3 DEF RedirectToHttps, Interstitial, ProxyFails, ProxyUpgraded, Proxied
  <2>4. CASE \/ Accept \/ Hello \/ ReadHeader \/ Peek \/ HyperHead \/ ClientCloses \/ Relaying
             \/ (\E n \in 1..Len(stream) : HyperRead(n)) \/ (\E n \in 1..Len(stream) : Arrive(n))
             \/ (\E known \in BOOLEAN : UpgradeRequest(known))
    BY <2>4 DEF Accept, Hello, ReadHeader, Peek, HyperHead, ClientCloses, Relaying, HyperRead,
                Arrive, UpgradeRequest
  <2> QED BY <1>1, <2>1, <2>2, <2>3, <2>4 DEF Next, Edge
<1>2. CASE UNCHANGED vars
  BY <1>2 DEF vars
<1> QED BY <1>1, <1>2

LEMMA FetchPreserved == FetchInv /\ [Next]_vars => FetchInv'
<1> SUFFICES ASSUME FetchInv, [Next]_vars PROVE FetchInv'
  OBVIOUS
<1> USE FetchConstants
<1>1. CASE FetchHtml
  BY <1>1 DEF FetchHtml, FetchInv, FetchTypeOK, HeadIsExact, MarkerAt
<1>2. CASE Redirect
  <2>1. hops \in Nat /\ hops < MaxHops
    BY <1>2 DEF Redirect, FetchInv, FetchTypeOK
  <2>2. hops' \in 0..MaxHops
    BY <1>2, <2>1 DEF Redirect
  <2>3. FetchTypeOK'
    BY <1>2, <2>2 DEF Redirect, FetchInv, FetchTypeOK
  <2> QED BY <1>2, <2>1, <2>3 DEF Redirect, FetchInv, HeadIsExact
<1>3. CASE NoDocument \/ BodyFails
  <2>1. /\ fpc' = "done" /\ head' = None /\ refused = FALSE
        /\ UNCHANGED <<hops, doc, pos, scanned, refused>>
    BY <1>3 DEF NoDocument, BodyFails, FetchEnds, FetchInv
  <2>2. FetchTypeOK'
    BY <2>1 DEF FetchInv, FetchTypeOK
  <2> QED BY <2>1, <2>2 DEF FetchInv, HeadIsExact
<1>4. ASSUME NEW d \in Docs, Document(d) PROVE FetchInv'
  <2>1. /\ fpc' = "body" /\ doc' = d /\ pos = 0 /\ scanned = 0 /\ head = None /\ refused = FALSE
        /\ UNCHANGED <<hops, pos, scanned, head, refused>>
    BY <1>4 DEF Document, FetchInv
  <2>2. d \in Seq(Bytes) /\ Len(d) \in Nat
    BY LenProperties
  <2>3. FetchTypeOK'
    BY <2>1, <2>2 DEF FetchInv, FetchTypeOK
  <2>4. 0 - Len(Marker) < 0
    OBVIOUS
  <2>5. \A j \in 0..(pos' - Len(Marker)) : FALSE
    BY <2>1, <2>4
  <2> QED BY <2>1, <2>3, <2>5 DEF FetchInv, HeadIsExact
<1>5. ASSUME NEW n \in 1..Len(doc), Chunk(n) PROVE FetchInv'
  <2>1. n \in Nat
    BY LenProperties DEF FetchInv, FetchTypeOK
  <2> QED BY <1>5, <2>1, FetchChunk
<1>6. CASE StreamEnd
  <2>1. /\ fpc = "body" /\ pos = Len(doc) /\ fpc' = "done" /\ head' = doc /\ refused = FALSE
        /\ UNCHANGED <<hops, doc, pos, scanned, refused>>
    BY <1>6 DEF StreamEnd, FetchEnds, FetchInv
  <2>2. doc \in Seq(Bytes) /\ Len(doc) \in Nat /\ SubSeq(doc, 1, Len(doc)) = doc
    BY LenProperties, SubSeqFull DEF FetchInv, FetchTypeOK
  <2>3. FetchTypeOK'
    <3>1. Len(doc) \in 0..pos
      BY <2>1, <2>2
    <3> QED BY <2>1, <2>2, <3>1 DEF FetchInv, FetchTypeOK
  <2>4. ASSUME NEW j \in 0..Len(doc), MarkerAt(doc, j) PROVE FALSE
    <3>1. j \in 0..(pos - Len(Marker))
      BY <2>1, <2>2, <2>4 DEF MarkerAt
    <3> QED BY <2>1, <2>4, <3>1 DEF FetchInv
  <2>5. HeadIsExact'
    BY <2>1, <2>4 DEF HeadIsExact, MarkerAt
  <2> QED BY <2>1, <2>3, <2>5 DEF FetchInv
<1>7. CASE UNCHANGED fetchVars
  BY <1>7 DEF fetchVars, FetchInv, FetchTypeOK, HeadIsExact, MarkerAt
<1> QED BY <1>1, <1>2, <1>3, <1>4, <1>5, <1>6, <1>7, FetchPart DEF FetchStep

-----------------------------------------------------------------------------
(* The request.  What is looked at is the stream's head, or as much of it as  *)
(* came before it closed; what hyper has read is the prefix, then the stream. *)
Ended(h) == h # 0 /\ stream[h] = "eoh"

ReadTypeOK ==
    /\ cpc \in Stages /\ port \in Ports /\ closed \in BOOLEAN
    /\ stream \in Streams \cup {<<>>}
    /\ arrived \in 0..Len(stream)
    /\ taken \in 0..arrived
    /\ Len(hdr) \in 0..arrived /\ hdr = SubSeq(stream, 1, Len(hdr))
    /\ ppos \in 0..Len(hdr)

ReadStage ==
    /\ cpc \in {"hello", "read"} => port = "tls"
    /\ cpc = "peek" => port = "plain"
    /\ cpc \in {"accept", "hello", "peek"} => taken = 0
    /\ cpc \in {"accept", "hello"} => hdr = <<>>
    /\ cpc # "hyper" => seen = <<>> /\ ppos = 0

(* What the TLS port has looked at.                                           *)
LookedAt ==
    /\ cpc = "read" => taken = Len(hdr) /\ \A k \in 1..Len(hdr) : stream[k] # "eoh"
    /\ port = "tls" /\ cpc \in {"request", "hyper"} =>
          /\ Len(hdr) <= taken
          /\ \A k \in 1..(Len(hdr) - 1) : stream[k] # "eoh"
          /\ Ended(Len(hdr)) \/ closed
          /\ (cpc = "request") <=> IsWs(hdr)
          /\ cpc = "request" => taken = Len(hdr)

(* What hyper has read.                                                       *)
ReadSoFar ==
    cpc = "hyper" =>
        /\ ppos < Len(Prefix) => taken = Len(Prefix)
        /\ seen = SubSeq(stream, 1, IF ppos < Len(Prefix) THEN ppos ELSE taken)

ReadInv == ReadTypeOK /\ ReadStage /\ LookedAt /\ ReadSoFar

Kinds == {"line", "host", "upgrade", "eoh", "data"}

LEMMA StreamSeq ==
    ASSUME NEW s \in Streams \cup {<<>>}
    PROVE  s \in Seq(Kinds) /\ Len(s) \in Nat
<1>1. s \in Seq(Kinds)
  BY ConnectionAssumption, EmptySeq DEF Kinds
<1> QED BY <1>1, LenProperties

(* The head of a stream none of whose marks before the h-th is a blank line.  *)
LEMMA HeadFound ==
    ASSUME NEW s \in Seq(Kinds), NEW h \in 0..Len(s), \A k \in 1..(h - 1) : s[k] # "eoh"
    PROVE  \/ HeadOf(s) = SubSeq(s, 1, h)
           \/ (h = 0 \/ s[h] # "eoh") /\ h < Len(HeadOf(s))
<1> DEFINE I == {i \in 1..Len(s) : s[i] = "eoh"}
<1>1. Len(s) \in Nat /\ h \in Nat /\ h <= Len(s)
  BY LenProperties
<1>2. CASE I = {}
  <2>1. HeadOf(s) = s
    BY <1>2 DEF HeadOf, SelectInSeq
  <2>2. SubSeq(s, 1, Len(s)) = s
    BY SubSeqFull
  <2>3. h # 0 => h \in 1..Len(s)
    BY <1>1
  <2>4. h = 0 \/ s[h] # "eoh"
    BY <1>2, <2>3
  <2>5. CASE h = Len(s)
    BY <2>1, <2>2, <2>5
  <2>6. CASE h < Len(s)
    BY <2>1, <2>4, <2>6
  <2> QED BY <1>1, <2>5, <2>6
<1>3. CASE I # {}
  <2>1. I \in SUBSET Nat
    OBVIOUS
  <2>2. \E x \in I : \A y \in I : x <= y
    <3> HIDE DEF I
    <3> QED BY <1>3, <2>1, Least
  <2> DEFINE n == Min(I)
  <2>3. n \in I /\ \A y \in I : n <= y
    <3> HIDE DEF I
    <3> QED BY <2>2 DEF Min
  <2>4. n \in 1..Len(s) /\ s[n] = "eoh" /\ n # 0
    <3> HIDE DEF n
    <3> QED BY <2>3
  <2>5. HeadOf(s) = SubSeq(s, 1, n)
    BY <1>3, <2>4 DEF HeadOf, SelectInSeq
  <2> HIDE DEF n
  <2>6. n >= h
    BY <1>1, <2>4
  <2>7. Len(HeadOf(s)) = n
    <3>1. n \in 0..Len(s)
      BY <1>1, <2>4
    <3> QED BY <2>5, <3>1, FrontSeq
  <2>8. CASE h # 0 /\ s[h] = "eoh"
    <3>1. h \in I
      BY <1>1, <2>8
    <3>2. n = h
      BY <1>1, <2>3, <2>4, <2>6, <3>1
    <3> QED BY <2>5, <3>2
  <2>9. CASE h = 0 \/ s[h] # "eoh"
    <3>1. n # h
      BY <2>4, <2>9
    <3> QED BY <1>1, <2>4, <2>6, <2>7, <2>9, <3>1
  <2> QED BY <2>8, <2>9
<1> QED BY <1>2, <1>3

LEMMA ReadIsIntact == ReadInv => RequestIntact
<1> SUFFICES ASSUME ReadInv PROVE RequestIntact
  OBVIOUS
<1>1. /\ stream \in Seq(Kinds) /\ Len(stream) \in Nat
      /\ arrived \in Nat /\ arrived <= Len(stream) /\ taken \in Nat /\ taken <= arrived
      /\ Len(hdr) \in Nat /\ Len(hdr) <= arrived /\ ppos \in Nat /\ ppos <= Len(hdr)
      /\ hdr = SubSeq(stream, 1, Len(hdr))
  BY StreamSeq DEF ReadInv, ReadTypeOK
<1>2. IsPrefix(seen, stream)
  <2>1. PICK n \in 0..Len(stream) : seen = SubSeq(stream, 1, n)
    <3>1. CASE cpc = "hyper"
      BY <1>1, <3>1 DEF ReadInv, ReadSoFar
    <3>2. CASE cpc # "hyper"
      <4>1. SubSeq(stream, 1, 0) = <<>>
        BY SubSeqEmpty
      <4> QED BY <1>1, <3>2, <4>1 DEF ReadInv, ReadStage
    <3> QED BY <3>1, <3>2
  <2> QED BY <1>1, <2>1, FrontIsPrefix
<1>3. ASSUME port = "tls", cpc \in {"request", "hyper"}
      PROVE  hdr = HeadOf(stream) \/ (closed /\ Len(hdr) < Len(HeadOf(stream)))
  <2> DEFINE h == Len(hdr)
  <2>1. (\A k \in 1..(h - 1) : stream[k] # "eoh") /\ (Ended(h) \/ closed) /\ h \in 0..Len(stream)
    <3>1. (\A k \in 1..(h - 1) : stream[k] # "eoh") /\ (Ended(h) \/ closed)
      BY <1>3, Zenon DEF ReadInv, LookedAt
    <3> QED BY <1>1, <3>1
  <2>2. \/ HeadOf(stream) = SubSeq(stream, 1, h)
        \/ (h = 0 \/ stream[h] # "eoh") /\ h < Len(HeadOf(stream))
    <3> HIDE DEF h
    <3> QED BY <1>1, <2>1, HeadFound
  <2> QED BY <1>1, <2>1, <2>2 DEF Ended
<1>4. ASSUME port = "tls", cpc \in {"request", "hyper"}
      PROVE  ((cpc = "request") <=> IsWs(hdr)) /\ (cpc = "request" => taken = Len(hdr))
  BY <1>4 DEF ReadInv, LookedAt
<1> QED BY <1>2, <1>3, <1>4 DEF RequestIntact

LEMMA ReadInitially == Init => ReadInv
<1> SUFFICES ASSUME Init PROVE ReadInv
  OBVIOUS
<1>1. stream \in Seq(Kinds) /\ Len(stream) \in Nat /\ stream \in Streams \cup {<<>>}
  BY StreamSeq DEF Init
<1>2. SubSeq(stream, 1, 0) = <<>> /\ Len(<<>>) = 0
  BY SubSeqEmpty, EmptySeq
<1>3. ReadTypeOK
  <2>1. 0 \in 0..Len(stream) /\ 0 \in 0..0 /\ Len(hdr) = 0 /\ hdr = SubSeq(stream, 1, 0)
    BY <1>1, <1>2 DEF Init
  <2>2. "accept" \in Stages
    BY DEF Stages
  <2> QED BY <1>1, <2>1, <2>2, Zenon DEF Init, ReadTypeOK
<1> QED BY <1>3 DEF Init, ReadInv, ReadStage, LookedAt, ReadSoFar

LEMMA ReadBasics ==
    ASSUME ReadTypeOK
    PROVE  /\ stream \in Seq(Kinds) /\ Len(stream) \in Nat
           /\ arrived \in Nat /\ arrived <= Len(stream) /\ taken \in Nat /\ taken <= arrived
           /\ Len(hdr) \in Nat /\ Len(hdr) <= arrived /\ ppos \in Nat /\ ppos <= Len(hdr)
           /\ hdr = SubSeq(stream, 1, Len(hdr))
           /\ hdr \in Seq(Kinds)
           /\ \A k \in 1..Len(hdr) : hdr[k] = stream[k]
<1>1. /\ stream \in Seq(Kinds) /\ Len(stream) \in Nat
      /\ arrived \in Nat /\ arrived <= Len(stream) /\ taken \in Nat /\ taken <= arrived
      /\ Len(hdr) \in Nat /\ Len(hdr) <= arrived /\ ppos \in Nat /\ ppos <= Len(hdr)
      /\ hdr = SubSeq(stream, 1, Len(hdr))
  BY StreamSeq DEF ReadTypeOK
<1> DEFINE n == Len(hdr)
<1>2. n \in 0..Len(stream) /\ hdr = SubSeq(stream, 1, n)
  BY <1>1
<1> HIDE DEF n
<1>3. SubSeq(stream, 1, n) \in Seq(Kinds) /\ \A k \in 1..n : SubSeq(stream, 1, n)[k] = stream[k]
  BY <1>1, <1>2, FrontSeq
<1> QED BY <1>1, <1>2, <1>3 DEF n

(* More arrives, or no more will; the request is left as it is.               *)
LEMMA ReadWaits ==
    ASSUME ReadInv,
           \/ \E n \in 1..Len(stream) : Arrive(n)
           \/ ClientCloses
    PROVE  ReadInv'
<1>1. /\ stream \in Seq(Kinds) /\ Len(stream) \in Nat
      /\ arrived \in Nat /\ arrived <= Len(stream) /\ taken \in Nat /\ taken <= arrived
      /\ Len(hdr) \in Nat /\ Len(hdr) <= arrived /\ ppos \in Nat /\ ppos <= Len(hdr)
      /\ hdr = SubSeq(stream, 1, Len(hdr)) /\ hdr \in Seq(Kinds)
      /\ \A k \in 1..Len(hdr) : hdr[k] = stream[k]
  BY ReadBasics DEF ReadInv
<1>2. /\ UNCHANGED <<cpc, port, stream, taken, hdr, ppos, seen>>
      /\ arrived' \in Nat /\ arrived <= arrived' /\ arrived' <= Len(stream)
      /\ closed' \in BOOLEAN /\ (closed => closed')
  <2>1. CASE ClientCloses
    BY <1>1, <2>1 DEF ClientCloses
  <2>2. ASSUME NEW n \in 1..Len(stream), Arrive(n)
        PROVE  /\ UNCHANGED <<cpc, port, stream, taken, hdr, ppos, seen, closed>>
               /\ arrived' \in Nat /\ arrived <= arrived' /\ arrived' <= Len(stream)
    BY <1>1, <2>2 DEF Arrive
  <2> QED BY <2>1, <2>2 DEF ReadInv, ReadTypeOK
<1>3. ReadTypeOK'
  <2>1. arrived' \in 0..Len(stream) /\ taken \in 0..arrived' /\ Len(hdr) \in 0..arrived'
    BY <1>1, <1>2
  <2> QED BY <1>2, <2>1 DEF ReadInv, ReadTypeOK
<1>4. ReadStage' /\ ReadSoFar'
  BY <1>2 DEF ReadInv, ReadStage, ReadSoFar, Prefix
<1>5. LookedAt'
  <2>1. Ended(Len(hdr))' <=> Ended(Len(hdr))
    BY <1>2 DEF Ended
  <2>2. IsWs(hdr)' <=> IsWs(hdr)
    BY <1>2 DEF IsWs
  <2> QED BY <1>2, <2>1, <2>2, Zenon DEF ReadInv, LookedAt
<1> QED BY <1>3, <1>4, <1>5 DEF ReadInv

(* The task goes on, to where the request is not looked at any more.          *)
Past == {"relay", "handle", "proxy", "fetch", "answered", "closed"}

LEMMA ReadIsPast ==
    ASSUME ReadInv, cpc' \in Past, port' = port,
           \/ UNCHANGED <<stream, arrived, closed, taken, hdr, ppos, seen>> /\ cpc # "hyper"
           \/ Forget
    PROVE  ReadInv'
<1>1. /\ cpc' \in Stages
      /\ cpc' \notin {"accept", "hello", "read", "peek", "request", "hyper"}
  BY DEF Past, Stages
<1>2. CASE UNCHANGED <<stream, arrived, closed, taken, hdr, ppos, seen>> /\ cpc # "hyper"
  BY <1>1, <1>2, Zenon DEF ReadInv, ReadTypeOK, ReadStage, LookedAt, ReadSoFar
<1>3. CASE Forget
  <2>1. Len(<<>>) = 0 /\ SubSeq(<<>>, 1, 0) = <<>> /\ 0 \in 0..0
    BY SubSeqEmpty, EmptySeq
  <2>2. ReadTypeOK'
    BY <1>1, <1>3, <2>1 DEF Forget, ReadTypeOK, ReadInv
  <2> QED BY <1>1, <1>3, <2>2, Zenon DEF Forget, ReadInv, ReadStage, LookedAt, ReadSoFar
<1> QED BY <1>2, <1>3

LEMMA ReadAccept ==
    ASSUME ReadInv, Accept \/ Hello
    PROVE  ReadInv'
<1>1. /\ UNCHANGED <<port, stream, arrived, closed, taken, hdr, ppos, seen>>
      /\ \/ cpc = "accept" /\ port = "tls" /\ cpc' = "hello"
         \/ cpc = "accept" /\ port = "plain" /\ cpc' = "peek"
         \/ cpc = "accept" /\ port = "redirect" /\ cpc' = "hyper"
         \/ cpc = "hello" /\ cpc' = "read"
         \/ cpc = "hello" /\ cpc' = "closed"
  BY DEF ReadInv, ReadTypeOK, Accept, Hello, Goes, Ports
<1>2. hdr = <<>> /\ Len(hdr) = 0 /\ taken = 0 /\ seen = <<>> /\ ppos = 0
  BY <1>1, EmptySeq DEF ReadInv, ReadStage
<1>3. ReadTypeOK'
  BY <1>1 DEF ReadInv, ReadTypeOK, Stages
<1>4. ReadStage'
  BY <1>1, <1>2 DEF ReadInv, ReadStage
<1>5. LookedAt'
  BY <1>1, <1>2 DEF LookedAt
<1>6. ReadSoFar'
  <2>1. SubSeq(stream, 1, 0) = <<>>
    BY SubSeqEmpty
  <2>2. cpc' = "hyper" => Len(Prefix') = 0
    BY <1>1, <1>2 DEF Prefix
  <2> QED BY <1>1, <1>2, <2>1, <2>2 DEF ReadSoFar
<1> QED BY <1>3, <1>4, <1>5, <1>6 DEF ReadInv

LEMMA ReadByte ==
    ASSUME ReadInv, ReadHeader
    PROVE  ReadInv'
<1>1. /\ cpc = "read" /\ port = "tls"
      /\ UNCHANGED <<port, stream, arrived, closed, ppos, seen>>
      /\ \/ /\ taken < arrived /\ taken' = taken + 1 /\ hdr' = Append(hdr, stream[taken + 1])
         \/ /\ taken = arrived /\ closed /\ taken' = taken /\ hdr' = hdr
      /\ \/ /\ cpc' = "read" /\ taken' # taken /\ Last(hdr') # "eoh"
         \/ /\ cpc' = "request" /\ IsWs(hdr') /\ (taken' = taken \/ Last(hdr') = "eoh")
         \/ /\ cpc' = "hyper" /\ ~IsWs(hdr') /\ (taken' = taken \/ Last(hdr') = "eoh")
  <2>1. cpc = "read" /\ port = "tls"
    BY DEF ReadHeader, ReadInv, ReadStage
  <2> DEFINE complete == taken' = taken \/ Last(hdr') = "eoh"
             ws == IsWs(hdr')
  <2>2. cpc' = CASE ~complete -> "read"
                 [] complete /\ ws -> "request"
                 [] complete /\ ~ws -> "hyper"
    BY DEF ReadHeader, Goes
  <2>3. \/ cpc' = "read" /\ ~complete
        \/ cpc' = "request" /\ complete /\ ws
        \/ cpc' = "hyper" /\ complete /\ ~ws
    <3> HIDE DEF complete, ws
    <3> QED BY <2>2
  <2>4. /\ UNCHANGED <<port, stream, arrived, closed, ppos, seen>>
        /\ \/ /\ taken < arrived /\ taken' = taken + 1 /\ hdr' = Append(hdr, stream[taken + 1])
           \/ /\ taken = arrived /\ closed /\ taken' = taken /\ hdr' = hdr
    BY DEF ReadHeader
  <2> QED BY <2>1, <2>3, <2>4, Zenon
<1>2. taken = Len(hdr) /\ (\A k \in 1..Len(hdr) : stream[k] # "eoh") /\ seen = <<>> /\ ppos = 0
  BY <1>1 DEF ReadInv, LookedAt, ReadStage
<1>3. /\ stream \in Seq(Kinds) /\ Len(stream) \in Nat
      /\ arrived \in Nat /\ arrived <= Len(stream) /\ taken \in Nat /\ taken <= arrived
      /\ Len(hdr) \in Nat /\ Len(hdr) <= arrived /\ ppos \in Nat /\ ppos <= Len(hdr)
      /\ hdr = SubSeq(stream, 1, Len(hdr)) /\ hdr \in Seq(Kinds)
      /\ \A k \in 1..Len(hdr) : hdr[k] = stream[k]
  BY ReadBasics DEF ReadInv
<1>4. /\ Len(hdr') = taken' /\ hdr' = SubSeq(stream, 1, taken')
      /\ taken' \in Nat /\ taken' <= arrived
      /\ \A k \in 1..(taken' - 1) : stream[k] # "eoh"
      /\ taken' # taken => taken' # 0 /\ Last(hdr') = stream[taken']
      /\ taken' = taken => closed /\ \A k \in 1..taken' : stream[k] # "eoh"
  <2>1. CASE taken' = taken + 1 /\ taken < arrived /\ hdr' = Append(hdr, stream[taken + 1])
    <3> DEFINE n == taken + 1
    <3>1. n \in 0..Len(stream) /\ taken \in 0..Len(stream) /\ n \in taken..Len(stream) /\ n \in 1..n
      BY <2>1, <1>3
    <3>2. Append(SubSeq(stream, 1, taken), stream[taken + 1]) = SubSeq(stream, 1, n)
      BY <3>1, <1>3, FrontGrows
    <3>3. Len(SubSeq(stream, 1, n)) = n /\ SubSeq(stream, 1, n)[n] = stream[n]
      <4> HIDE DEF n
      <4> QED BY <3>1, <1>3, FrontSeq
    <3>4. hdr' = SubSeq(stream, 1, n) /\ taken' = n
      BY <1>2, <1>3, <2>1, <3>2
    <3>5. Last(hdr') = stream[taken'] /\ Len(hdr') = taken' /\ hdr' = SubSeq(stream, 1, taken')
      <4> HIDE DEF n
      <4> QED BY <3>3, <3>4 DEF Last
    <3>6. taken' \in Nat /\ taken' <= arrived /\ taken' # 0 /\ taken' # taken
      BY <1>3, <2>1
    <3>7. \A k \in 1..(taken' - 1) : stream[k] # "eoh"
      BY <1>2, <1>3, <2>1
    <3> QED BY <3>5, <3>6, <3>7
  <2>2. CASE taken' = taken /\ hdr' = hdr /\ taken = arrived /\ closed
    <3>1. \A k \in 1..(taken - 1) : k \in 1..taken
      BY <1>3
    <3> QED BY <1>2, <1>3, <2>2, <3>1
  <2> QED BY <1>1, <2>1, <2>2
<1>5. ReadTypeOK'
  <2>1. cpc' \in Stages
    BY <1>1 DEF Stages
  <2>2. Len(hdr') \in 0..arrived /\ taken' \in 0..arrived /\ 0 \in 0..Len(hdr')
    BY <1>3, <1>4
  <2>3. ReadTypeOK /\ hdr' = SubSeq(stream, 1, Len(hdr'))
    BY <1>4 DEF ReadInv
  <2> QED BY <1>1, <1>2, <2>1, <2>2, <2>3, Zenon DEF ReadTypeOK
<1>6. ReadStage'
  BY <1>1, <1>2 DEF ReadStage
<1>7. cpc' = "read" => taken' = Len(hdr') /\ \A k \in 1..Len(hdr') : stream[k] # "eoh"
  <2> SUFFICES ASSUME cpc' = "read", NEW k \in 1..Len(hdr') PROVE stream[k] # "eoh"
    BY <1>4
  <2>1. taken' # taken /\ Last(hdr') # "eoh"
    BY <1>1
  <2>2. k = taken' \/ k \in 1..(taken' - 1)
    <3>1. k \in 1..taken' /\ taken' \in Nat
      BY <1>4, Zenon
    <3>2. \A m \in Nat : \A i \in 1..m : i = m \/ i \in 1..(m - 1)
      OBVIOUS
    <3> QED BY <3>1, <3>2, Zenon
  <2> QED BY <1>4, <2>1, <2>2
<1>8. cpc' # "read" => Ended(Len(hdr))' \/ closed'
  <2> SUFFICES ASSUME cpc' # "read" PROVE (Len(hdr') # 0 /\ stream'[Len(hdr')] = "eoh") \/ closed'
    BY DEF Ended
  <2> QED BY <1>1, <1>4
<1>9. LookedAt'
  <2>1. Len(hdr') <= taken' /\ taken' = Len(hdr')
    BY <1>4
  <2>2. \A k \in 1..(Len(hdr') - 1) : stream'[k] # "eoh"
    BY <1>1, <1>4
  <2>3. cpc' \in {"request", "hyper"} => ((cpc' = "request") <=> IsWs(hdr)')
    BY <1>1 DEF IsWs
  <2>4. cpc' \in {"request", "hyper"} => cpc' # "read"
    OBVIOUS
  <2>5. stream' = stream
    BY <1>1
  <2> QED BY <1>7, <1>8, <2>1, <2>2, <2>3, <2>4, <2>5, Zenon DEF LookedAt
<1>10. ReadSoFar'
  <2>1. Prefix' = hdr'
    BY <1>1 DEF Prefix
  <2>2. SubSeq(stream, 1, 0) = <<>>
    BY SubSeqEmpty
  <2>3. Len(Prefix') = taken' /\ taken' \in Nat
    BY <1>4, <2>1, Zenon
  <2>4. (IF ppos' < Len(Prefix') THEN ppos' ELSE taken') = 0
    BY <1>1, <1>2, <2>3
  <2> QED BY <1>1, <1>2, <2>2, <2>3, <2>4 DEF ReadSoFar
<1> QED BY <1>5, <1>6, <1>9, <1>10 DEF ReadInv

LEMMA ReadPeek ==
    ASSUME ReadInv, Peek
    PROVE  ReadInv'
<1>1. /\ stream \in Seq(Kinds) /\ Len(stream) \in Nat
      /\ arrived \in Nat /\ arrived <= Len(stream) /\ taken \in Nat /\ taken <= arrived
      /\ Len(hdr) \in Nat /\ Len(hdr) <= arrived /\ ppos \in Nat /\ ppos <= Len(hdr)
      /\ hdr = SubSeq(stream, 1, Len(hdr)) /\ hdr \in Seq(Kinds)
      /\ \A k \in 1..Len(hdr) : hdr[k] = stream[k]
  BY ReadBasics DEF ReadInv
<1>2. /\ cpc = "peek" /\ port = "plain" /\ taken = 0 /\ seen = <<>> /\ ppos = 0
      /\ hdr' = SubSeq(stream, 1, arrived) /\ cpc' \in {"request", "hyper"}
      /\ UNCHANGED <<port, stream, arrived, closed, taken, ppos, seen>>
  BY DEF Peek, Goes, ReadInv, ReadStage
<1>3. Len(hdr') = arrived
  <2>1. arrived \in 0..Len(stream)
    BY <1>1
  <2> QED BY <1>1, <1>2, <2>1, FrontSeq
<1>4. ReadTypeOK'
  <2>1. Len(hdr') \in 0..arrived /\ 0 \in 0..Len(hdr')
    BY <1>1, <1>3
  <2>2. cpc' \in Stages
    BY <1>2 DEF Stages
  <2>3. hdr' = SubSeq(stream, 1, Len(hdr'))
    BY <1>2, <1>3
  <2> QED BY <1>2, <2>1, <2>2, <2>3 DEF ReadInv, ReadTypeOK
<1>5. ReadStage' /\ LookedAt'
  BY <1>2 DEF ReadStage, LookedAt
<1>6. ReadSoFar'
  <2>1. Len(Prefix') = 0 /\ SubSeq(stream, 1, 0) = <<>>
    BY <1>2, EmptySeq, SubSeqEmpty DEF Prefix
  <2> QED BY <1>2, <2>1 DEF ReadSoFar
<1> QED BY <1>4, <1>5, <1>6 DEF ReadInv

(* The plain port reads the upgrade in pieces.                                *)
LEMMA ReadUpgrade ==
    ASSUME ReadInv, NEW known \in BOOLEAN, UpgradeRequest(known)
    PROVE  ReadInv'
<1>1. /\ stream \in Seq(Kinds) /\ Len(stream) \in Nat
      /\ arrived \in Nat /\ arrived <= Len(stream) /\ taken \in Nat /\ taken <= arrived
      /\ Len(hdr) \in Nat /\ Len(hdr) <= arrived /\ ppos \in Nat /\ ppos <= Len(hdr)
      /\ hdr = SubSeq(stream, 1, Len(hdr)) /\ hdr \in Seq(Kinds)
      /\ \A k \in 1..Len(hdr) : hdr[k] = stream[k]
  BY ReadBasics DEF ReadInv
<1>2. CASE cpc' = "relay" /\ Forget /\ port' = port
  BY <1>2, ReadIsPast DEF Past
<1>3. CASE /\ cpc = "request" /\ port # "tls"
           /\ \E k \in (taken + 1)..arrived : taken' = k
           /\ UNCHANGED <<cpc, port, stream, arrived, closed, hdr, ppos, seen>>
  <2>1. taken' \in 0..arrived
    BY <1>1, <1>3
  <2> QED BY <1>3, <2>1 DEF ReadInv, ReadTypeOK, ReadStage, LookedAt, ReadSoFar
<1> QED BY <1>2, <1>3 DEF UpgradeRequest, Goes

LEMMA ReadHyper ==
    ASSUME ReadInv, NEW n \in 1..Len(stream), HyperRead(n)
    PROVE  ReadInv'
<1> DEFINE p == Len(Prefix)
           left == p - ppos
           k == IF n < left THEN n ELSE left
<1>1. /\ stream \in Seq(Kinds) /\ Len(stream) \in Nat
      /\ arrived \in Nat /\ arrived <= Len(stream) /\ taken \in Nat /\ taken <= arrived
      /\ Len(hdr) \in Nat /\ Len(hdr) <= arrived /\ ppos \in Nat /\ ppos <= Len(hdr)
      /\ hdr = SubSeq(stream, 1, Len(hdr)) /\ hdr \in Seq(Kinds)
      /\ \A j \in 1..Len(hdr) : hdr[j] = stream[j]
  BY ReadBasics DEF ReadInv
<1>12. n \in Nat /\ n > 0
  BY <1>1
<1>2. /\ cpc = "hyper"
      /\ UNCHANGED <<cpc, port, stream, arrived, closed, hdr>>
      /\ \/ /\ left > 0 /\ taken' = taken
            /\ ppos' = ppos + k /\ seen' = seen \o SubSeq(Prefix, ppos + 1, ppos + k)
         \/ /\ left = 0 /\ n <= arrived - taken /\ ppos' = ppos
            /\ taken' = taken + n /\ seen' = seen \o SubSeq(stream, taken + 1, taken + n)
  BY Zenon DEF HyperRead
<1>3. /\ ppos < p => taken = p
      /\ seen = SubSeq(stream, 1, IF ppos < p THEN ppos ELSE taken)
  BY <1>2 DEF ReadInv, ReadSoFar
<1>4. \/ port = "tls" /\ Prefix = hdr /\ p = Len(hdr)
      \/ port # "tls" /\ Prefix = <<>> /\ p = 0
  BY EmptySeq DEF Prefix
<1>5. p \in Nat /\ p <= Len(hdr)
  BY <1>1, <1>4
<1>6. Prefix' = Prefix
  BY <1>2 DEF Prefix
<1>7. /\ ppos' \in Nat /\ ppos' <= Len(hdr)
      /\ taken' \in Nat /\ taken <= taken' /\ taken' <= arrived
      /\ ppos' < p => taken' = p
      /\ seen' = SubSeq(stream, 1, IF ppos' < p THEN ppos' ELSE taken')
  <2>1. CASE left > 0
    <3>1. ppos < p /\ k \in Nat /\ ppos + k <= p /\ taken' = taken /\ ppos' = ppos + k /\ taken = p
      <4>1. ppos < p /\ k \in Nat /\ ppos + k <= p
        BY <1>1, <1>12, <1>5, <2>1
      <4>2. taken' = taken /\ ppos' = ppos + k
        <5> HIDE DEF k, p
        <5>1. left # 0
          BY <2>1
        <5> QED BY <1>2, <5>1, Zenon
      <4> QED BY <4>1, <4>2, <1>3
    <3>2. port = "tls" /\ Prefix = hdr /\ p = Len(hdr)
      BY <1>1, <1>4, <3>1
    <3> HIDE DEF k, p, left
    <3>3. seen = SubSeq(hdr, 1, ppos)
      <4>1. p \in 0..Len(stream) /\ ppos \in 0..p /\ hdr = SubSeq(stream, 1, p)
        BY <1>1, <3>1, <3>2
      <4>2. SubSeq(SubSeq(stream, 1, p), 1, ppos) = SubSeq(stream, 1, ppos)
        BY <1>1, <4>1, FrontOfFront
      <4> QED BY <1>3, <3>1, <4>1, <4>2
    <3>4. seen' = SubSeq(hdr, 1, ppos + k)
      <4> DEFINE q == ppos + k
      <4>1. ppos \in 0..Len(hdr) /\ q \in ppos..Len(hdr)
        BY <1>1, <3>1, <3>2
      <4>2. seen' = SubSeq(hdr, 1, ppos) \o SubSeq(hdr, ppos + 1, q)
        <5>1. left # 0
          BY <2>1 DEF left
        <5>2. seen' = seen \o SubSeq(Prefix, ppos + 1, ppos + k)
          BY <1>2, <5>1, Zenon
        <5> QED BY <5>2, <3>2, <3>3
      <4> HIDE DEF q
      <4>3. SubSeq(hdr, 1, ppos) \o SubSeq(hdr, ppos + 1, q) = SubSeq(hdr, 1, q)
        BY <1>1, <4>1, FrontGrows
      <4> QED BY <4>2, <4>3 DEF q
    <3>5. seen' = SubSeq(stream, 1, ppos + k)
      <4> DEFINE q == ppos + k
      <4>1. p \in 0..Len(stream) /\ q \in 0..p /\ hdr = SubSeq(stream, 1, p)
        BY <1>1, <3>1, <3>2
      <4> HIDE DEF q
      <4>2. SubSeq(SubSeq(stream, 1, p), 1, q) = SubSeq(stream, 1, q)
        BY <1>1, <4>1, FrontOfFront
      <4> QED BY <3>4, <4>1, <4>2 DEF q
    <3>6. (IF ppos' < p THEN ppos' ELSE taken') = ppos + k
      BY <1>1, <1>5, <3>1
    <3>7. taken <= taken' /\ ppos' \in Nat /\ ppos' <= Len(hdr)
      BY <1>1, <3>1, <3>2
    <3> QED BY <1>1, <3>1, <3>5, <3>6, <3>7
  <2>2. CASE left = 0
    <3> HIDE DEF k, p
    <3>11. ~(left > 0) /\ ~(ppos < p)
      BY <1>1, <1>5, <2>2
    <3>12. ppos' = ppos /\ taken' = taken + n /\ n <= arrived - taken
      BY <1>2, <3>11, Zenon
    <3>1. ~(ppos < p) /\ ppos' = ppos /\ taken' = taken + n /\ taken + n <= arrived
      BY <1>1, <1>12, <3>11, <3>12
    <3> HIDE DEF left
    <3>2. seen' = SubSeq(stream, 1, taken) \o SubSeq(stream, taken + 1, taken + n)
      <4>1. seen' = seen \o SubSeq(stream, taken + 1, taken + n)
        BY <1>2, <3>11, Zenon
      <4> QED BY <4>1, <1>3, <3>1
    <3> DEFINE q == taken + n
    <3>3. taken \in 0..Len(stream) /\ q \in taken..Len(stream) /\ q \in Nat
      BY <1>1, <1>12, <3>1
    <3>4. seen' = SubSeq(stream, 1, q)
      <4> HIDE DEF q
      <4>1. SubSeq(stream, 1, taken) \o SubSeq(stream, taken + 1, q) = SubSeq(stream, 1, q)
        BY <1>1, <3>3, FrontGrows
      <4> QED BY <3>2, <4>1 DEF q
    <3>5. ~(ppos' < p) /\ taken' = q /\ taken <= taken' /\ taken' <= arrived
      BY <1>1, <1>12, <3>1
    <3> HIDE DEF q
    <3> QED BY <1>1, <3>1, <3>3, <3>4, <3>5
  <2> QED BY <1>2, <2>1, <2>2
<1> HIDE DEF k, left
<1>8. ReadTypeOK'
  <2>1. taken' \in 0..arrived /\ ppos' \in 0..Len(hdr)
    BY <1>1, <1>7
  <2> QED BY <1>2, <2>1 DEF ReadInv, ReadTypeOK
<1>9. ReadStage'
  BY <1>2 DEF ReadStage
<1>10. LookedAt'
  <2>1. Ended(Len(hdr))' <=> Ended(Len(hdr))
    BY <1>2 DEF Ended
  <2>2. IsWs(hdr)' <=> IsWs(hdr)
    BY <1>2 DEF IsWs
  <2>3. Len(hdr) <= taken => Len(hdr) <= taken'
    BY <1>1, <1>7
  <2>4. cpc' = "hyper" /\ "hyper" # "read" /\ "hyper" # "request"
    BY <1>2
  <2> QED BY <1>2, <2>1, <2>2, <2>3, <2>4, Zenon DEF ReadInv, LookedAt
<1>11. ReadSoFar'
  BY <1>2, <1>6, <1>7 DEF ReadSoFar
<1> QED BY <1>8, <1>9, <1>10, <1>11 DEF ReadInv

LEMMA ReadPreserved == ReadInv /\ [Next]_vars => ReadInv'
<1> SUFFICES ASSUME ReadInv, [Next]_vars PROVE ReadInv'
  OBVIOUS
<1>1. CASE UNCHANGED vars
  <2>1. UNCHANGED <<cpc, port, stream, arrived, closed, taken, hdr, ppos, seen>>
    BY <1>1 DEF vars, connVars
  <2> QED BY <2>1 DEF ReadInv, ReadTypeOK, ReadStage, LookedAt, ReadSoFar, Prefix, Ended, IsWs
<1>2. CASE Next
  <2>1. CASE (\E n \in 1..Len(stream) : Arrive(n)) \/ ClientCloses
    BY <2>1, ReadWaits
  <2>2. CASE Accept \/ Hello
    BY <2>2, ReadAccept
  <2>3. CASE ReadHeader
    BY <2>3, ReadByte
  <2>4. CASE Peek
    BY <2>4, ReadPeek
  <2>5. CASE \E known \in BOOLEAN : UpgradeRequest(known)
    BY <2>5, ReadUpgrade
  <2>6. CASE \E n \in 1..Len(stream) : HyperRead(n)
    BY <2>6, ReadHyper
  <2>7. CASE HyperHead
    <3>1. cpc' \in Past /\ port' = port /\ Forget
      BY <2>7 DEF HyperHead, Goes, Past
    <3> QED BY <3>1, ReadIsPast
  <2>8. CASE \/ RedirectToHttps \/ Handle \/ Interstitial \/ ProxyFails \/ ProxyUpgraded
             \/ \E r \in Responses : Proxied(r)
    <3>1. /\ cpc' \in Past /\ port' = port /\ cpc # "hyper"
          /\ UNCHANGED <<stream, arrived, closed, taken, hdr, ppos, seen>>
      BY <2>8 DEF RedirectToHttps, Handle, Interstitial, ProxyFails, ProxyUpgraded, Proxied,
                  Answers, Goes, Past
    <3> QED BY <3>1, ReadIsPast
  <2>9. CASE Fetch \/ Relaying
    <3>1. /\ cpc' \in Past /\ port' = port /\ cpc # "hyper"
          /\ UNCHANGED <<stream, arrived, closed, taken, hdr, ppos, seen>>
      BY <2>9 DEF Fetch, Relaying, connVars, Past
    <3> QED BY <3>1, ReadIsPast
  <2> QED BY <1>2, <2>1, <2>2, <2>3, <2>4, <2>5, <2>6, <2>7, <2>8, <2>9 DEF Next, Edge
<1> QED BY <1>1, <1>2

-----------------------------------------------------------------------------
(* The answer.                                                                *)
AnswerInv ==
    /\ resp \in Responses \cup {NoResponse, Upgraded}
    /\ answer.status \in {0, 101, 200, 301, 400, 429, 502}
    /\ cpc # "answered" => resp = NoResponse
    /\ ServedWhole

(* There is a last among some places of a sequence.                           *)
LEMMA Greatest ==
    ASSUME NEW n \in Nat, NEW T \in SUBSET (0..n), T # {}
    PROVE  \E x \in T : \A y \in T : x >= y
<1> DEFINE D == {n - y : y \in T}
<1>1. D \in SUBSET Nat /\ D # {}
  <2>1. \A y \in T : n - y \in Nat
    OBVIOUS
  <2>2. D \subseteq Nat
    BY <2>1
  <2>3. PICK y \in T : TRUE
    OBVIOUS
  <2>4. n - y \in D
    OBVIOUS
  <2> QED BY <2>2, <2>4
<1>2. PICK d \in D : \A c \in D : d <= c
  <2> HIDE DEF D
  <2> QED BY <1>1, Least
<1>3. PICK x \in T : d = n - x
  OBVIOUS
<1>4. ASSUME NEW y \in T PROVE x >= y
  <2>1. n - x <= n - y
    BY <1>2, <1>3
  <2>2. x \in Int /\ y \in Int
    OBVIOUS
  <2> QED BY <2>1, <2>2
<1> QED BY <1>4

(* InsertAt, element by element, and RemoveAt undoes it.                      *)
LEMMA Inserted ==
    ASSUME NEW S, NEW s \in Seq(S), NEW e \in S, NEW i \in 1..(Len(s) + 1)
    PROVE  /\ InsertAt(s, i, e) \in Seq(S) /\ Len(InsertAt(s, i, e)) = Len(s) + 1
           /\ InsertAt(s, i, e)[i] = e
           /\ \A j \in 1..(i - 1) : InsertAt(s, i, e)[j] = s[j]
           /\ \A j \in (i + 1)..(Len(s) + 1) : InsertAt(s, i, e)[j] = s[j - 1]
           /\ RemoveAt(InsertAt(s, i, e), i) = s
<1> DEFINE n == Len(s)
           a == SubSeq(s, 1, i - 1)
           b == SubSeq(s, i, n)
           ae == a \o <<e>>
           t == ae \o b
<1>1. n \in Nat /\ i \in Nat /\ i >= 1 /\ i <= n + 1 /\ i - 1 \in 0..n
  BY LenProperties
<1>2. a \in Seq(S) /\ Len(a) = i - 1 /\ \A j \in 1..(i - 1) : a[j] = s[j]
  BY <1>1, FrontSeq
<1>3. b \in Seq(S) /\ Len(b) = n - i + 1 /\ \A j \in 1..(n - i + 1) : b[j] = s[i + j - 1]
  <2>1. i \in Int /\ n \in Int
    BY <1>1
  <2>2. \A j \in i..n : s[j] \in S
    BY <1>1, ElementOfSeq
  <2>3. b \in Seq(S) /\ Len(b) = (IF i <= n THEN n - i + 1 ELSE 0)
        /\ \A j \in 1..(n - i + 1) : b[j] = s[i + j - 1]
    BY <2>1, <2>2, SubSeqProperties
  <2> HIDE DEF b
  <2>4. Len(b) = n - i + 1
    BY <1>1, <2>3
  <2> QED BY <2>3, <2>4
<1>4. <<e>> \in Seq(S) /\ Len(<<e>>) = 1 /\ <<e>>[1] = e
  OBVIOUS
<1> HIDE DEF a, b
<1>5. ae \in Seq(S) /\ Len(ae) = i /\ ae[i] = e /\ \A j \in 1..(i - 1) : ae[j] = s[j]
  <2> DEFINE g == <<e>>
  <2> HIDE DEF g
  <2>1. g \in Seq(S) /\ Len(g) = 1 /\ g[1] = e
    BY <1>4 DEF g
  <2>2. /\ a \o g \in Seq(S) /\ Len(a \o g) = Len(a) + Len(g)
        /\ \A j \in 1..(Len(a) + Len(g)) : (a \o g)[j] = IF j <= Len(a) THEN a[j] ELSE g[j - Len(a)]
    BY <1>2, <2>1, ConcatProperties
  <2>3. Len(a) + Len(g) = i /\ i - Len(a) = 1 /\ ~(i <= Len(a))
    BY <1>1, <1>2, <2>1
  <2>4. (a \o g)[i] = e
    BY <1>1, <2>1, <2>2, <2>3
  <2>5. ASSUME NEW j \in 1..(i - 1) PROVE (a \o g)[j] = s[j]
    <3>1. j \in 1..(Len(a) + Len(g)) /\ j <= Len(a)
      BY <1>1, <1>2, <2>3
    <3> QED BY <1>2, <2>2, <3>1
  <2> QED BY <2>2, <2>3, <2>4, <2>5 DEF g
<1> HIDE DEF ae
<1>6. /\ t \in Seq(S) /\ Len(t) = n + 1
      /\ \A j \in 1..(n + 1) : t[j] = IF j <= i THEN ae[j] ELSE b[j - i]
  <2>1. /\ t \in Seq(S) /\ Len(t) = Len(ae) + Len(b)
        /\ \A j \in 1..(Len(ae) + Len(b)) : t[j] = IF j <= Len(ae) THEN ae[j] ELSE b[j - Len(ae)]
    BY <1>3, <1>5, ConcatProperties
  <2>2. Len(ae) + Len(b) = n + 1 /\ Len(ae) = i
    BY <1>1, <1>3, <1>5
  <2> HIDE DEF t
  <2> QED BY <2>1, <2>2
<1> HIDE DEF t
<1>7. t[i] = e /\ \A j \in 1..(i - 1) : t[j] = s[j]
  BY <1>1, <1>5, <1>6
<1>8. ASSUME NEW j \in (i + 1)..(n + 1) PROVE t[j] = s[j - 1]
  <2>1. j \in 1..(n + 1) /\ ~(j <= i) /\ j - i \in 1..(n - i + 1) /\ i + (j - i) - 1 = j - 1
    BY <1>1
  <2>2. t[j] = b[j - i]
    BY <1>6, <2>1
  <2>3. b[j - i] = s[i + (j - i) - 1]
    BY <1>3, <2>1
  <2> QED BY <2>1, <2>2, <2>3
<1>9. RemoveAt(t, i) = s
  <2> DEFINE x == SubSeq(t, 1, i - 1)
             y == SubSeq(t, i + 1, n + 1)
             z == x \o y
  <2>1. x \in Seq(S) /\ Len(x) = i - 1 /\ \A j \in 1..(i - 1) : x[j] = s[j]
    <3>1. i - 1 \in 0..Len(t)
      BY <1>1, <1>6
    <3>2. x \in Seq(S) /\ Len(x) = i - 1 /\ \A j \in 1..(i - 1) : x[j] = t[j]
      BY <1>6, <3>1, FrontSeq
    <3> QED BY <1>7, <3>2
  <2>2. y \in Seq(S) /\ Len(y) = n + 1 - i /\ \A j \in 1..(n + 1 - i) : y[j] = s[i + j - 1]
    <3>1. i + 1 \in Int /\ n + 1 \in Int
      BY <1>1
    <3>2. \A j \in (i + 1)..(n + 1) : t[j] \in S
      <4>1. \A j \in (i + 1)..(n + 1) : j \in 1..Len(t)
        BY <1>1, <1>6
      <4> QED BY <4>1, <1>6, ElementOfSeq
    <3>3. y \in Seq(S) /\ Len(y) = (IF i + 1 <= n + 1 THEN n + 1 - (i + 1) + 1 ELSE 0)
          /\ \A j \in 1..(n + 1 - (i + 1) + 1) : y[j] = t[i + 1 + j - 1]
      BY <3>1, <3>2, SubSeqProperties
    <3> HIDE DEF y
    <3>4. Len(y) = n + 1 - i
      BY <1>1, <3>3
    <3>5. ASSUME NEW j \in 1..(n + 1 - i) PROVE y[j] = s[i + j - 1]
      <4>1. /\ j \in 1..(n + 1 - (i + 1) + 1) /\ i + 1 + j - 1 \in (i + 1)..(n + 1)
            /\ (i + 1 + j - 1) - 1 = i + j - 1
        BY <1>1
      <4>2. y[j] = t[i + 1 + j - 1]
        BY <3>3, <4>1
      <4>3. t[i + 1 + j - 1] = s[(i + 1 + j - 1) - 1]
        BY <1>8, <4>1
      <4> QED BY <4>1, <4>2, <4>3
    <3> QED BY <3>3, <3>4, <3>5
  <2> HIDE DEF x, y
  <2>3. /\ z \in Seq(S) /\ Len(z) = Len(x) + Len(y)
        /\ \A j \in 1..(Len(x) + Len(y)) : z[j] = IF j <= Len(x) THEN x[j] ELSE y[j - Len(x)]
    BY <2>1, <2>2, ConcatProperties
  <2> HIDE DEF z
  <2>4. Len(x) + Len(y) = n /\ Len(z) = n
    BY <1>1, <2>1, <2>2, <2>3
  <2>5. ASSUME NEW j \in 1..n PROVE z[j] = s[j]
    <3>1. CASE j <= i - 1
      <4>1. j \in 1..(i - 1) /\ j <= Len(x) /\ j \in 1..(Len(x) + Len(y))
        BY <1>1, <2>1, <2>4, <3>1
      <4>2. z[j] = x[j]
        BY <2>3, <4>1
      <4> QED BY <2>1, <4>1, <4>2
    <3>2. CASE ~(j <= i - 1)
      <4>1. j - Len(x) \in 1..(n + 1 - i) /\ i + (j - Len(x)) - 1 = j /\ ~(j <= Len(x))
        BY <1>1, <2>1, <3>2
      <4>2. z[j] = y[j - Len(x)]
        BY <2>3, <2>4, <4>1
      <4>3. y[j - Len(x)] = s[i + (j - Len(x)) - 1]
        BY <2>2, <4>1
      <4> QED BY <4>1, <4>2, <4>3
    <3> QED BY <3>1, <3>2
  <2>6. z = s
    BY <2>3, <2>4, <2>5, SeqEqual
  <2>7. RemoveAt(t, i) = z
    BY <1>6 DEF RemoveAt, z, x, y
  <2> QED BY <2>6, <2>7
<1>10. InsertAt(s, i, e) = t
  BY DEF InsertAt, t, ae, a, b
<1> QED BY <1>6, <1>7, <1>8, <1>9, <1>10

LEMMA AppendedIsInserted ==
    ASSUME NEW S, NEW s \in Seq(S), NEW e \in S
    PROVE  Append(s, e) = InsertAt(s, Len(s) + 1, e)
<1>1. Len(s) \in Nat /\ Len(s) + 1 - 1 = Len(s)
  BY LenProperties
<1>2. SubSeq(s, 1, Len(s)) = s
  BY SubSeqFull
<1>3. SubSeq(s, Len(s) + 1, Len(s)) = <<>>
  BY <1>1, SubSeqEmpty
<1>4. s \o <<e>> \in Seq(S) /\ Append(s, e) = s \o <<e>>
  BY AppendIsConcat, ConcatProperties
<1>5. (s \o <<e>>) \o <<>> = s \o <<e>>
  <2> DEFINE x == s \o <<e>>
  <2>1. x \in Seq(S)
    BY <1>4
  <2> HIDE DEF x
  <2>2. x \o <<>> = x
    BY <2>1, ConcatEmptySeq
  <2> QED BY <2>2 DEF x
<1>6. InsertAt(s, Len(s) + 1, e) = (s \o <<e>>) \o <<>>
  <2>1. InsertAt(s, Len(s) + 1, e)
           = (SubSeq(s, 1, Len(s) + 1 - 1) \o <<e>>) \o SubSeq(s, Len(s) + 1, Len(s))
    BY DEF InsertAt
  <2> QED BY <2>1, <1>1, <1>2, <1>3, Zenon
<1> QED BY <1>4, <1>5, <1>6

(* A script that is put before the last "</body>", or anywhere in a text      *)
(* without one.                                                               *)
LEMMA InsertedIsInjected ==
    ASSUME NEW s \in Seq(Marks \ {"guard"}), NEW i \in 1..(Len(s) + 1),
           \A j \in (i + 1)..Len(s) : s[j] # "body",
           (\E j \in 1..Len(s) : s[j] = "body") => i <= Len(s) /\ s[i] = "body"
    PROVE  IsInjected(InsertAt(s, i, "guard"), s)
<1> DEFINE t == InsertAt(s, i, "guard")
           n == Len(s)
<1>1. s \in Seq(Marks) /\ "guard" \in Marks
  BY SeqMonotonic, Marks \ {"guard"} \subseteq Marks DEF Marks, Tags
<1>2. /\ Len(t) = n + 1 /\ t[i] = "guard"
      /\ \A j \in 1..(i - 1) : t[j] = s[j]
      /\ \A j \in (i + 1)..(n + 1) : t[j] = s[j - 1]
      /\ RemoveAt(t, i) = s
  BY <1>1, Inserted
<1>3. n \in Nat
  BY LenProperties
<1> HIDE DEF t
<1>4. ASSUME NEW j \in (i + 2)..Len(t) PROVE t[j] # "body"
  <2>1. j \in (i + 1)..(n + 1) /\ j - 1 \in (i + 1)..n
    BY <1>2, <1>3
  <2> QED BY <1>2, <2>1
<1>5. ASSUME NEW j \in 1..Len(t), t[j] = "body" PROVE i < Len(t) /\ t[i + 1] = "body"
  <2>1. \E k \in 1..n : s[k] = "body"
    <3>1. CASE j < i
      <4>1. j \in 1..(i - 1) /\ j \in 1..n
        BY <1>3, <3>1
      <4> QED BY <1>2, <1>5, <4>1
    <3>2. CASE j > i
      <4>1. j \in (i + 1)..(n + 1) /\ j - 1 \in 1..n
        BY <1>2, <1>3, <3>2
      <4> QED BY <1>2, <1>5, <4>1
    <3>3. j # i
      BY <1>2, <1>5
    <3>4. j \in Int /\ i \in Int
      BY <1>2, <1>3
    <3> QED BY <3>1, <3>2, <3>3, <3>4
  <2>2. i <= n /\ s[i] = "body"
    BY <2>1
  <2>3. i + 1 \in (i + 1)..(n + 1) /\ i + 1 - 1 = i /\ i < n + 1
    BY <1>3, <2>2
  <2>4. t[i + 1] = s[i + 1 - 1]
    BY <1>2, <2>3
  <2> QED BY <1>2, <2>2, <2>3, <2>4
<1>6. i \in 1..Len(t)
  BY <1>2
<1>7. IsInjected(t, s)
  BY <1>2, <1>4, <1>5, <1>6 DEF IsInjected
<1> QED BY <1>7 DEF t

(* inject_into_html puts it there.                                            *)
LEMMA HtmlIsInjected ==
    ASSUME NEW s \in Seq(Marks \ {"guard"})
    PROVE  IsInjected(InjectIntoHtml(s), s)
<1> DEFINE n == Len(s)
           B == {i \in 1..n : s[i] = "body"}
           H == {i \in 1..n : s[i] = "html"}
           body == IF B # {} THEN Max(B) ELSE 0
           html == IF H # {} THEN Max(H) ELSE 0
<1>1. n \in Nat
  BY LenProperties
<1>2. InjectIntoHtml(s) = CASE body > 0 -> InsertAt(s, body, "guard")
                            [] body = 0 /\ html > 0 -> InsertAt(s, html, "guard")
                            [] OTHER -> Append(s, "guard")
  BY DEF InjectIntoHtml, SelectLastInSeq
<1>3. ASSUME NEW T \in SUBSET (1..n), T # {}
      PROVE  Max(T) \in T /\ \A y \in T : Max(T) >= y
  <2>1. T \in SUBSET (0..n)
    OBVIOUS
  <2>2. \E x \in T : \A y \in T : x >= y
    BY <1>1, <1>3, <2>1, Greatest
  <2> QED BY <2>2 DEF Max
<1>4. B \in SUBSET (1..n) /\ H \in SUBSET (1..n)
  OBVIOUS
<1>5. \/ body \in B /\ \A y \in B : body >= y
      \/ body = 0 /\ B = {}
  <2> HIDE DEF B
  <2> QED BY <1>3, <1>4
<1>6. html \in H \/ html = 0
  <2> HIDE DEF H
  <2> QED BY <1>3, <1>4
<1> HIDE DEF body, html
<1>7. CASE body \in B /\ \A y \in B : body >= y
  <2>1. body \in 1..n /\ s[body] = "body" /\ body > 0 /\ body \in 1..(Len(s) + 1) /\ body <= Len(s)
    BY <1>1, <1>7
  <2>2. ASSUME NEW j \in (body + 1)..Len(s) PROVE s[j] # "body"
    <3>1. j \in 1..n /\ ~(body >= j)
      BY <1>1, <2>1
    <3> QED BY <1>7, <3>1
  <2>3. InjectIntoHtml(s) = InsertAt(s, body, "guard")
    BY <1>2, <2>1
  <2>4. IsInjected(InsertAt(s, body, "guard"), s)
    BY <2>1, <2>2, InsertedIsInjected
  <2> QED BY <2>3, <2>4
<1>8. CASE body = 0 /\ B = {}
  <2>1. \A j \in 1..n : s[j] # "body"
    BY <1>8
  <2>2. ASSUME NEW i \in 1..(Len(s) + 1) PROVE IsInjected(InsertAt(s, i, "guard"), s)
    <3>1. \A j \in (i + 1)..Len(s) : s[j] # "body"
      BY <1>1, <2>1
    <3>2. ~ \E j \in 1..Len(s) : s[j] = "body"
      BY <2>1
    <3> QED BY <3>1, <3>2, InsertedIsInjected
  <2>3. CASE html \in H
    <3>1. html > 0 /\ html \in 1..(Len(s) + 1)
      BY <1>1, <2>3
    <3>2. InjectIntoHtml(s) = InsertAt(s, html, "guard")
      BY <1>2, <1>8, <3>1
    <3> QED BY <2>2, <3>1, <3>2
  <2>4. CASE html = 0
    <3>1. InjectIntoHtml(s) = Append(s, "guard")
      BY <1>2, <1>8, <2>4
    <3>2. s \in Seq(Marks) /\ "guard" \in Marks
      BY SeqMonotonic, Marks \ {"guard"} \subseteq Marks DEF Marks, Tags
    <3>3. Append(s, "guard") = InsertAt(s, Len(s) + 1, "guard")
      BY <3>2, AppendedIsInserted
    <3>4. Len(s) + 1 \in 1..(Len(s) + 1)
      BY <1>1
    <3> QED BY <2>2, <3>1, <3>3, <3>4
  <2> QED BY <1>6, <2>3, <2>4
<1> QED BY <1>5, <1>7, <1>8

(* What is answered with, of a response.                                      *)
Served(r) ==
    IF ShouldInject(r.html, r.body.enc, r.document, r.bypassed)
    THEN LET b == InjectRenewalScript(r.body, r.broken, r.corrupt) IN Response(200, b, b.len)
    ELSE Response(200, r.body, r.body.len)

LEMMA ServedIsWhole ==
    ASSUME NEW r \in Responses, ~r.broken, r.body.len <= Cap + 1,
           r.body.first = Len(r.body.text)
    PROVE  /\ Served(r).cl = Served(r).body.len
           /\ Served(r).body.enc = r.body.enc
           /\ IF Injectable(r) THEN IsInjected(Served(r).body.text, r.body.text)
              ELSE Served(r).body = r.body
<1>0. PICK t \in Texts : r.body \in BodiesOf(t)
  BY DEF Responses
<1>1. PICK e \in Encodings :
         /\ r.body.enc = e /\ r.body.text = t
         /\ r.body.len = IF e = "identity" THEN Len(t) ELSE (Len(t) + 1) \div 2
  BY <1>0 DEF BodiesOf, Encoded, Encodings
<1>2. /\ r.body.enc = e /\ r.body.text = t
      /\ r.body.len = IF e = "identity" THEN Len(t) ELSE (Len(t) + 1) \div 2
      /\ SubSeq(r.body.text, 1, r.body.first) = t /\ r.body.first = Len(t)
  BY <1>1, ConnectionAssumption, SubSeqFull
<1>3. /\ t \in Seq(Marks \ {"guard"}) /\ Len(t) \in Nat /\ Cap \in Nat
  BY ConnectionAssumption, CapAssumption, LenProperties
<1>4. /\ r.html \in BOOLEAN /\ r.document \in BOOLEAN /\ r.bypassed \in BOOLEAN
      /\ r.broken \in BOOLEAN /\ r.corrupt \in BOOLEAN
  BY DEF Responses
<1> DEFINE should == ShouldInject(r.html, r.body.enc, r.document, r.bypassed)
           looks == LooksLikeHtml(t)
<1>5. CASE ~should
  <2>1. Served(r) = Response(200, r.body, r.body.len)
    BY <1>5 DEF Served
  <2>2. ~Injectable(r)
    BY <1>5 DEF Injectable, ShouldInject, FromHeader
  <2> QED BY <2>1, <2>2 DEF Response
<1>6. CASE should
  <2> DEFINE b == InjectRenewalScript(r.body, r.broken, r.corrupt)
             decoded == Decompress(r.body, r.corrupt)
  <2>1. Served(r).body = b /\ Served(r).cl = b.len
    BY <1>6 DEF Served, Response
  <2>2. /\ r.html /\ r.document /\ ~r.bypassed /\ e \in {"identity", "gzip"}
    BY <1>2, <1>6 DEF ShouldInject, FromHeader
  <2>3. r.body.len \in Nat
    BY <1>2, <1>3
  <2>4. CASE r.body.len = Cap + 1
    <3>1. b = r.body
      BY <1>3, <2>4 DEF InjectRenewalScript, Limit
    <3>2. ~(Len(t) <= Cap)
      BY <1>2, <1>3, <2>4
    <3>3. ~Injectable(r)
      BY <1>2, <3>2 DEF Injectable
    <3> QED BY <2>1, <3>1, <3>3
  <2>5. CASE r.body.len <= Cap
    <3>1. b = IF decoded # <<>> /\ LooksLikeHtml(decoded[1])
              THEN Encoded(InjectIntoHtml(decoded[1]), r.body.enc) ELSE r.body
      BY <1>3, <2>3, <2>5 DEF InjectRenewalScript, Limit
    <3>2. CASE (r.corrupt /\ e # "identity") \/ Len(t) > Cap
      <4>1. decoded = <<>>
        BY <1>2, <3>2 DEF Decompress
      <4>2. b = r.body
        BY <3>1, <4>1
      <4>3. ~Injectable(r)
        BY <1>2, <1>3, <2>2, <3>2 DEF Injectable
      <4> QED BY <2>1, <4>2, <4>3
    <3>3. CASE ~((r.corrupt /\ e # "identity") \/ Len(t) > Cap)
      <4>1. decoded = <<t>>
        BY <1>2, <3>3 DEF Decompress
      <4>2. decoded # <<>> /\ decoded[1] = t
        BY <4>1
      <4>3. b = IF looks THEN Encoded(InjectIntoHtml(t), e) ELSE r.body
        BY <1>2, <3>1, <4>2
      <4>4. Injectable(r) <=> looks
        BY <1>2, <1>3, <2>2, <3>3 DEF Injectable
      <4>5. CASE looks
        <5>1. IsInjected(InjectIntoHtml(t), t)
          BY <1>3, HtmlIsInjected
        <5>2. b.text = InjectIntoHtml(t) /\ b.enc = e
          BY <4>3, <4>5 DEF Encoded
        <5> QED BY <1>2, <2>1, <4>4, <4>5, <5>1, <5>2
      <4>6. CASE ~looks
        BY <2>1, <4>3, <4>4, <4>6
      <4> QED BY <4>5, <4>6
    <3> QED BY <3>2, <3>3
  <2> QED BY <1>3, <2>3, <2>4, <2>5
<1> QED BY <1>5, <1>6

LEMMA AnswerInitially == Init => AnswerInv
BY DEF Init, AnswerInv, NoResponse, ServedWhole

LEMMA NoneOfTheResponses == NoResponse \notin Responses /\ Upgraded \notin Responses
BY DEF NoResponse, Upgraded, Responses

LEMMA AnswerPreserved == ReadInv /\ AnswerInv /\ [Next]_vars => AnswerInv'
<1> SUFFICES ASSUME ReadInv, AnswerInv, [Next]_vars PROVE AnswerInv'
  OBVIOUS
<1>1. CASE resp' = resp /\ answer' = answer /\ cpc' # "answered" /\ cpc # "answered"
  BY <1>1 DEF AnswerInv, ServedWhole
<1>2. ASSUME NEW s \in {200, 301, 400, 429, 502}, Answers([status |-> s]), resp' = resp, cpc # "answered"
      PROVE  AnswerInv'
  <2>1. answer'.status = s /\ resp' = NoResponse
    BY <1>2 DEF Answers, AnswerInv
  <2> QED BY <2>1, <1>2, NoneOfTheResponses DEF AnswerInv, ServedWhole, Answers, Goes
<1>3. CASE ProxyUpgraded
  <2>1. answer' = Upgraded /\ resp' = Upgraded /\ cpc' = "answered"
    BY <1>3 DEF ProxyUpgraded, Answers, Goes
  <2> QED BY <2>1, NoneOfTheResponses DEF AnswerInv, ServedWhole, Upgraded
<1>4. ASSUME NEW r \in Responses, Proxied(r) PROVE AnswerInv'
  <2>1. answer' = Served(r) /\ resp' = r /\ cpc' = "answered"
    BY <1>4 DEF Proxied, Answers, Goes, Served
  <2>2. Served(r).status = 200
    BY DEF Served, Response
  <2>3. ServedWhole'
    <3>1. Injectable(resp)' <=> Injectable(r)
      BY <2>1 DEF Injectable
    <3>2. IsInjected(answer.body.text, resp.body.text)' <=> IsInjected(Served(r).body.text, r.body.text)
      BY <2>1 DEF IsInjected
    <3> QED BY <2>1, <3>1, <3>2, ServedIsWhole DEF ServedWhole
  <2> QED BY <2>1, <2>2, <2>3 DEF AnswerInv
<1>5. CASE UNCHANGED vars
  BY <1>5 DEF vars, connVars, AnswerInv, ServedWhole
<1>6. CASE Next
  <2>1. CASE \/ (\E n \in 1..Len(stream) : Arrive(n)) \/ ClientCloses \/ Hello \/ Peek
             \/ (\E n \in 1..Len(stream) : HyperRead(n)) \/ HyperHead \/ Fetch \/ Relaying
    <3>1. resp' = resp /\ answer' = answer /\ cpc' # "answered" /\ cpc # "answered"
      BY <2>1 DEF Arrive, ClientCloses, Hello, Peek, HyperRead, HyperHead, Fetch, Relaying,
                  connVars, Goes
    <3> QED BY <1>1, <3>1
  <2>5. CASE Accept \/ \E known \in BOOLEAN : UpgradeRequest(known)
    <3>1. CASE Accept
      <4>1. port \in Ports
        BY DEF ReadInv, ReadTypeOK
      <4> QED BY <1>1, <3>1, <4>1 DEF Accept, Goes, Ports
    <3>2. ASSUME NEW known \in BOOLEAN, UpgradeRequest(known) PROVE AnswerInv'
      <4>1. cpc = "request" /\ (cpc' = "relay" \/ cpc' = cpc) /\ resp' = resp /\ answer' = answer
        BY <3>2 DEF UpgradeRequest, Goes
      <4> QED BY <1>1, <4>1
    <3> QED BY <2>5, <3>1, <3>2
  <2>2. CASE ReadHeader
    <3>1. resp' = resp /\ answer' = answer /\ cpc = "read"
      BY <2>2 DEF ReadHeader
    <3>2. cpc' # "answered"
      <4> DEFINE complete == taken' = taken \/ Last(hdr') = "eoh"
                 ws == IsWs(hdr')
      <4>1. cpc' = CASE ~complete -> "read"
                     [] complete /\ ws -> "request"
                     [] complete /\ ~ws -> "hyper"
        BY <2>2 DEF ReadHeader, Goes
      <4> HIDE DEF complete, ws
      <4> QED BY <4>1
    <3> QED BY <1>1, <3>1, <3>2
  <2>3. CASE RedirectToHttps \/ Interstitial \/ ProxyFails
    BY <1>2, <2>3 DEF RedirectToHttps, Interstitial, ProxyFails
  <2>4. CASE Handle
    <3>1. CASE \E s \in {200, 400, 429} : Answers([status |-> s])
      BY <1>2, <2>4, <3>1 DEF Handle
    <3>2. CASE cpc' \in {"fetch", "proxy"} /\ UNCHANGED <<answer, resp>>
      BY <1>1, <2>4, <3>2 DEF Handle
    <3> QED BY <2>4, <3>1, <3>2 DEF Handle, Goes
  <2> QED BY <1>3, <1>4, <1>6, <2>1, <2>2, <2>3, <2>4, <2>5 DEF Next, Edge
<1> QED BY <1>5, <1>6

-----------------------------------------------------------------------------
ConnInv == RelayInv /\ FetchInv /\ ReadInv /\ AnswerInv

LEMMA ConnInvariant == Spec => []ConnInv
<1>1. Init => ConnInv
  BY RelayInitially, FetchInitially, ReadInitially, AnswerInitially DEF Init, ConnInv
<1>2. ConnInv /\ [Next]_vars => ConnInv'
  BY RelayPreserved, FetchPreserved, ReadPreserved, AnswerPreserved DEF ConnInv
<1> QED BY <1>1, <1>2, PTL DEF Spec

(* The connection's variables have their types: no more is taken than has     *)
(* arrived, what is looked at is a front of the stream, ...                   *)
THEOREM ConnectionTypeCorrect == Spec => []TypeOK
<1>1. ConnInv => TypeOK
  <2> SUFFICES ASSUME ConnInv PROVE TypeOK
    OBVIOUS
  <2>1. ReadTypeOK /\ RequestIntact /\ RelayTypeOK /\ FetchTypeOK
    BY ReadIsIntact DEF ConnInv, ReadInv, RelayInv, FetchInv
  <2>2. Len(seen) <= Len(stream)
    BY <2>1 DEF RequestIntact, IsPrefix
  <2>3. \E n \in 0..arrived : hdr = SubSeq(stream, 1, n)
    BY <2>1 DEF ReadTypeOK
  <2> QED BY <2>1, <2>2, <2>3 DEF TypeOK, ReadTypeOK, ConnInv, AnswerInv
<1> QED BY <1>1, ConnInvariant, PTL

(* The two copies and the buffer before them neither drop, repeat nor reorder *)
(* (proxy_ws_upgrade_buf), for any frames.                                    *)
THEOREM RelayIsFaithful == Spec => []RelayFaithful
<1>1. ConnInv => RelayFaithful
  BY RelayFlowFaithful DEF ConnInv
<1> QED BY <1>1, ConnInvariant, PTL

(* read_head finds the first "</head", or that there is none, however the     *)
(* document is cut into chunks: for any document, marker and cap.             *)
THEOREM FetchedHeadIsExact == Spec => []HeadIsExact
<1>1. ConnInv => HeadIsExact
  BY DEF ConnInv, FetchInv
<1> QED BY <1>1, ConnInvariant, PTL

(* Peeking at the request loses nothing of it, and decides on its head alone  *)
(* (PrefixedReader, the TLS accept loop): for any stream and segmentation.    *)
THEOREM RequestStaysIntact == Spec => []RequestIntact
<1>1. ConnInv => RequestIntact
  BY ReadIsIntact DEF ConnInv
<1> QED BY <1>1, ConnInvariant, PTL

(* A response that came whole and fits is served as it is, or with the script *)
(* in its place: for any text and cap (inject_renewal_script).                *)
THEOREM ResponseServedWhole == Spec => []ServedWhole
<1>1. ConnInv => ServedWhole
  BY DEF ConnInv, AnswerInv
<1> QED BY <1>1, ConnInvariant, PTL

=============================================================================
