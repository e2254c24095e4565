-------------------------------- MODULE Inject --------------------------------
(***************************************************************************)
(* Splicing the renewal script into a document: nekoguard/src/inject.rs    *)
(* and inject_renewal_script (nekoguard/src/main.rs), as operators.        *)
(*                                                                         *)
(* A text is a sequence of marks of one byte each: "tag" (some '<'), "text"*)
(* (no '<'), "bin" (not UTF-8), "body" and "html" (the closing tags),      *)
(* "guard" (the snippet).  A body is a text in an encoding, with the number *)
(* of bytes this takes: a compressed one takes half as many as its text.   *)
(* A gzip body may be several members one after the other; `first` is how  *)
(* much of the text is in the first.                                       *)
(***************************************************************************)
EXTENDS Integers, Sequences, SequencesExt

CONSTANTS
    Cap            \* MAX_DECOMPRESSED

ASSUME CapAssumption == Cap \in Nat

Tags == {"tag", "body", "html", "guard"}
Marks == Tags \cup {"text", "bin"}

(* The encodings that round-trip, and one that does not (zstd, or stacked). *)
Encodings == {"identity", "gzip", "zstd"}

Encoded(text, enc) ==
    [enc |-> enc, text |-> text, first |-> Len(text),
     len |-> IF enc = "identity" THEN Len(text) ELSE (Len(text) + 1) \div 2]

(* Nothing came through, or nothing was kept.                               *)
Empty == [enc |-> "identity", text |-> <<>>, first |-> 0, len |-> 0]

(* A text as a body of one member, or, in gzip, of more.                    *)
BodiesOf(text) ==
    {Encoded(text, enc) : enc \in Encodings}
    \cup {[Encoded(text, "gzip") EXCEPT !.first = n] : n \in 1..(Len(text) - 1)}

-----------------------------------------------------------------------------
FromHeader(enc) == enc \in {"identity", "gzip"}

(* should_inject_response, from the headers alone.                          *)
ShouldInject(html, enc, document, bypassed) ==
    document /\ ~bypassed /\ html /\ FromHeader(enc)

(* decompress and read_capped: GzDecoder stops after the first member.      *)
(* `corrupt` stands for an error on the way.                                *)
Decompress(body, corrupt) ==
    IF (corrupt /\ body.enc # "identity") \/ body.first > Cap THEN <<>>
    ELSE <<SubSeq(body.text, 1, body.first)>>

LooksLikeHtml(text) == "bin" \notin ToSet(text) /\ ToSet(text) \cap Tags # {}

(* Before the last "</body>", else before the last "</html>", else at the   *)
(* end.                                                                     *)
InjectIntoHtml(text) ==
    LET body == SelectLastInSeq(text, LAMBDA k : k = "body")
        html == SelectLastInSeq(text, LAMBDA k : k = "html")
    IN  CASE body > 0 -> InsertAt(text, body, "guard")
          [] body = 0 /\ html > 0 -> InsertAt(text, html, "guard")
          [] OTHER -> Append(text, "guard")

(* Faulty: the body is read up to the cap itself.                           *)
LimitAtCap == Cap

(* The limit the body is read with.                                         *)
Limit == Cap + 1

(* inject_renewal_script: the body that is served, its length in the header *)
(* (`broken`: the upstream's body ended in an error).                       *)
InjectRenewalScript(body, broken, corrupt) ==
    LET decoded == Decompress(body, corrupt) IN
    CASE broken \/ body.len > Limit -> Empty
      [] ~broken /\ body.len = Cap + 1 -> body
      [] ~broken /\ body.len <= Cap ->
            IF decoded # <<>> /\ LooksLikeHtml(decoded[1])
            THEN Encoded(InjectIntoHtml(decoded[1]), body.enc)
            ELSE body

-----------------------------------------------------------------------------
(* What an injected document is, of its original: the script is in it once, *)
(* and no "</body>" stands behind it but the one it is put before.          *)
IsInjected(text, original) ==
    \E i \in 1..Len(text) :
        /\ text[i] = "guard"
        /\ RemoveAt(text, i) = original
        /\ \A j \in (i + 2)..Len(text) : text[j] # "body"
        /\ (\E j \in 1..Len(text) : text[j] = "body") => i < Len(text) /\ text[i + 1] = "body"

=============================================================================
