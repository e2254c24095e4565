------------------------------ MODULE HeadFetch ------------------------------
(***************************************************************************)
(* How the interstitial gets at the origin's <head>: fetch_html, read_head *)
(* and find_head_end (nekoguard/src/embed.rs).  The document comes in      *)
(* chunks of any size; each is searched once for the marker "</head", with *)
(* an overlap for a marker that two chunks share, and reading stops there. *)
(*                                                                         *)
(* Offsets count from 0, as in the code.  A byte is a letter up to case,   *)
(* the marker a word of such letters.                                      *)
(***************************************************************************)
EXTENDS Integers, Sequences

CONSTANTS
    Bytes,         \* the letters of documents
    Marker,        \* MARKER, "</head"
    Docs,          \* the documents an origin may serve
    MaxHtml,       \* MAX_HTML
    MaxHops,       \* MAX_HOPS
    None           \* not found, nothing fetched

ASSUME HeadFetchAssumption ==
    /\ Marker \in Seq(Bytes) /\ Marker # <<>>
    /\ \A d \in Docs : d \in Seq(Bytes)
    /\ MaxHtml \in Nat
    /\ MaxHops \in Nat \ {0}
    /\ None \notin Nat /\ None \notin Seq(Bytes)

VARIABLES
    fpc,           \* where fetch_html is
    hops,          \* redirects followed
    doc,           \* the document the origin is sending
    pos,           \* the length of `collected`
    scanned,       \* what was searched already
    head,          \* what was read, or None
    refused        \* history: given up for the cap alone

fetchVars == <<fpc, hops, doc, pos, scanned, head, refused>>

FetchTypeOK ==
    /\ fpc \in {"idle", "request", "body", "done"}
    /\ hops \in 0..MaxHops
    /\ doc \in Docs \cup {<<>>}
    /\ pos \in 0..Len(doc)
    /\ scanned \in 0..pos
    /\ head = None \/ \E n \in 0..pos : head = SubSeq(doc, 1, n)
    /\ refused \in BOOLEAN

FetchInit ==
    /\ fpc = "idle" /\ hops = 0
    /\ doc = <<>> /\ pos = 0 /\ scanned = 0
    /\ head = None /\ refused = FALSE

-----------------------------------------------------------------------------
(* The marker stands at offset i.                                           *)
MarkerAt(bytes, i) ==
    i + Len(Marker) <= Len(bytes) /\ SubSeq(bytes, i + 1, i + Len(Marker)) = Marker

(* find_head_end: the first offset from `from` on at which it stands, or    *)
(* None.                                                                    *)
FindHeadEnd(bytes, from) ==
    LET last == Len(bytes) - Len(Marker)
        start == IF from < last THEN from ELSE last
        hits == {i \in start..last : MarkerAt(bytes, i)}
    IN  IF last < 0 \/ hits = {} THEN None ELSE CHOOSE i \in hits : \A j \in hits : i <= j

(* Faulty: no overlap between one search and the next.                      *)
OverlapNone(len) == len

(* Back up by one marker's overlap, less one byte (saturating_sub).         *)
Overlap(len) == IF len < Len(Marker) THEN 0 ELSE len - (Len(Marker) - 1)

FetchEnds(result) ==
    /\ fpc' = "done" /\ head' = result
    /\ UNCHANGED <<hops, doc, pos, scanned>>

-----------------------------------------------------------------------------
(* load found nothing cached: fetch the page.                               *)
FetchHtml ==
    /\ fpc = "idle"
    /\ fpc' = "request"
    /\ UNCHANGED <<hops, doc, pos, scanned, head, refused>>

(* Faulty: followed for ever.                                               *)
RedirectUnbounded ==
    /\ fpc = "request"
    /\ hops' = hops + 1
    /\ UNCHANGED <<fpc, doc, pos, scanned, head, refused>>

(* A redirect within the origin is followed, MAX_HOPS requests in all.      *)
Redirect ==
    /\ fpc = "request"
    /\ hops' = hops + 1
    /\ fpc' = IF hops + 1 < MaxHops THEN "request" ELSE "done"
    /\ UNCHANGED <<doc, pos, scanned, head, refused>>

(* Anything but a document: an error, a time-out, another status or type,   *)
(* a redirect that leaves the origin.                                       *)
NoDocument ==
    /\ fpc = "request"
    /\ FetchEnds(None)
    /\ UNCHANGED refused

(* 200 and HTML: read its head.                                             *)
Document(d) ==
    /\ fpc = "request"
    /\ fpc' = "body" /\ doc' = d
    /\ UNCHANGED <<hops, pos, scanned, head, refused>>

(* The next n bytes: search them; without the marker go on, up to the cap.  *)
Chunk(n) ==
    LET len == pos + n
        at == FindHeadEnd(SubSeq(doc, 1, len), scanned)
    IN /\ fpc = "body" /\ n > 0 /\ len <= Len(doc)
       /\ pos' = len
       /\ scanned' = IF at = None THEN Overlap(len) ELSE scanned
       /\ fpc' = IF at # None \/ len > MaxHtml THEN "done" ELSE "body"
       /\ head' = IF at # None THEN SubSeq(doc, 1, at) ELSE None
       /\ refused' = (at = None /\ len > MaxHtml)
       /\ UNCHANGED <<hops, doc>>

(* The document ended first: what was read may still carry the tags.        *)
StreamEnd ==
    /\ fpc = "body" /\ pos = Len(doc)
    /\ FetchEnds(doc)
    /\ UNCHANGED refused

(* The connection broke, or FETCH_TIMEOUT is over.                          *)
BodyFails ==
    /\ fpc = "body"
    /\ FetchEnds(None)
    /\ UNCHANGED refused

FetchStep ==
    \/ Redirect \/ NoDocument \/ (\E d \in Docs : Document(d))
    \/ (\E n \in 1..Len(doc) : Chunk(n)) \/ StreamEnd \/ BodyFails

-----------------------------------------------------------------------------
(* However the document was cut into chunks, what is scraped is what comes  *)
(* before its first "</head", or all of it when there is none; and it is    *)
(* refused for its size only when no "</head" ends within the cap.          *)
HeadIsExact ==
    fpc = "done" =>
        /\ head # None =>
              \/ /\ MarkerAt(doc, Len(head))
                 /\ head = SubSeq(doc, 1, Len(head))
                 /\ \A j \in 0..(Len(head) - 1) : ~MarkerAt(doc, j)
              \/ head = doc /\ \A j \in 0..Len(doc) : ~MarkerAt(doc, j)
        /\ refused => \A j \in 0..(MaxHtml - Len(Marker)) : ~MarkerAt(doc, j)

=============================================================================
