----------------------------- MODULE Connection -----------------------------
(***************************************************************************)
(* One connection of a client to the edge, from the accept loops of        *)
(* nekoguard/src/main.rs to its answer: the TLS port, the plain test port  *)
(* and the redirect port.  The first bytes tell a WebSocket upgrade, which *)
(* goes to the Relay, from any other request, which goes to hyper and to   *)
(* handle.  handle's verdict, Edge's subject, is free here; what follows   *)
(* is not: the upstream's response with the script spliced in (Inject), or *)
(* the interstitial with what was read of the origin's page (HeadFetch).   *)
(*                                                                         *)
(* A client's bytes are marks: "line", "host", "upgrade" (the header, or   *)
(* the same words in a body), "eoh" (the blank line), "data".  They arrive *)
(* in segments of any size.  One request per connection is followed.       *)
(***************************************************************************)
EXTENDS Relay, Inject, HeadFetch

CONSTANTS
    Streams,       \* what clients send on a connection
    Texts          \* the texts upstreams answer with

ASSUME ConnectionAssumption ==
    /\ \A s \in Streams : s \in Seq({"line", "host", "upgrade", "eoh", "data"})
    /\ \A t \in Texts : t \in Seq(Marks \ {"guard"})

VARIABLES
    cpc,           \* where the connection's task is
    port,          \* the port it came in on
    stream,        \* all the client sends
    arrived,       \* how much of it has reached the edge's socket
    closed,        \* the client sends no more
    taken,         \* how much was read from the socket
    hdr,           \* header_bytes; on the plain port the peeked bytes
    ppos,          \* the position in PrefixedReader's prefix
    seen,          \* what hyper has read
    resp,          \* the upstream's response
    answer         \* what the client is answered

connVars == <<cpc, port, stream, arrived, closed, taken, hdr, ppos, seen, resp, answer>>
vars == <<connVars, relayVars, fetchVars>>

Ports == {"tls", "plain", "redirect"}
Stages == {"accept", "hello", "read", "peek", "request", "relay", "hyper",
           "handle", "proxy", "fetch", "answered", "closed"}

NoResponse == [status |-> 0]
Response(status, body, cl) == [status |-> status, body |-> body, cl |-> cl]

(* The upstream's responses: a document or not, its body whole or broken   *)
(* off, decodable or corrupt, to a navigation or not, on a bypassed path or *)
(* not.                                                                     *)
Responses ==
    [status : {200}, html : BOOLEAN, broken : BOOLEAN, corrupt : BOOLEAN,
     document : BOOLEAN, bypassed : BOOLEAN,
     body : UNION {BodiesOf(t) : t \in Texts}]
Upgraded == [status |-> 101]

TypeOK ==
    /\ RelayTypeOK /\ FetchTypeOK
    /\ cpc \in Stages
    /\ port \in Ports
    /\ stream \in Streams \cup {<<>>}
    /\ arrived \in 0..Len(stream)
    /\ closed \in BOOLEAN
    /\ taken \in 0..arrived
    /\ \E n \in 0..arrived : hdr = SubSeq(stream, 1, n)
    /\ ppos \in 0..Len(hdr)
    /\ Len(seen) <= Len(stream)
    /\ resp \in Responses \cup {NoResponse, Upgraded}
    /\ answer.status \in {0, 101, 200, 301, 400, 429, 502}

Init ==
    /\ RelayInit /\ FetchInit
    /\ cpc = "accept"
    /\ port \in Ports /\ stream \in Streams
    /\ arrived = 0 /\ closed = FALSE /\ taken = 0
    /\ hdr = <<>> /\ ppos = 0 /\ seen = <<>>
    /\ resp = NoResponse /\ answer = NoResponse

Goes(stage) == cpc' = stage

(* The request has been handed over: its bytes do not matter any more.      *)
Forget ==
    /\ stream' = <<>> /\ arrived' = 0 /\ closed' = FALSE /\ taken' = 0
    /\ hdr' = <<>> /\ ppos' = 0 /\ seen' = <<>>

-----------------------------------------------------------------------------
(* The client: the next segment, or no more.                                *)
Arrive(n) ==
    /\ cpc \notin {"relay", "answered", "closed"} /\ ~closed
    /\ n \in 1..(Len(stream) - arrived)
    /\ arrived' = arrived + n
    /\ UNCHANGED <<cpc, port, stream, closed, taken, hdr, ppos, seen, resp, answer>>
    /\ UNCHANGED <<relayVars, fetchVars>>

ClientCloses ==
    /\ cpc \in {"read", "peek", "request", "hyper"} /\ ~closed
    /\ closed' = TRUE
    /\ UNCHANGED <<cpc, port, stream, arrived, taken, hdr, ppos, seen, resp, answer>>
    /\ UNCHANGED <<relayVars, fetchVars>>

-----------------------------------------------------------------------------
(* The accept loops.                                                        *)
Accept ==
    /\ cpc = "accept"
    /\ Goes([tls |-> "hello", plain |-> "peek", redirect |-> "hyper"][port])
    /\ UNCHANGED <<port, stream, arrived, closed, taken, hdr, ppos, seen, resp, answer>>
    /\ UNCHANGED <<relayVars, fetchVars>>

(* The handshake: it ends in a stream, or the connection is closed, for an  *)
(* error, an ACME probe, or a name that is not served (see Config).         *)
Hello ==
    /\ cpc = "hello"
    /\ Goes("read") \/ Goes("closed")
    /\ UNCHANGED <<port, stream, arrived, closed, taken, hdr, ppos, seen, resp, answer>>
    /\ UNCHANGED <<relayVars, fetchVars>>

(* "upgrade: websocket" is somewhere in the text.                           *)
IsWs(text) == "upgrade" \in ToSet(text)

(* Faulty: whatever has arrived is looked at.                               *)
ReadHeaderAll ==
    /\ cpc = "read" /\ taken < arrived
    /\ taken' = arrived /\ hdr' = SubSeq(stream, 1, arrived)
    /\ Goes(IF IsWs(hdr') THEN "request" ELSE "hyper")
    /\ UNCHANGED <<port, stream, arrived, closed, ppos, seen, resp, answer>>
    /\ UNCHANGED <<relayVars, fetchVars>>

(* TLS: the head is read byte by byte, up to the blank line or the end of   *)
(* the stream, and looked through.                                          *)
ReadHeader ==
    /\ cpc = "read"
    /\ \/ taken < arrived /\ taken' = taken + 1 /\ hdr' = Append(hdr, stream[taken + 1])
       \/ taken = arrived /\ closed /\ UNCHANGED <<taken, hdr>>
    /\ LET complete == taken' = taken \/ Last(hdr') = "eoh" IN
       Goes(CASE ~complete -> "read"
              [] complete /\ IsWs(hdr') -> "request"
              [] complete /\ ~IsWs(hdr') -> "hyper")
    /\ UNCHANGED <<port, stream, arrived, closed, ppos, seen, resp, answer>>
    /\ UNCHANGED <<relayVars, fetchVars>>

(* The plain port looks at what has arrived, once, and leaves it there.     *)
Peek ==
    /\ cpc = "peek" /\ (arrived > 0 \/ closed)
    /\ hdr' = SubSeq(stream, 1, arrived)
    /\ Goes(IF IsWs(hdr') THEN "request" ELSE "hyper")
    /\ UNCHANGED <<port, stream, arrived, closed, taken, ppos, seen, resp, answer>>
    /\ UNCHANGED <<relayVars, fetchVars>>

(* An upgrade: the site is that of the Host in the bytes looked at, if it   *)
(* is there and known.  The plain port then reads the request itself, in    *)
(* pieces, until one ends with the blank line or the stream does; the TLS   *)
(* port has it already.                                                     *)
UpgradeRequest(known) ==
    LET site == known /\ "host" \in ToSet(hdr)
        tls == port = "tls"
    IN /\ cpc = "request"
       /\ \/ /\ \/ tls \/ ~site
                \/ taken = arrived /\ closed
                \/ \E k \in (taken + 1)..arrived : stream[k] = "eoh"
             /\ RelayStart(~tls, site) /\ Goes("relay") /\ Forget
          \/ /\ ~tls /\ site
             /\ \E k \in (taken + 1)..arrived : stream[k] # "eoh" /\ taken' = k
             /\ UNCHANGED <<cpc, stream, arrived, closed, hdr, ppos, seen, relayVars>>
       /\ UNCHANGED <<port, resp, answer, fetchVars>>

-----------------------------------------------------------------------------
(* What hyper reads through: PrefixedReader on the TLS port, the socket     *)
(* itself on the others.                                                    *)
Prefix == IF port = "tls" THEN hdr ELSE <<>>

(* poll_read: up to n bytes, of the prefix while any of it is left, then of *)
(* the stream.                                                              *)
HyperRead(n) ==
    LET left == Len(Prefix) - ppos
        k == IF n < left THEN n ELSE left
    IN /\ cpc = "hyper" /\ n > 0
       /\ \/ /\ left > 0
             /\ ppos' = ppos + k /\ seen' = seen \o SubSeq(Prefix, ppos + 1, ppos + k)
             /\ UNCHANGED taken
          \/ /\ left = 0 /\ n <= arrived - taken
             /\ taken' = taken + n /\ seen' = seen \o SubSeq(stream, taken + 1, taken + n)
             /\ UNCHANGED ppos
       /\ UNCHANGED <<cpc, port, stream, arrived, closed, hdr, resp, answer>>
       /\ UNCHANGED <<relayVars, fetchVars>>

(* hyper has a head and calls handle, or redirect_to_https; or the client   *)
(* closed before.                                                           *)
HyperHead ==
    /\ cpc = "hyper"
    /\ \/ "eoh" \in ToSet(seen) /\ Goes("handle")
       \/ /\ closed /\ ppos = Len(Prefix) /\ taken = arrived /\ "eoh" \notin ToSet(seen)
          /\ Goes("closed")
    /\ Forget
    /\ UNCHANGED <<port, resp, answer>>
    /\ UNCHANGED <<relayVars, fetchVars>>

Answers(a) ==
    /\ Goes("answered") /\ answer' = a
    /\ UNCHANGED <<port, stream, arrived, closed, taken, hdr, ppos, seen, relayVars>>

(* redirect_to_https.                                                       *)
RedirectToHttps ==
    /\ cpc = "handle" /\ port = "redirect"
    /\ Answers([status |-> 301])
    /\ UNCHANGED <<resp, fetchVars>>

(* handle answers itself: a local route, no upstream, the rate limit, an    *)
(* interstitial whose metadata is at hand; it has to be fetched; or the     *)
(* request goes to the upstream.                                            *)
Handle ==
    /\ cpc = "handle" /\ port # "redirect"
    /\ \/ \E s \in {200, 400, 429} : Answers([status |-> s]) /\ UNCHANGED fetchVars
       \/ /\ Goes("fetch") /\ FetchHtml
          /\ UNCHANGED <<port, stream, arrived, closed, taken, hdr, ppos, seen, answer, relayVars>>
       \/ /\ Goes("proxy")
          /\ UNCHANGED <<port, stream, arrived, closed, taken, hdr, ppos, seen, answer, relayVars>>
          /\ UNCHANGED fetchVars
    /\ UNCHANGED resp

Fetch ==
    /\ cpc = "fetch" /\ FetchStep
    /\ UNCHANGED <<connVars, relayVars>>

(* inline_into puts in what was scraped, or just the host's name.           *)
Interstitial ==
    /\ cpc = "fetch" /\ fpc = "done"
    /\ Answers([status |-> 200])
    /\ UNCHANGED <<resp, fetchVars>>

-----------------------------------------------------------------------------
(* proxy_to_upstream: the upstream URL is no URL, or the request fails.     *)
ProxyFails ==
    /\ cpc = "proxy"
    /\ \E s \in {400, 502} : Answers([status |-> s])
    /\ UNCHANGED <<resp, fetchVars>>

(* A 101 is passed on without its lengths.                                  *)
ProxyUpgraded ==
    /\ cpc = "proxy"
    /\ resp' = Upgraded /\ Answers(Upgraded)
    /\ UNCHANGED fetchVars

(* Any other response is streamed as it came, its length (if it said one)   *)
(* with it; or a document, with the script and the length of the result.    *)
Proxied(r) ==
    /\ cpc = "proxy"
    /\ resp' = r
    /\ Answers(IF ShouldInject(r.html, r.body.enc, r.document, r.bypassed)
               THEN LET b == InjectRenewalScript(r.body, r.broken, r.corrupt)
                    IN  Response(200, b, b.len)
               ELSE Response(200, r.body, r.body.len))
    /\ UNCHANGED fetchVars

-----------------------------------------------------------------------------
(* The relay, and its two ends, are at work.                                *)
Relaying ==
    /\ cpc = "relay"
    /\ RelayStep \/ RelayEnvironment
    /\ UNCHANGED <<connVars, fetchVars>>

Edge ==
    \/ Accept \/ Hello \/ ReadHeader \/ Peek \/ (\E known \in BOOLEAN : UpgradeRequest(known))
    \/ (\E n \in 1..Len(stream) : HyperRead(n)) \/ HyperHead \/ RedirectToHttps \/ Handle
    \/ Fetch \/ Interstitial \/ ProxyFails \/ ProxyUpgraded \/ (\E r \in Responses : Proxied(r))

Next ==
    \/ (\E n \in 1..Len(stream) : Arrive(n)) \/ ClientCloses
    \/ Edge
    \/ Relaying

(* The relay's own steps, which the runtime takes when their input is there *)
(* (a connect comes to an end by the system's own time-out).                *)
RelayProceeds == RelayStep /\ UNCHANGED <<connVars, fetchVars>>

Spec == Init /\ [][Next]_vars /\ WF_vars(RelayProceeds)

-----------------------------------------------------------------------------
(* A stream up to its first blank line, or all of it.                       *)
HeadOf(s) ==
    LET n == SelectInSeq(s, LAMBDA k : k = "eoh")
    IN  IF n = 0 THEN s ELSE SubSeq(s, 1, n)

(* However a request is cut into segments, hyper reads just what the client *)
(* sent, from its first byte (PrefixedReader gives back what was read to    *)
(* tell upgrades); on the TLS port an upgrade is relayed and nothing else   *)
(* is -- the words in a body do not count -- and its first frame is left in *)
(* the stream.                                                              *)
RequestIntact ==
    /\ IsPrefix(seen, stream)
    /\ port = "tls" /\ cpc \in {"request", "hyper"} =>
          /\ hdr = HeadOf(stream) \/ (closed /\ Len(hdr) < Len(HeadOf(stream)))
          /\ hdr = HeadOf(stream) => ((cpc = "request") <=> IsWs(hdr))
          /\ cpc = "request" => taken = Len(hdr)

(* The README's table: what may carry the script.                           *)
Injectable(r) ==
    /\ r.html /\ r.document /\ ~r.bypassed
    /\ r.body.enc = "identity" \/ (r.body.enc = "gzip" /\ ~r.corrupt)
    /\ Len(r.body.text) <= Cap /\ LooksLikeHtml(r.body.text)

(* A response that came in whole, is at most one byte over the cap and, if   *)
(* gzip, of one member, is served as it came, but a document that can carry *)
(* the script with it, once and in its place; in the same encoding, its own *)
(* length in the header.  (Of more members, what follows the first is lost  *)
(* with the injection; beyond the cap, all of it is.)                       *)
ServedWhole ==
    (/\ cpc = "answered" /\ resp \in Responses
     /\ ~resp.broken /\ resp.body.len <= Cap + 1
     /\ resp.body.first = Len(resp.body.text)) =>
        /\ answer.cl = answer.body.len
        /\ answer.body.enc = resp.body.enc
        /\ IF Injectable(resp) THEN IsInjected(answer.body.text, resp.body.text)
           ELSE answer.body = resp.body

=============================================================================
