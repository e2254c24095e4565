-------------------------------- MODULE Relay --------------------------------
(***************************************************************************)
(* The WebSocket relay: proxy_ws_upgrade_buf, and the same code inline for *)
(* the TLS port (nekoguard/src/main.rs).  The upgrade request is forwarded *)
(* to the upstream, its 101 is read and passed on with whatever came in    *)
(* right behind it, and then two copies run until both have ended.         *)
(*                                                                         *)
(* A stream is a sequence of pieces.  The upstream answers with a head of  *)
(* two pieces, "101" or "403" and "end", then frames; the client sends     *)
(* frames once it has the head.  Either side may shut down its sending     *)
(* half, or go away altogether, at any time.                               *)
(***************************************************************************)
EXTENDS Naturals, Sequences, SequencesExt

CONSTANTS
    Frames         \* bound: the frames each side sends, in order

Sides == {"client", "upstream"}
Other(s) == IF s = "client" THEN "upstream" ELSE "client"

VARIABLES
    rpc,           \* where the relay is
    strict,        \* whether a failed write of the 101 ends it (plain port)
    sent,          \* history: per side, all it has sent
    inbox,         \* per side, what it sent and the relay has not read
    shut,          \* per side, no more will come from it
    gone,          \* per side, its socket is closed: writes to it are lost
    buf,           \* resp_buf
    got,           \* per side, what the relay has written to it
    copy           \* per side, the copy that reads from it

relayVars == <<rpc, strict, sent, inbox, shut, gone, buf, got, copy>>

Pieces == {"101", "403", "end"} \cup ToSet(Frames)

RelayTypeOK ==
    /\ rpc \in {"off", "connect", "head", "copy", "ended"}
    /\ strict \in BOOLEAN
    /\ \A v \in {sent, inbox, got} : v \in [Sides -> Seq(Pieces)]
    /\ shut \in [Sides -> BOOLEAN] /\ gone \in [Sides -> BOOLEAN]
    /\ \A s \in Sides : gone[s] => shut[s]
    /\ buf \in Seq(Pieces)
    /\ copy \in [Sides -> {"off", "on", "eof", "error"}]

RelayInit ==
    /\ rpc = "off" /\ strict = FALSE
    /\ sent = [s \in Sides |-> <<>>] /\ inbox = sent /\ got = sent
    /\ shut = [s \in Sides |-> FALSE] /\ gone = shut
    /\ buf = <<>>
    /\ copy = [s \in Sides |-> "off"]

-----------------------------------------------------------------------------
(* The two ends.  The upstream sends its head and frames, the client frames *)
(* after it has the head.                                                   *)
Scripts(s) ==
    IF s = "client" THEN {Frames}
    ELSE {<<status, "end">> \o Frames : status \in {"101", "403"}}

Sends(s, p) ==
    /\ rpc \in {"head", "copy"} /\ ~shut[s]
    /\ s = "client" => "end" \in ToSet(got["client"])
    /\ \E script \in Scripts(s) : IsPrefix(Append(sent[s], p), script)
    /\ sent' = [sent EXCEPT ![s] = Append(@, p)]
    /\ inbox' = [inbox EXCEPT ![s] = Append(@, p)]
    /\ UNCHANGED <<rpc, strict, shut, gone, buf, got, copy>>

Leaves(s) ==
    /\ rpc \in {"head", "copy"}
    /\ \/ ~shut[s] /\ UNCHANGED gone
       \/ ~gone[s] /\ gone' = [gone EXCEPT ![s] = TRUE]
    /\ shut' = [shut EXCEPT ![s] = TRUE]
    /\ UNCHANGED <<rpc, strict, sent, inbox, buf, got, copy>>

(* A read from s fails -- a reset, or TLS that breaks off -- and what was not *)
(* read is lost: a copy from s ends there, and so does a relay that still   *)
(* waits for the head.                                                      *)
ReadFails(s) ==
    \/ /\ copy[s] = "on"
       /\ copy' = [copy EXCEPT ![s] = "error"]
       /\ UNCHANGED <<rpc, strict, sent, inbox, shut, gone, buf, got>>
    \/ /\ s = "upstream" /\ rpc = "head"
       /\ rpc' = "ended"
       /\ UNCHANGED <<strict, sent, inbox, shut, gone, buf, got, copy>>

-----------------------------------------------------------------------------
(* The request is an upgrade: look up the site and go on, or just close.    *)
RelayStart(plain, known) ==
    /\ rpc = "off"
    /\ rpc' = IF known THEN "connect" ELSE "ended"
    /\ strict' = plain
    /\ UNCHANGED <<sent, inbox, shut, gone, buf, got, copy>>

RelayEnds == rpc' = "ended" /\ UNCHANGED <<strict, sent, inbox, shut, gone, got, copy>>

(* The upstream is looked up, connected and sent the rewritten request.     *)
Connected ==
    /\ rpc = "connect"
    /\ rpc' = "head"
    /\ UNCHANGED <<strict, sent, inbox, shut, gone, buf, got, copy>>

(* One of the three failed.                                                 *)
NotConnected == rpc = "connect" /\ RelayEnds /\ UNCHANGED buf

(* A write reaches its side, unless that is gone: then it fails, or seems   *)
(* to work once more.                                                       *)
Written(s, what) ==
    \/ ~gone[s] /\ got' = [got EXCEPT ![s] = @ \o what]
    \/ gone[s] /\ UNCHANGED got

(* Faulty: only the head is passed on.                                      *)
PassOnHead(b) == SubSeq(b, 1, 2)

(* Everything read so far is passed on, frames behind the head included.    *)
PassOn(b) == b

(* A read from the upstream brings n pieces.  When the end of the head is   *)
(* among them: anything but 101 closes the relay without a word; 101 is     *)
(* passed on and the copies start.                                          *)
ReadResponse(n) ==
    LET b == buf \o SubSeq(inbox["upstream"], 1, n) IN
    /\ rpc = "head" /\ n \in 1..Len(inbox["upstream"])
    /\ inbox' = [inbox EXCEPT !["upstream"] = SubSeq(@, n + 1, Len(@))]
    /\ buf' = b
    /\ \/ "end" \notin ToSet(b) /\ UNCHANGED <<rpc, got, copy>>
       \/ "end" \in ToSet(b) /\ b[1] # "101" /\ rpc' = "ended" /\ UNCHANGED <<got, copy>>
       \/ /\ "end" \in ToSet(b) /\ b[1] = "101"
          /\ gone["client"] /\ strict
          /\ rpc' = "ended" /\ UNCHANGED <<got, copy>>
       \/ /\ "end" \in ToSet(b) /\ b[1] = "101"
          /\ Written("client", PassOn(b))
          /\ rpc' = "copy" /\ copy' = [s \in Sides |-> "on"]
    /\ UNCHANGED <<strict, sent, shut, gone>>

(* The upstream closed before the end of its head.                          *)
ResponseEof ==
    /\ rpc = "head" /\ inbox["upstream"] = <<>> /\ shut["upstream"]
    /\ RelayEnds /\ UNCHANGED buf

(* tokio::io::copy from s to the other side: one piece, ...                 *)
Copy(s) ==
    /\ copy[s] = "on" /\ inbox[s] # <<>>
    /\ inbox' = [inbox EXCEPT ![s] = Tail(@)]
    /\ \/ Written(Other(s), <<Head(inbox[s])>>) /\ UNCHANGED copy
       \/ gone[Other(s)] /\ copy' = [copy EXCEPT ![s] = "error"] /\ UNCHANGED got
    /\ UNCHANGED <<rpc, strict, sent, shut, gone, buf>>

(* ... or the end of its stream.  The other side is not told.               *)
CopyEof(s) ==
    /\ copy[s] = "on" /\ inbox[s] = <<>> /\ shut[s]
    /\ copy' = [copy EXCEPT ![s] = "eof"]
    /\ UNCHANGED <<rpc, strict, sent, inbox, shut, gone, buf, got>>

(* Faulty: the relay waits for more from a copy that has ended.             *)
JoinEof ==
    /\ rpc = "copy" /\ \A s \in Sides : copy[s] = "error"
    /\ RelayEnds /\ UNCHANGED buf

(* join! returns when both copies have.                                     *)
Join ==
    /\ rpc = "copy" /\ \A s \in Sides : copy[s] \in {"eof", "error"}
    /\ RelayEnds /\ UNCHANGED buf

RelayStep ==
    \/ Connected \/ NotConnected
    \/ (\E n \in 1..Len(inbox["upstream"]) : ReadResponse(n)) \/ ResponseEof
    \/ (\E s \in Sides : Copy(s) \/ CopyEof(s)) \/ Join

RelayEnvironment ==
    \E s \in Sides : Leaves(s) \/ ReadFails(s) \/ \E p \in Pieces : Sends(s, p)

-----------------------------------------------------------------------------
(* The relay neither drops, repeats nor reorders: each end gets a prefix of *)
(* what the other sent -- of the upstream's answer too, whatever came in    *)
(* with it -- and all of it once that copy has seen the end, unless the     *)
(* reader is gone.                                                          *)
RelayFaithful ==
    \A s \in Sides :
        /\ ~gone[Other(s)] => IsPrefix(got[Other(s)], sent[s])
        /\ copy[s] = "eof" /\ ~gone[Other(s)] => got[Other(s)] = sent[s]

(* A relay both of whose ends have closed comes to its end.                 *)
RelayLetsGo ==
    (rpc # "off" /\ \A s \in Sides : shut[s]) ~> rpc = "ended"

=============================================================================
