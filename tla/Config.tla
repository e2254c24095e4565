-------------------------------- MODULE Config --------------------------------
(***************************************************************************)
(* One configuration file, read by two programs.  NekoGuard expands it to  *)
(* the flat list of sites it serves (nekoguard/src/config.rs) and routes   *)
(* by it; certd draws from it the names it orders certificates for         *)
(* (certd/src/main.rs, run_acme_loop); and NekoGuard's resolver has to     *)
(* find, by the name in a client's hello, a certificate ordered by certd.  *)
(* The logger takes its limit from the same file.                          *)
(*                                                                         *)
(* A name is a sequence of labels, most specific first, spelt in either    *)
(* case; a trailing dot is an empty last label.  A bypass list is the set  *)
(* of paths it matches, or Bad if one of its patterns does not compile.    *)
(***************************************************************************)
EXTENDS Log, Sequences, SequencesExt

CONSTANTS
    RawConfigs,    \* the files to be read, already parsed
    Asked,         \* the names clients send, as SNI or Host
    Lower,         \* label -> the label in lower case
    DefaultSize,   \* default_max_size
    Unset,         \* an omitted field, an empty upstream, no such thing
    Bad            \* a list with a pattern that is no regex

Name == Seq(DOMAIN Lower)
HasLabel(name) == \E i \in DOMAIN name : name[i] # ""

(* SubSiteToml and SiteToml, as far as they are modelled.                   *)
SubToml == [name : Name, upstream : STRING \cup {Unset},
            bypass : SUBSET STRING \cup {Unset, Bad}]
SiteToml == [domain : Name, upstream : STRING, bypass : SUBSET STRING \cup {Bad},
             sub : Seq(SubToml)]

ASSUME LowerAssumption ==
    /\ {"", "*"} \subseteq DOMAIN Lower
    /\ \A l \in DOMAIN Lower : /\ Lower[l] \in DOMAIN Lower /\ Lower[Lower[l]] = Lower[l]
                               /\ Lower[l] = "" <=> l = ""

(* max_size is a u64; a domain is not empty.                                *)
ASSUME ConfigAssumption ==
    /\ DefaultSize \in Nat
    /\ Unset \notin [key : Name, names : SUBSET Name]
    /\ \A c \in RawConfigs :
          /\ c.sites \in Seq(SiteToml)
          /\ \A i \in DOMAIN c.sites : HasLabel(c.sites[i].domain)
          /\ c.log # Unset => c.log.max \in Nat \cup {Unset}

ASSUME AskedAssumption == Asked \subseteq Name

VARIABLES
    raw,           \* ConfigToml
    up,            \* NekoGuard: "down", "up", or "panic"
    sites,         \* Config.sites
    certs,         \* what certd has stored: [key, names]
    last           \* the last handshake, or the last request routed

confVars == <<raw, up, sites, certs, last>>
vars == <<confVars, logVars>>

Nothing == [kind |-> "none"]

-----------------------------------------------------------------------------
(* normalize_host: lower case, without the port and trailing dots.          *)
NormalizeHost(h) ==
    LET n == SelectLastInSeq(h, LAMBDA l : l # "")
    IN  [i \in 1..n |-> Lower[h[i]]]

(* Faulty: a name is kept as it is spelt in the file.                       *)
EntryAsIs(domain, upstream, bypass) ==
    [domain |-> domain, upstream |-> upstream, bypass |-> bypass]

Entry(domain, upstream, bypass) ==
    [domain |-> NormalizeHost(domain), upstream |-> upstream, bypass |-> bypass]

(* A place in the file that may give a site: [[sites]] block i itself, or   *)
(* its sub j.                                                               *)
Places == UNION {{i} \X (0..Len(raw.sites[i].sub)) : i \in DOMAIN raw.sites}

(* A sub takes from its block what it does not give itself.                 *)
EntryAt(p) ==
    LET s == raw.sites[p[1]]
        u == s.sub[p[2]]
    IN  IF p[2] = 0 THEN Entry(s.domain, s.upstream, s.bypass)
        ELSE Entry(u.name \o s.domain,
                   IF u.upstream = Unset THEN s.upstream ELSE u.upstream,
                   IF u.bypass = Unset THEN s.bypass ELSE u.bypass)

(* A place without an upstream is skipped.                                  *)
Pushed == {p \in Places : EntryAt(p).upstream # ""}

(* expand panics at a bad pattern, a duplicate, or no site at all.          *)
Usable ==
    /\ Pushed # {}
    /\ \A p, q \in Pushed : p # q => EntryAt(p).domain # EntryAt(q).domain
    /\ \A p \in Pushed : EntryAt(p).bypass # Bad
    /\ raw.catchall # Unset => raw.catchall.bypass # Bad

(* Without a file there is nothing to log to; without max_size it is        *)
(* default_max_size.                                                        *)
Logs == raw.log # Unset
MaxSize == IF raw.log.max = Unset THEN DefaultSize ELSE raw.log.max

SiteForHost(h) == {s \in sites : s.domain = NormalizeHost(h)}

-----------------------------------------------------------------------------
Init ==
    /\ raw \in RawConfigs
    /\ LogInit /\ (~Logs => fileLen = 0)
    /\ up = "down" /\ sites = {} /\ certs = {} /\ last = Nothing

(* The first use of CONFIG, in ng_log::init: expand, then open the log.     *)
Expand ==
    /\ up = "down" /\ Usable
    /\ up' = "up"
    /\ sites' = {EntryAt(p) : p \in Pushed}
    /\ IF Logs THEN LogOpen ELSE UNCHANGED logVars
    /\ UNCHANGED <<raw, certs, last>>

(* expand panics, or init does: the log file cannot be opened.              *)
Panic ==
    /\ up = "down" /\ (Usable => Logs)
    /\ up' = "panic"
    /\ UNCHANGED <<raw, sites, certs, last, logVars>>

(* The process ends and is started again.                                   *)
Restart ==
    /\ up \in {"up", "panic"} /\ Logs
    /\ up' = "down" /\ sites' = {} /\ last' = Nothing
    /\ UNCHANGED <<raw, certs, logVars>>

(* certd's groups: each domain, as it is written, with its wildcard when it *)
(* has subs.                                                                *)
Group(domain) ==
    LET subs == {s \in ToSet(raw.sites) : s.domain = domain /\ s.sub # <<>>}
    IN  [key |-> domain,
         names |-> {domain} \cup (IF subs = {} THEN {} ELSE {<<"*">> \o domain})]

Groups == {Group(s.domain) : s \in ToSet(raw.sites)}

(* issue_cert and store_cert for one group; a failed one is passed over.    *)
Issue(g) ==
    /\ g \in Groups \ certs
    /\ certs' = certs \cup {g}
    /\ UNCHANGED <<raw, up, sites, last, logVars>>

(* Faulty: the widest domain is tried first.                                *)
ResolveWidest(name) ==
    LET keys == {i \in 1..Len(name) : \E c \in certs : c.key = SubSeq(name, i, Len(name))}
        at == CHOOSE i \in keys : \A j \in keys : i >= j
    IN  IF keys = {} THEN Unset
        ELSE CHOOSE c \in certs : c.key = SubSeq(name, at, Len(name))

(* TlsCertResolver::resolve: the name itself, then its parents, closest     *)
(* first.                                                                   *)
Resolve(name) ==
    LET keys == {i \in 1..Len(name) : \E c \in certs : c.key = SubSeq(name, i, Len(name))}
        at == CHOOSE i \in keys : \A j \in keys : i <= j
    IN  IF keys = {} THEN Unset
        ELSE CHOOSE c \in certs : c.key = SubSeq(name, at, Len(name))

(* rustls hands on the name of a hello in lower case, and otherwise as sent. *)
LowerCase(name) == [i \in DOMAIN name |-> Lower[name[i]]]

Line == IF Logs THEN \E n \in LineLengths : LogLine(n, MaxSize) ELSE UNCHANGED logVars

(* A client's hello: a name that is not served, trailing dots aside, is     *)
(* refused unless there is a catch-all; then the resolver is asked for the  *)
(* name with its dots, and finds a certificate or ends the handshake.       *)
Hello(name) ==
    /\ up = "up"
    /\ last' = [kind |-> "hello", name |-> name, had |-> certs,
                cert |-> IF SiteForHost(name) # {} \/ raw.catchall # Unset
                         THEN Resolve(LowerCase(name)) ELSE Unset]
    /\ Line
    /\ UNCHANGED <<raw, up, sites, certs>>

(* handle: the site of the Host, or the catch-all, or a 400; the path is    *)
(* matched against the site's list, then against the catch-all's.           *)
Route(host, path) ==
    LET found == SiteForHost(host)
        site == CHOOSE s \in found : TRUE
        other == raw.catchall
    IN /\ up = "up"
       /\ last' = [kind |-> "route", name |-> host, path |-> path,
                   upstream |-> CASE found # {} -> site.upstream
                                  [] found = {} /\ other # Unset -> other.upstream
                                  [] OTHER -> Unset,
                   bypassed |-> \/ found # {} /\ path \in site.bypass
                                \/ other # Unset /\ path \in other.bypass]
       /\ Line
       /\ UNCHANGED <<raw, up, sites, certs>>

Next ==
    \/ Expand \/ Panic \/ Restart
    \/ \E g \in Groups : Issue(g)
    \/ \E name \in Asked : Hello(name)
    \/ \E name \in Asked, path \in {"/", "/api"} : Route(name, path)

Spec == Init /\ [][Next]_vars

-----------------------------------------------------------------------------
(* The same name, in any case and with any number of trailing dots.         *)
Label(name, i) == IF i \in DOMAIN name THEN Lower[name[i]] ELSE ""
SameName(a, b) == \A i \in DOMAIN a \cup DOMAIN b : Label(a, i) = Label(b, i)

(* What the file says of a name, however either is spelt: the upstream and  *)
(* the list of every block or sub that declares it with an upstream of its  *)
(* own or its parent's, and how many labels it puts before the domain.      *)
Declared(name) ==
    LET own == {s \in ToSet(raw.sites) : s.upstream # "" /\ SameName(s.domain, name)}
        subs == {p \in UNION {{s} \X ToSet(s.sub) : s \in ToSet(raw.sites)} :
                    SameName(p[2].name \o p[1].domain, name)}
        first(a, b) == IF a = Unset THEN b ELSE a
    IN  {[upstream |-> s.upstream, bypass |-> s.bypass, depth |-> 0] : s \in own}
        \cup {d \in {[upstream |-> first(p[2].upstream, p[1].upstream),
                      bypass |-> first(p[2].bypass, p[1].bypass),
                      depth |-> Len(p[2].name)] : p \in subs} :
                 d.upstream # ""}

(* A request goes to the upstream the file declares for its Host, and skips *)
(* the challenge on just the paths declared there or for the catch-all: no  *)
(* other spelling of the name, and no other block, takes it elsewhere.      *)
RoutedToOwn ==
    last.kind = "route" =>
        LET ds == Declared(last.name)
            other == raw.catchall
        IN  /\ \A d \in ds : last.upstream = d.upstream
            /\ ds = {} => last.upstream = IF other = Unset THEN Unset ELSE other.upstream
            /\ last.bypassed <=> \/ \E d \in ds : last.path \in d.bypass
                                 \/ other # Unset /\ last.path \in other.bypass

(* A certificate is good for the names in it, and for those one label below *)
(* its wildcards.                                                           *)
Covers(cert, name) ==
    \E n \in cert.names :
        \/ SameName(n, name)
        \/ n[1] = "*" /\ SameName(Tail(n), Tail(name))

(* No trailing dot: what RFC 6066 has a client send, in either case.  With  *)
(* one a hello passes as that of a name served, and no certificate is found.*)
Undotted(name) == name # <<>> /\ Last(name) # ""

(* Once certd has got every group of a file that is spelt as names are      *)
(* compared, a hello for any name served -- a domain, or a sub of one label *)
(* -- is answered with a certificate for that name, if it comes without a   *)
(* trailing dot.                                                            *)
CertificateFits ==
    LET spelt == \A s \in ToSet(raw.sites) : NormalizeHost(s.domain) = s.domain
    IN  last.kind = "hello" /\ spelt /\ last.had = Groups /\ Undotted(last.name)
            /\ (\E d \in Declared(last.name) : d.depth <= 1) =>
                last.cert # Unset /\ Covers(last.cert, last.name)

(* The log file stays within the limit the file gives it.                   *)
LogBounded == up = "up" /\ Logs => WithinLimit(MaxSize)

=============================================================================
