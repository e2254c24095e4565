# NekoGuard in TLA+

NekoGuard is a reverse proxy that lets a visitor through to a site once the
browser has solved a proof-of-work challenge. Several identical replicas run
behind a load balancer and share one Redis; a separate daemon, `certd`, issues
the TLS certificates. This directory holds TLA+ models of its parts,
TLC configurations that check them on small instances, and TLAPS proofs of the
main results for instances of any size. `PROJECT.json` ties every definition to
the source lines it translates.

All paths below are relative to the repository (`src/`).

## 1. The system

| Part | State it keeps | Operations | Talks to |
|---|---|---|---|
| Sealing key (`session.rs`) | `nekoguard:secret` in Redis; a copy in each process | `get_or_create_secret` at start: GET, SET NX, GET | Redis |
| Challenges (`pow.rs`) | `MAP`, one per process | `new_challenge`, `check_pow`, `sweep` every 10 minutes | `handle` |
| Session cookies (`session.rs`) | none: address and expiry sealed with AES-GCM in the cookie | `create_cookie`, `verify_cookie` | `handle`, browser |
| Request path (`main.rs`, `handle`) | none of its own | local routes, `/__ng/challenge`, `/__ng/verify`, whitelist, cookie, bypass, rate limit, proxy, interstitial | all of the above |
| Rate limiter (`ratelimit.rs`) | one Redis hash per address | `allow`: HMGET, HMSET, EXPIRE | Redis |
| Origin metadata (`embed.rs`) | `LOCAL` and `INFLIGHT` per process; a Redis entry per page | `load`, called by the interstitial and the favicon route | Redis, origin |
| certd (`certd/src/acme.rs`) | `nekoguard:cert:<domain>` in Redis | first pass, renewal passes; SET and PUBLISH | CA, DNS, Redis |
| TLS configuration (`main.rs`) | the certificates in memory | load at start, subscribe, reload on a message | Redis |
| Renewal script (`guard.js`) | a queue of held requests, one renewal, timers | `gate`, `renew`, heartbeat | `/__ng/challenge`, `/__ng/verify` |
| Script injection (`inject.rs`, `inject_renewal_script`) | none | decide, decode, insert, encode, announce the length | proxy |
| Head fetch (`embed.rs`, `fetch_html`, `read_head`) | bytes collected, position searched | follow redirects, search each chunk for `</head` | origin |
| Configuration (`config.rs`, `certd/src/config.rs`) | read-only after start | expansion of sites, certd's certificate groups | all |
| Accept loops, relay, SNI (`main.rs`) | a connection each: bytes read, bytes to replay | handshake, resolver, upgrade test, two copies per relay | client, origin |
| ACME orders (`certd/src/acme.rs`, `issue_cert`) | an order at the CA, TXT records at Cloudflare | order, authorize, set records, respond, poll, finalize, fetch | CA, DNS |
| Logging (`ng_log.rs`) | the log file and a count of its size | open, append, empty at the limit | — |

What is hard here, and hard to test:

- replicas race on the sealing key, on the rate-limit bucket and in the origin
  fetch, with nothing but single Redis commands to order them;
- a process keeps copies of shared state (sealing key, certificates, metadata)
  whose originals change or vanish;
- every process may die at any await, and is replaced by one with an empty
  memory;
- a Redis command that fails is usually treated as an empty answer;
- expiries are compared on different clocks, and at their very boundary;
- a Pub/Sub message is lost on whoever is not subscribed at that moment;
- byte streams arrive cut anywhere: a request head, an upstream's 101, the end
  of an HTML head;
- three programs read one configuration and have to agree on what a name is.

`PROJECT.json` lists these hazards one by one under `hazards`, each with the
properties that would catch it going wrong.

## 2. The modules

```
SessionKey ──► Edge ──(refines)──► Clearance
   │             │
   ▼             ▼
SessionKeyProofs ──► EdgeProofs

Certs ──► Issuance ──► CertsProofs

Relay, Inject, HeadFetch ──► Connection ──► ConnectionProofs

Log ──► Config ──► ConfigProofs

RateLimit ──► RateLimitProofs
EmbedCache ──► EmbedCacheProofs
Guard ──► GuardProofs
```

An arrow is EXTENDS: the module at its end composes what it points from. `Guard`
is the browser's side of `Edge`'s `/__ng/challenge` and `/__ng/verify`.

Each `MC…` module gives the constants of one of them values for TLC; each
`.cfg` is a run.

### SessionKey — agreeing on a key

A replica is `down`, about to send its GET, its SET NX or its second GET, or
`serving` with a key in memory. One action per command, `Crash` between any two,
`LoseSecret` for an operator's DEL or a Redis that restarts empty. A secret is a
model value: 32 random bytes nobody else draws. A failed first GET takes the
branch of a missing key, as in the code; an empty second GET leaves the
zero-filled array, `Blank`.

### Edge — the request path of a fleet

Extends SessionKey, so replicas start and crash in it. `Handle` is `handle`,
with one action per route. A verification is two actions, because `check_pow`
takes the challenge out of the map under the lock (`VerifyTake`) and judges it
and seals the cookie later (`VerifyReply`): between them come other
verifications, the sweep, time and a crash. A cookie is the record sealed in it,
and opening it with another key fails (AES-GCM is taken to be authentic).
The rest of `handle` is `RequestBypass` (forwarded unchecked), `RequestInterstitial`
(no cookie that holds), and, for a request with one or from the whitelist, two
actions again: `RequestChecked` and `RequestPasses`, between which it waits for
the shared Redis connection and the limiter's commands (`waiting`). What was
checked is not checked again, so a session may run out, and its cookie's key be
lost, before the request is forwarded; the reply keeps the time of the check
(`at`, history). The limiter's verdict and whether the host has an upstream are
left open here. `Upgrade` is a connection that asks for a WebSocket: it is
relayed to the upstream before `handle` (module Relay) with nothing looked at.
`AdmissionJustified` is therefore a statement about what `handle` forwards off the
bypass paths, and no more. Every replica reads its own
`SystemTime` (`Skew`), no two of which differ by more than `Tolerance`;
challenges use the monotonic clock of the one process that minted them. `deadline`,
`held`, and a cookie's `chal` and `born` are history.

### Clearance — what the fleet promises

The abstract specification, with no replicas, keys, maps or cookies: a challenge
is issued once and good for one solve before its deadline; a solve clears the
address it came from for `SessionTtl` (and the clock tolerance); a request enters
while its address stands cleared or is whitelisted, and only a request that
entered is admitted, at once or later. `Edge!ImplementsClearance` is the
refinement: a challenge is *open* while a map or a verification in progress has
it, a grant is what a cookie seals, and who awaits the limiter has entered. Two
ways to the origin are exempt, and the module says so: the bypass paths a site
opens to all, and WebSocket upgrades.

### RateLimit — the token bucket

One check is `Begin` (the clock is read before HMGET), `Hmget`, `Hmset`,
`Expire`. Within a process checks take turns on the connection mutex; across
replicas nothing orders them. Every command may fail, a process may die in the
middle and the key may expire at any point after its hour is up. `races` is
history: it counts the writes a replica makes while another has begun a check of
the same address and not yet written its outcome. That outcome may overwrite the
write, so `Conforms` allows a burst for each, as it does for each mishap. Time is in
ticks, `Second` to the second; the `f64` arithmetic is exact here. `since` is a
window chosen once and for all, so that `Conforms` speaks about every window.
The limiter is assumed enabled with `rps > 0`: otherwise `allow` returns at
once.

### EmbedCache — origin metadata

`load` with a step for every await: local tier, Redis, the per-page lock with
its queue, both looked at again, the origin's head, its icon, local put, Redis
SET. Each may take any time: `Tick` is not held up by anything. `HangUp` is hyper
dropping the task (its lock guard, or its place in the queue, goes with it) and
`Crash` the process dying. Metadata is when its head was read (`born`, before the
icon is fetched) and whether it has an icon; as history it carries for how long a
request had it in hand on its way into a store (`late`: waiting for the icon, for
the SET, or between GET and put), which neither tier counts, and when the Redis
entry it was taken from expires (`until`). The favicon route loads without fetching, first under its own path and then
under the root.

### Certs — from certd to the handshake

certd's loop (`pc`): the first pass asks for every domain; later passes renew
what is stored and due; SET, then PUBLISH, both with their errors ignored. An
error of the account request or of a Redis connection ends the loop (`ended`).
Each replica has the state of its start-up and subscriber task (`sub`), the
connection (`link`), the messages not yet taken (`inbox`), the list of keys still
to read (`keys`), the configuration being built (`got`) and the one in use
(`certs`). A refused SUBSCRIBE leaves a task that listens to nothing
(`link = "deaf"`); a reload that cannot connect panics the task (`dead`).
`missed` is history: the domains of which a read or an announcement was lost to
this replica since it last listed the keys. Issuing, a matter of minutes, takes
no time on a clock that counts days.

### Guard — the renewal script in the browser

A step is what the event loop runs between two awaits. `GatePass` and `GateHold`
are `gate`; `Renew` is `renew()` up to its first await and is part of the action
that calls it; `ChallengeDone`, `SolveDone`, `ServerVerifies`, then `RenewDone` or
`RenewFails` are its rest. `solver` and `step` are separate, because the code can
leave `solver` set with nothing under way: without a `fetch` to capture, the
function throws before its first await, and the settled promise is assigned after
the `finally`. An aborted XHR dispatches its error event inside `release(true)`, so
a page that sends again from the handler joins the renewal that is ending
(`Retries`); a rejected `fetch` is heard of later. The cookie is its expiry, on its
way (`minted`) or in the browser (`cookie`), and `late` records how long after that
a request was sent. A native send may throw inside `release()`: `RenewBreaks` has
what went before it sent, the rest aborted by the `catch`, and retries of a page
that now find the session renewed. The heartbeat's two branches do the same, so it is one action.

### Issuance — one order at the CA

Extends Certs and replaces its one-step issuance by `issue_cert` in full. The
domain and its wildcard have two authorizations, both answered by TXT records of
the one name `_acme-challenge.<domain>`; `set_cloudflare_txt` deletes what the
name has (a failed delete is passed over) and creates one record per value. `ca`
is the server's view, `dns` the records of the domain in work. `Hang` is a
request to Cloudflare that is never answered: that client, unlike the one for
the CA, has no time-out. The CA's own requests (with their nonce and signature)
are steps that succeed or fail. After the last poll the code finalizes whatever
the state: an order still pending then fails for want of a certificate URL. Time
goes on while an order hangs, or when the loop has ended or is yet to be started;
`outage` is history and counts it, because no margin can make up for a loop that
does not run.

### Connection — from accept to answer

One connection on the TLS, the plain or the redirect port. On the TLS port the
head is read byte by byte and replayed to hyper through `PrefixedReader`
(`hdr`, `ppos`); the plain port peeks once at what has arrived. An upgrade goes
to **Relay**, anything else to `handle`, whose verdict — Edge's subject — is free
here: an answer of its own, the interstitial, or the proxy. Bytes are marks of
the kinds the code tells apart, and arrive in segments of any size.

**Relay** is the WebSocket relay, which the code has twice (`strict` is their
one difference: only on the plain port a failed write of the 101 ends it). The
head of the upstream's answer comes in reads of any size, frames possibly behind
it. Either end may shut its sending half or go away, and a read from it may fail
with data still under way (`ReadFails`), which ends that copy with an error; the
relay promises a prefix then. **Inject** is pure: the
header gates, `decompress` with its cap (of a gzip body of several members it
decodes the first), `looks_like_html`, the three places the
script may go, and the two limits on the body. A compressed body takes half the
bytes of its text, so that one can be under the cap and the other over.
**HeadFetch** is `fetch_html` and `read_head`: documents over an alphabet of two
letters, a marker `aab` that can overlap itself, every cut into chunks.

### Config — one file, two programs

`Places`, `EntryAt`, `Pushed`, `Usable` are `expand`: where in the file a site may
come from, what it would be, which of them are pushed, and when that panics. `Group` is what certd orders from the
same file; `Resolve` is NekoGuard's certificate resolver; `Hello` and `Route` are
a handshake and a request. A hello is matched with the sites after its trailing
dots are stripped, but the resolver is asked for the name with them (rustls has
only put it in lower case, `LowerCase`). `Panic` is a file that does not expand
or a log file that cannot be opened, `Restart` the process started again. Names are sequences of labels in either case, a
trailing dot is an empty last label. A bypass list is the set of paths it
matches. What a name *should* get is stated separately: `Declared` reads it
straight from the blocks of the file, and compares names label by label
(`SameName`), without normalizing any; `Covers` is what a certificate is good for. **Log** is `ng_log.rs`: the logger counts what it
writes rather than ask the file, which outlives the process.

## 3. Runs

Passing runs:

| Run | Instance | What it shows |
|---|---|---|
| `edge` | 2 replicas, clocks 1 apart, 2 addresses, 2 challenges, one request waiting for the limiter, time 0–3 | `OneSolveOneClearance`, `AdmissionJustified`, `ClearanceHonoured`, `HandedOutStaysLive` |
| `edge_live` | 2 replicas, one address whitelisted and one not, 1 challenge, one request waiting, the key lost once, time 0–2, TTLs 1 and 0 | `KeyAgreement`: while Redis kept its key all serving replicas hold it. `KeysWereStored`: after n losses at most n+1 drawn keys are in use, each of which Redis stored. `ImplementsClearance`, also with replicas that seal with different keys; `ExpiredSwept` |
| `rate_limit` | 2 replicas, burst 2, 2 ticks a second, hour of 4 ticks, time 0–5, 1 fault, 2 races | `Conforms`: each mishap and each race costs at most a burst. `PatientNeverRefused` while nothing raced |
| `embed_cache` | 1 process, 2 visitors, window 2, time 0–4 | `SingleFlight`, `FetchOncePerWindow`, `ServedWithinTwoWindows`, `LoadEnds` |
| `certs` | 1 replica, 2 domains, 4 certificates, time 0–2, 2 faults | `SettledIsCurrent`, `HeldUnlessLost`, `PickedUp` |
| `guard` | 3 requests, 2 of them XHR, TTL 3, buffer 1, cookie up to 2 old at load, answers up to 2 late, time 0–6 | `HeldOnlyWhileInvalid`, `SentWithinSlack`, `AnsweredOnce`, `HeldEnds`, `KeepsRenewing` |
| `issuance` | 2 domains with wildcards, lifetime 5, margin 4, interval 1, time 0–8, 2 faults, 2 polls | `AnswerableChallenges`: whatever is responded to has its record. `RenewedInTime`: no certificate runs out in a sleep while the margin has room for an interval per fault, one more, and the outage. `IssueEnds`: also when the server never decides |
| `connection` | 4 requests, 2 frames each way, cap 5 with texts up to 14 in one gzip member or two, documents up to 6 bytes with a cap of 4 | `RequestIntact`, `RelayFaithful`, `RelayLetsGo`, `ServedWhole`, `HeadIsExact` |
| `config` | all files of two blocks over 3 spellings of domains, at most one sub each; log limits none, default and 3, lines of 1, 2 and 4 | `RoutedToOwn`, `CertificateFits`, `LogBounded` |

Violation runs, each of a sentence in the repository that the code does not
keep (details under `findings`):

| Run | The sentence | What happens |
|---|---|---|
| `rate_limit_starve` | "still update last_refill_ms so tokens refill correctly" | the fraction of a token accrued is lost at each refusal: a client that polls is starved |
| `guard_anchor` | "we never release a request on a cookie the server has already rejected" | the script counts the whole TTL from the page load, and sends on a cookie that has lapsed |
| `embed_outlives` | "That copy is never allowed to outlive the Redis entry it came from" | `local_put` stamps a copy taken from Redis as new, however little the entry has left: it is served after the entry expired |

Other sentences the code does not keep, seen while modelling and visible in the
modules, without a run of their own:

- README "reads them on startup and holds them in memory": a failed KEYS during a
  reload counts as no keys, a failed GET leaves its domain out, and the result
  replaces the certificates in use (`ReadKeys`, `GetCert`; `HeldUnlessLost` has to
  allow it).
- README on rate limits and `config.rs:73` "inherits parent if not set": the
  merged limit of a site is never read; `handle` takes the catch-all's or the
  global one, for every site.
- `config.rs:35` "no certificate is requested" for a site without an upstream:
  certd orders one for every block (`Groups`), and does not start at all if
  `upstream` is omitted rather than empty.
- `main.rs:1202` "using any available cert": the resolver returns none for a name
  without an entry, and the handshake fails (`Hello`).
- The `[nekoguard]` section has `whitelist` and `catchall` fields that `expand`
  does not read: it takes the top level's. Without that section the port is 0,
  without `[redis]` the URL is empty, as `derive(Default)` does not know the
  fields' defaults.
- A sub of several labels is served, but the wildcard certd orders covers one
  label (`CertificateFits` has to say so); a domain with capitals is stored by
  certd under a key the resolver never looks up.
- The relay's copies do not pass on a half-close, so a client that shuts its
  sending half does not reach the upstream with it; the plain port's upgrade test
  sees the first segment only, and takes the words in a body for the header; and
  an upgrade goes to the relay before `handle`, so neither cookie nor limit is
  looked at (`Upgrade` in Edge).
- README "an oversized document — is returned byte-for-byte untouched" (line 114,
  and `main.rs:355`): a document more than a byte over 4 MiB is answered with an
  empty body and a length of 0 (`main.rs:379-385`; `ServedWhole` has to allow it).
- `inject.rs:101` decodes a gzip body's first member only: what the others hold is
  lost when the script goes in (`ServedWhole` is about bodies of one member).
- A hello with a trailing dot passes as one for a name that is served
  (`main.rs:1194`), and finds no certificate (`main.rs:190-209`): `CertificateFits`
  is about names without one, as RFC 6066 has them.
- An upstream whose body breaks off in a document that would carry the script is
  answered with an empty 200 (`broken`).
- README "NekoGuard is stateless — all state lives in Redis": challenges live in
  the process (`pow.rs:9`; `expiry` is per replica), so a good solution is refused
  by every replica but the one that minted the challenge.
- README "Deleting the `nekoguard:secret` key invalidates all sessions": a running
  replica keeps the key it read at start (`session.rs:57`) and admits on it.
- README "it acts as a per-minute ceiling": `rpm` is compared with the bucket's
  level (`WithinRpm`), not with what a minute admitted.
- `embed.rs:173-175` and README on one window of five minutes: with a copy taken
  late from Redis it is two, and on top of them comes the time from the reading
  of the head to the two stores (`late` in `ServedWithinTwoWindows`).
- `embed.rs:179` "Single-flight per host": the lock is per host and path.
- `embed.rs:241` on the advertised favicon: an icon cached under a page other than
  the root is not found by the route (`Favicon`, `Return`).
- `ratelimit.rs:6` "Uses Redis for state so it works across replicas": two
  replicas that read the same bucket both admit from it (`races` in `Conforms`).
- README "once it issues a cert, it stores it in Redis, and all NekoGuard
  instances pick it up": what is announced between a replica's load and its
  subscription, or while it reconnects, is not (`missed` in `SettledIsCurrent`).
- README "waits for certd to issue": a failed first issuance is not tried again
  before certd restarts (`Check` passes over a domain that is not stored).

### Bounds, and why they are enough

Names such as `MaxTime`, `MaxDeletes`, `MaxFaults`, `MaxWaiting`, `MaxRaces`,
`MaxCerts` are bounds in the
guards and exist only for TLC. The set of challenges and of secrets is finite and
nothing is drawn twice, so it bounds how many are ever handed out.

- *Replicas.* The races are between two (three for SET NX, where a loser may be
  overtaken by another loser). `Certs` uses one: replicas never read each other's
  state, and the proofs cover any number. `EmbedCache` uses one as well: to a
  process, the Redis entry another replica wrote is no different from the one it
  wrote itself before it crashed.
- *Time.* TTLs of one tick and a clock of three reach: before, at and after each
  expiry, with a whole session in between. `edge_live` has a session TTL of 0
  so that a clearance ends (tolerance included) within a clock of 2.
  `rate_limit`'s five ticks contain a full refill and the expiry of the key;
  `embed_cache`'s four are two windows, and one is long enough to be entered in
  the middle.
  `issuance`'s eight units cover three orders of each domain, each of which may
  fail.
- *Faults.* Two, so that a fault can meet the recovery from another; in
  `rate_limit` one, beside two races. In
  `issuance` two faults use up three of the margin's four intervals, and an
  outage of two is one more than it has room for. Two polls have a first and a
  last.
- *Streams.* Four marks have every segment boundary before, in and behind the
  head, and one stream breaks off before its head has ended; two frames per side can be swapped, lost, or come in with the 101. Texts of
  up to 14 against a cap of 5 reach, plain and compressed: at the cap, one over
  it (passed through) and two over (empty). Documents of six letters have
  the three-letter marker cut at each of its letters, on both sides of the cap.
- *Files.* Two blocks and one sub each suffice for every clash the code checks
  for, and for a sub that has a block of its own.
- *Waiting.* One request at the limiter, kept there over any steps of the others:
  requests that wait do not look at each other.
- *Symmetry* is used for secrets, challenges and addresses in `edge`, which has no
  whitelist, and for the replicas in `rate_limit`. No run with a liveness property
  uses it.
- *Views.* The last reply is history that no step reads. `edge` and `edge_live`
  therefore tell states apart by the part of it that their properties look at
  (`SeenReply`, `SeenAdmission`).
- Deadlock is checked except in `Certs`, where a run ends when certd has used up
  the certificates the bound allows; in `Issuance`, where certd's loop may have
  ended or hang and the clock reaches its bound; in `Connection` and `Config`, where a
  connection is over, or a file was refused; and in `Guard`, where a page may have nothing
  more to send.

### Fairness

- `SessionKey`: start-up steps that are enabled happen. The function awaits
  Redis commands only, and each answers or fails.
- `Edge`: the sweep interval keeps firing, a verification runs to its reply.
  Clients, restarts and crashes are not assumed.
- `EmbedCache`: a load whose turn it is goes on. Every wait inside is on Redis,
  on a fetch with `FETCH_TIMEOUT`, or on a tokio mutex, which is handed on in
  order of arrival. `RateLimit` assumes nothing: all it states is safety.
- `Certs`: certd's loop and each subscriber are tasks of their own. That they
  succeed is not assumed: a fault is a way for the step to be taken.
- `Issuance`: `issue_cert` goes on; every request to the CA has a time-out of 30
  seconds. A request to Cloudflare has none, so `IssueEnds` ends in `hung` too. A
  CA that never decides is a fault like any other: only when the bound on
  faults is used up is `Validate` assumed to happen.
- `Connection`: the relay's steps whose input is there are taken. Nothing is
  assumed of the two ends, who may stay silent for ever, nor that reads fail.
- `Guard`: time passes, timers and the interval fire, and an answer that the server
  sent arrives or is lost within `MaxLag`. Nothing is assumed of the challenge
  request, the solver or the verification: a renewal may hang.

Weak fairness is enough everywhere: no step is disabled by another actor once it
is enabled, except by the death of its own process.

## 4. Proofs

All are checked by tlapm for every value of the constants that satisfies the
named assumptions, which TLC evaluates in the runs of their modules. Every
invariant and every action property of the passing runs that is not about
fairness is the subject of a theorem; the numbers of replicas, visitors, addresses,
domains, requests and faults, the times and limits, and the lengths of streams,
documents and files are arbitrary there. (`Conforms` and `PatientNeverRefused`
are proved for one process.)

**SessionKeyProofs.** `KeyTypeCorrect`, `KeyAgreementHolds`,
`KeysWereStoredHolds`. Agreement is not inductive: it says nothing of a replica
that has yet to read the key it will serve with. `KeyInv` adds that, while Redis
kept its key, whoever is past SET NX finds a value there; that what is stored is
in the history; and that each loss makes room for one more stored value, which is
what counts the keys.

**EdgeProofs.** `EdgeTypeCorrect`, `OneSolveOneClearanceHolds`,
`AdmissionJustifiedHolds`, `ClearanceHonouredHolds`, `HandedOutStaysLiveHolds`,
`EdgeImplementsClearance`.
Every step of Edge is a step of SessionKey or leaves its variables alone, so
`KeyInv` carries over. `EdgeInv` adds four parts. `OnePlace`: a drawn challenge
is in one map, in one verification, or spent — this is what makes one solve buy
one cookie. `OnlyServing`: verifications and held challenges belong to live
processes. `CookiesSealed`: a cookie's expiry is its birth plus the TTL on some
replica's clock, and its key, unless lost, is the one in Redis — from which the
two bounds on admission follow with the clock tolerance. `WaitingJustified`: who
awaits the limiter was cleared when it was checked, a fact that neither time nor
the loss of a key undoes. The refinement goes
step by step (`ClearanceStep`): minting a challenge is `Clearance`'s issue; a good
reply is its redemption, by `OnePlace` the only one; whatever loses challenges — an
expired take, a bad nonce, a sweep, a crash — retires them, and with a crash the
requests that had entered; a check that passes is an entry, which `CookiesSealed`
justifies; a request forwarded after the limiter is an admission; all else
stutters, upgrades and bypass paths included.

**RateLimitProofs.** `RateTypeCorrect` for any fleet; `RateConforms` and
`RatePatientNeverRefused` under `OneProcess`, where checks never race (`NoRaces`)
and the bound is one burst and one more for each mishap. What races between
replicas add is model-checked only. `Conforms` weighs requests
let in against time, and the bucket is what remembers the difference: `BudgetInv`
says that requests let in *and* the tokens in the bucket are paid for by the bursts
and by what accrued up to the bucket's stamp (`Covered`). Where the bucket is gone,
a full one has to be paid for (`Spare`), because the next check will assume one; a
check between HMGET and HMSET holds a copy that must be paid for too. `ClockInv`
has the stamps in the order of the checks.

**EmbedCacheProofs.** `EmbedTypeCorrect`, `EmbedSingleFlight`,
`EmbedServedWithinTwoWindows`, `EmbedFetchOncePerWindow` (an action property).
`LockInv`: who waits is in the queue, who works under the lock is at its front; the
queue loses a visitor from any place when one hangs up (`Without`), so single
flight rests on what taking an element out of a sequence leaves in order.
`WindowInv` has the ages: of what is in the local tier, in Redis, and on its way
from one to the other, each measured against a window after the head was read and
the time it was carried (`Due`), as any await may take any time; and that within a window of a fetch the local tier remembers
it, so that whoever found nothing under the lock is right to fetch.

**CertsProofs.** `CertsTypeCorrect`, `SettledIsCurrentHolds`,
`HeldUnlessLostHolds`, and of Issuance `ChallengesAreAnswerable` and
`CertificatesRenewedInTime`. `SettledIsCurrent` is about a replica at rest.
`ReadingIsCurrentAt` says what holds in the middle of a reload: a domain that is
not lost, announced, or about to be announced is still to be read, or was read as
it is now. StoreCert makes a domain "about to be announced", Publish turns that
into a message or a loss, Receive starts a reading that covers it. `LeftOutAt`
does the same for `HeldUnlessLost`.
`OrderStage` is what an order has set and answered at each stage. `RenewInv` is a
budget again: what a certificate has left is at least the margin less `Debt`, the
intervals lost to faults and the time the loop stood still; one interval less once
a pass has begun that is yet to come to it. Every fault adds to the debt what the
lost pass costs. The attempt turned up two things that the runs had not: a
certificate must live at least as long as the margin (`IssuanceAssumption`; 80
days and 30 in the code), and an earlier form of `RenewedInTime` took a loop that
had ended or hung for one that merely sleeps, its clock standing still.

**GuardProofs.** `GuardTypeCorrect`, `HeldOnlyWhileInvalidHolds`,
`SentWithinSlackHolds`, `AnsweredOnceHolds`. The lemmas `RenewEffect`, `FailEffect`
and `BreakEffect` say what `renew()`, its failure and a send that throws do to the
queue, whichever branch is taken. `AnchorInv` is the strengthening behind the slack: the script's expiry is at
most the slack behind the cookie's, and an answer on its way is no older than the
lag, so re-anchoring on its arrival keeps the first part true.

**ConnectionProofs.** `ConnectionTypeCorrect`, `RelayIsFaithful`,
`FetchedHeadIsExact`, `RequestStaysIntact`, `ResponseServedWhole`, one invariant
each and every step of the composition shown to leave the others alone.
`RelayFlow`: what an end sent is what the other got, then what is under way —
including frames that came in with the head of the 101; a read that fails ends the
copy and leaves the rest under way. `FetchInv`: no marker ends
within what has been searched, and the search resumes early enough to meet one that
a chunk boundary cut. `ReadInv`: the bytes looked at for the upgrade are the
beginning of the stream, and what hyper has seen is the prefix replayed so far, then
the stream. `AnswerInv` rests on lemmas about `Inject`: where the script goes, that
it is in once, and what comes of decoding and encoding.

**ConfigProofs.** `LogStaysBounded`, `RoutingIsTheFiles`,
`HelloGetsFittingCertificate`. `LogInv` has the logger's count never below the
file's length. Routing rests on one fact about names, `SameIsNormal`: two
spellings normalize alike exactly when they agree label by label. So the pushed
places of the file are the declarations of a name, and a file that expands has at
most one. For certificates, `ResolveFinds`: the resolver's answer is at least as
close to the name as any certificate there is; below a domain by one label there is
room for two answers, the name's own and the domain's with its wildcard, and both
cover it. The resolver does not normalize what it is asked for: `UndottedIsNormal`
says that for a name without a trailing dot lower case is all there is to it. The file's domains are assumed not to be empty (`ConfigAssumption`): an
empty one would expand to a site that no certificate can be found for.

That a set of numbers has a least (or greatest) element, as the closest domain and
the first marker need, is taken from the library's well-foundedness theorems
(`LeastOf`).

Only model-checked: the liveness properties `ExpiredSwept`, `LoadEnds`,
`PickedUp`, `HeldEnds`, `KeepsRenewing`, `IssueEnds` and `RelayLetsGo`, since
fairness is outside what tlapm proves; and what races between replicas cost the
rate limit.

## 5. Not modelled

- The content of requests to the CA and to Cloudflare (JWS, nonces, zone lookup):
  each is a step that succeeds or fails. certd's query routes only read.
- Cryptography: sealed cookies are authentic, challenges and keys unique, a nonce
  is good or bad.
- Header rewriting in the proxy (Host, forwarding headers, Location, cookie
  domains), page templates, and the regular expressions `scrape` takes metadata
  out of a head with: text in, text out, no state.
- A certificate in Redis that does not parse (`build_tls_config` panics): certd
  writes none.
- The merged rate limit of a site (`merge_rl`): computed and never read.
- The level filter and the date of a log line. A log file that could not be
  emptied is modelled, and excluded from `LogBounded` by `mishap`: the code writes
  on, so nothing bounds the file then.
- Back-pressure in the relay: a write to an end that stops reading but does not
  go away is taken to succeed, so `RelayLetsGo` is about ends that close.
- A Redis that neither answers nor fails: a check holds the connection mutex while
  it waits, and the requests behind it wait with it. Nothing is claimed of them.
- Keep-alive: one request per connection is followed; the next begins with hyper
  and never reaches the upgrade test.

## 6. Plan

Done, in this order: SessionKey, Clearance and Edge, RateLimit, EmbedCache, Certs,
Guard, then Connection with Relay, Inject and HeadFetch, Config with Log, and
Issuance; proofs of every safety property of each. To come:

1. Certs's promise as an abstract specification of its own: a map of certificates
   that replicas follow, with the losses it admits, and the refinement proved.
2. The proof of `Conforms` for more than one replica: a burst for each race, which
   TLC checks for two.
3. Guard beside Edge's cookie: the script's answers driven by the fleet's
   verifications, so that a challenge that expired, or reached the wrong replica, is
   a failed renewal.
