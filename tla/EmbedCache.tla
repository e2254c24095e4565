------------------------------ MODULE EmbedCache ------------------------------
(***************************************************************************)
(* The origin-metadata cache behind the interstitial and the favicon:      *)
(* load and its helpers (nekoguard/src/embed.rs).  Each replica keeps a    *)
(* local tier in front of a Redis entry with a time to live; on a miss in  *)
(* both, the visitors of one page queue for a lock, look again, and only   *)
(* then fetch from the origin.                                             *)
(*                                                                         *)
(* Every await is a step boundary: other visitors, other replicas, time, a *)
(* visitor who hangs up (hyper drops the task, and its lock guard with it) *)
(* and a crash come between any two steps.  Metadata is abstracted to when *)
(* it was read from the origin and whether it has an icon; it carries, as  *)
(* history, the time it spent on its way into a store, in which nothing    *)
(* counts its age, and when the Redis entry it was taken from expires.     *)
(***************************************************************************)
EXTENDS Naturals, SequencesExt

CONSTANTS
    Replicas,      \* the processes
    Tasks,         \* requests being served
    Pages,         \* cache keys: the paths of one host
    Visited,       \* the pages visitors ask for
    Root,          \* the key of "/"
    IconPath,      \* the key of "/__ng/favicon.ico" itself
    CacheTtl,      \* CACHE_TTL
    MaxTime,       \* bound: the clock stops here
    None           \* no entry, no metadata

(* CachedMeta: when its page was read from the origin, and whether it has an *)
(* icon.  History: for how long requests carried it, awaiting the origin's   *)
(* icon or Redis, and the expiry of the Redis entry it was taken from.       *)
Meta == [born : Nat, icon : BOOLEAN, late : Nat, until : Nat \cup {None}]

ASSUME EmbedAssumption ==
    /\ Visited \subseteq Pages
    /\ Root \in Pages /\ IconPath \in Pages /\ Root # IconPath
    /\ CacheTtl \in Nat \ {0}
    /\ MaxTime \in Nat
    /\ None \notin Meta
    /\ None \notin [meta : Meta, fetched : Nat]
    /\ None \notin Nat

VARIABLES
    now,           \* true time
    local,         \* LOCAL: per replica and page, [meta, fetched] or None
    entry,         \* Redis: per page, [meta, exp] or None
    queue,         \* INFLIGHT: per replica and page, who holds and awaits the lock
    task,          \* per request: where it is
    served,        \* the metadata the last step gave to its caller, or None
    loaded         \* history: per replica and page, when its last fetch ended

vars == <<now, local, entry, queue, task, served, loaded>>

Steps == {"idle", "local", "redis", "put", "wait", "local2", "redis2", "fetch",
          "icon", "keep", "set"}

Idle == [pc |-> "idle", rep |-> None, page |-> None, fetch |-> FALSE, meta |-> None]

TypeOK ==
    /\ now \in 0..MaxTime
    /\ local \in [Replicas -> [Pages -> [meta : Meta, fetched : Nat] \cup {None}]]
    /\ entry \in [Pages -> [meta : Meta, exp : Nat] \cup {None}]
    /\ queue \in [Replicas -> [Pages -> Seq(Tasks)]]
    /\ task \in [Tasks -> [pc : Steps, rep : Replicas \cup {None},
                           page : Pages \cup {None}, fetch : BOOLEAN,
                           meta : Meta \cup {None}]]
    /\ served \in Meta \cup {None}
    /\ loaded \in [Replicas -> [Pages -> Nat \cup {None}]]

Init ==
    /\ now = 0
    /\ local = [r \in Replicas |-> [p \in Pages |-> None]]
    /\ entry = [p \in Pages |-> None]
    /\ queue = [r \in Replicas |-> [p \in Pages |-> <<>>]]
    /\ task = [t \in Tasks |-> Idle]
    /\ served = None
    /\ loaded = [r \in Replicas |-> [p \in Pages |-> None]]

-----------------------------------------------------------------------------
(* Faulty: a local copy never ages.                                         *)
FreshForever(r, p) == local[r][p] # None

(* local_get serves an entry younger than the window.                       *)
Fresh(r, p) == local[r][p] # None /\ now - local[r][p].fetched < CacheTtl

(* GET finds what SET EX stored until its time to live is over.             *)
InRedis(p) == entry[p] # None /\ now < entry[p].exp

(* local_put stamps the copy with the moment it is put, wherever it is from. *)
PutLocal(r, p, meta) == local' = [local EXCEPT ![r][p] = [meta |-> meta, fetched |-> now]]

Goto(t, pc) == task' = [task EXCEPT ![t].pc = pc]

(* A queue without t, who stands in it once at most.                        *)
Without(q, t) ==
    IF \E i \in 1..Len(q) : q[i] = t
      THEN RemoveAt(q, CHOOSE i \in 1..Len(q) : q[i] = t)
      ELSE q

(* The guard is dropped, or a place in the queue given up.                  *)
Release(t) ==
    LET r == task[t].rep
        p == task[t].page
    IN queue' = [queue EXCEPT ![r][p] = Without(queue[r][p], t)]

(* load returns.  inline_into is done with whatever it got; favicon goes on *)
(* to the root when this page gave it no icon.                              *)
Return(t, meta) ==
    IF task[t].fetch \/ task[t].page = Root \/ (meta # None /\ meta.icon)
      THEN /\ served' = meta
           /\ task' = [task EXCEPT ![t] = Idle]
      ELSE /\ served' = None
           /\ task' = [task EXCEPT ![t].pc = "local", ![t].page = Root, ![t].meta = None]

-----------------------------------------------------------------------------
(* The interstitial for page p: load with fetch_on_miss.                    *)
Interstitial(t, r, p) ==
    /\ task[t] = Idle
    /\ task' = [task EXCEPT ![t] = [pc |-> "local", rep |-> r, page |-> p,
                                    fetch |-> TRUE, meta |-> None]]
    /\ served' = None
    /\ UNCHANGED <<now, local, entry, queue, loaded>>

(* GET /__ng/favicon.ico: load without fetching, first under its own path.  *)
Favicon(t, r) ==
    /\ task[t] = Idle
    /\ task' = [task EXCEPT ![t] = [pc |-> "local", rep |-> r, page |-> IconPath,
                                    fetch |-> FALSE, meta |-> None]]
    /\ served' = None
    /\ UNCHANGED <<now, local, entry, queue, loaded>>

(* local_get, before the lock and again under it: an old copy is discarded. *)
LocalGet(t) ==
    LET r == task[t].rep
        p == task[t].page
    IN /\ task[t].pc \in {"local", "local2"}
       /\ IF Fresh(r, p)
            THEN Return(t, local[r][p].meta) /\ Release(t) /\ UNCHANGED local
            ELSE /\ local' = [local EXCEPT ![r][p] = None]
                 /\ Goto(t, IF task[t].pc = "local" THEN "redis" ELSE "redis2")
                 /\ served' = None
                 /\ UNCHANGED queue
       /\ UNCHANGED <<now, entry, loaded>>

(* redis_get found the entry, before the lock or under it.                  *)
RedisHit(t) ==
    /\ task[t].pc \in {"redis", "redis2"}
    /\ InRedis(task[t].page)
    /\ LET e == entry[task[t].page] IN
          task' = [task EXCEPT ![t].pc = "put", ![t].meta = [e.meta EXCEPT !.until = e.exp]]
    /\ served' = None
    /\ UNCHANGED <<now, local, entry, queue, loaded>>

(* redis_get found nothing, or failed -- which reads the same.  Without     *)
(* fetch_on_miss that is the end; else queue for the page's lock.           *)
RedisMiss(t) ==
    /\ task[t].pc = "redis"
    /\ IF task[t].fetch
         THEN /\ Goto(t, "wait")
              /\ queue' = [queue EXCEPT ![task[t].rep][task[t].page] = Append(@, t)]
              /\ served' = None
         ELSE Return(t, None) /\ UNCHANGED queue
    /\ UNCHANGED <<now, local, entry, loaded>>

(* Faulty: fetches without waiting for the lock.                            *)
AcquireAtOnce(t) ==
    /\ task[t].pc = "wait"
    /\ Goto(t, "local2")
    /\ served' = None
    /\ UNCHANGED <<now, local, entry, queue, loaded>>

(* Faulty: does not look at the local tier again once it has the lock.      *)
AcquireNoRecheck(t) ==
    /\ task[t].pc = "wait"
    /\ Head(queue[task[t].rep][task[t].page]) = t
    /\ Goto(t, "redis2")
    /\ served' = None
    /\ UNCHANGED <<now, local, entry, queue, loaded>>

(* tokio's mutex is handed on in the order of arrival.                      *)
Acquire(t) ==
    /\ task[t].pc = "wait"
    /\ Head(queue[task[t].rep][task[t].page]) = t
    /\ Goto(t, "local2")
    /\ served' = None
    /\ UNCHANGED <<now, local, entry, queue, loaded>>

(* Under the lock and still nothing anywhere: fetch.                        *)
StartFetch(t) ==
    /\ task[t].pc = "redis2"
    /\ Goto(t, "fetch")
    /\ served' = None
    /\ UNCHANGED <<now, local, entry, queue, loaded>>

(* local_put of what Redis had; load returns it.                            *)
PutAndReturn(t) ==
    /\ task[t].pc = "put"
    /\ PutLocal(task[t].rep, task[t].page, task[t].meta)
    /\ Return(t, task[t].meta)
    /\ Release(t)
    /\ UNCHANGED <<now, entry, loaded>>

(* The origin answered, and its head was read and scraped: the metadata is   *)
(* from now, whatever the icon it may name still takes.                      *)
HeadRead(t) ==
    /\ task[t].pc = "fetch"
    /\ \E next \in {"icon", "keep"} :
          task' = [task EXCEPT ![t].pc = next,
                               ![t].meta = [born |-> now, icon |-> FALSE,
                                            late |-> 0, until |-> None]]
    /\ served' = None
    /\ UNCHANGED <<now, local, entry, queue, loaded>>

(* fetch_icon ended, with an icon that can be used or without.               *)
IconFetched(t) ==
    /\ task[t].pc = "icon"
    /\ \E icon \in BOOLEAN :
          task' = [task EXCEPT ![t].pc = "keep",
                               ![t].meta = [task[t].meta EXCEPT !.icon = icon]]
    /\ served' = None
    /\ UNCHANGED <<now, local, entry, queue, loaded>>

(* Faulty: a failed fetch is cached like any other.                         *)
FetchFailsCached(t) ==
    /\ task[t].pc = "fetch"
    /\ Goto(t, "keep")
    /\ served' = None
    /\ UNCHANGED <<now, local, entry, queue, loaded>>

(* Faulty: the lock stays taken after a failed fetch.                       *)
FetchFailsLocked(t) ==
    /\ task[t].pc = "fetch"
    /\ Return(t, None)
    /\ UNCHANGED <<now, local, entry, queue, loaded>>

(* No document within the time-outs: nothing is cached.                     *)
FetchFails(t) ==
    /\ task[t].pc = "fetch"
    /\ Return(t, None)
    /\ Release(t)
    /\ UNCHANGED <<now, local, entry, loaded>>

(* local_put of what was fetched, before Redis is told.                     *)
KeepLocal(t) ==
    /\ task[t].pc = "keep"
    /\ PutLocal(task[t].rep, task[t].page, task[t].meta)
    /\ loaded' = [loaded EXCEPT ![task[t].rep][task[t].page] = now]
    /\ Goto(t, "set")
    /\ served' = None
    /\ UNCHANGED <<now, entry, queue>>

(* redis_set with the window as time to live; a failure is only logged.     *)
RedisSet(t) ==
    /\ task[t].pc = "set"
    /\ \/ entry' = [entry EXCEPT ![task[t].page] =
                       [meta |-> task[t].meta, exp |-> now + CacheTtl]]
       \/ UNCHANGED entry
    /\ Return(t, task[t].meta)
    /\ Release(t)
    /\ UNCHANGED <<now, local, loaded>>

(* The visitor hangs up: the task is dropped at whatever it awaits.         *)
HangUp(t) ==
    /\ task[t] # Idle
    /\ Release(t)
    /\ task' = [task EXCEPT ![t] = Idle]
    /\ served' = None
    /\ UNCHANGED <<now, local, entry, loaded>>

(* The process dies with its tier, its locks and its tasks.                 *)
Crash(r) ==
    /\ local' = [local EXCEPT ![r] = [p \in Pages |-> None]]
    /\ queue' = [queue EXCEPT ![r] = [p \in Pages |-> <<>>]]
    /\ task' = [t \in Tasks |-> IF task[t].rep = r THEN Idle ELSE task[t]]
    /\ loaded' = [loaded EXCEPT ![r] = [p \in Pages |-> None]]
    /\ served' = None
    /\ UNCHANGED <<now, entry>>

(* m, a tick later, if a request carries it.                                *)
Older(m) == IF m = None THEN None ELSE [m EXCEPT !.late = @ + 1]

(* Every await may take any time.                                           *)
Tick ==
    /\ now < MaxTime
    /\ now' = now + 1
    /\ task' = [t \in Tasks |-> [task[t] EXCEPT !.meta = Older(@)]]
    /\ served' = None
    /\ UNCHANGED <<local, entry, queue, loaded>>

Load(t) ==
    \/ LocalGet(t) \/ RedisHit(t) \/ RedisMiss(t) \/ Acquire(t) \/ StartFetch(t)
    \/ PutAndReturn(t) \/ HeadRead(t) \/ IconFetched(t) \/ FetchFails(t)
    \/ KeepLocal(t) \/ RedisSet(t)

Next ==
    \/ \E t \in Tasks, r \in Replicas, p \in Visited : Interstitial(t, r, p)
    \/ \E t \in Tasks, r \in Replicas : Favicon(t, r)
    \/ \E t \in Tasks : Load(t) \/ HangUp(t)
    \/ \E r \in Replicas : Crash(r)
    \/ Tick

Spec == Init /\ [][Next]_vars

(* Redis answers or fails and FETCH_TIMEOUT ends every fetch, so a request  *)
(* whose turn it is goes on.                                                *)
FairSpec == Spec /\ \A t \in Tasks : WF_vars(Load(t))

-----------------------------------------------------------------------------
(* The window protects the origin: a replica never starts to fetch a page   *)
(* it fetched less than a window ago, however many visitors queued up       *)
(* meanwhile, hung up or came in behind the fetch.                          *)
FetchOncePerWindow ==
    [][\A t \in Tasks : task[t].pc # "fetch" /\ task'[t].pc = "fetch" =>
          LET last == loaded[task[t].rep][task[t].page] IN
          last = None \/ now >= last + CacheTtl]_vars

(* Nobody fetches a page a request in the same process is fetching already. *)
SingleFlight ==
    \A t, u \in Tasks :
        task[t].pc = "fetch" /\ task[u].pc \in {"local2", "redis2", "fetch", "icon", "keep", "set"}
            /\ task[t].rep = task[u].rep /\ task[t].page = task[u].page => t = u

(* Every request gets its page, with metadata or without: nobody is left in *)
(* the queue, also when those ahead fail, hang up or keep coming.           *)
LoadEnds == \A t \in Tasks : task[t] # Idle ~> task[t] = Idle

(* Metadata is served for less than two windows after it was read from the  *)
(* origin -- one in Redis, one in a process that took it from there late -- *)
(* and the time it spent on its way into the two stores.                    *)
ServedWithinTwoWindows ==
    served # None => now - served.born < 2 * CacheTtl + served.late

(* src/README.md: "That copy is never allowed to outlive the Redis entry it *)
(* came from."  A copy the process goes on serving was taken from an entry  *)
(* Redis still has, or from the origin.                                     *)
CopyDiesWithEntry ==
    \A r \in Replicas, p \in Pages :
        Fresh(r, p) /\ local[r][p].meta.until # None => now < local[r][p].meta.until

=============================================================================
