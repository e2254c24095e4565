--------------------------- MODULE EmbedCacheProofs ---------------------------
(* Proofs about EmbedCache, for any number of replicas, visitors and pages   *)
(* and for any window.                                                       *)
EXTENDS EmbedCache, SequenceTheorems, TLAPS

(* Steps at which a request has the page's lock for sure.                    *)
Locked == {"local2", "redis2", "fetch", "icon", "keep", "set"}

(* A request under way knows its replica and its page, and one that is about *)
(* to store metadata has some.                                               *)
TaskInv ==
    \A t \in Tasks :
        /\ task[t] # Idle => task[t].rep \in Replicas /\ task[t].page \in Pages
        /\ task[t].pc = "idle" => task[t] = Idle
        /\ task[t].pc \in {"put", "icon", "keep", "set"} => task[t].meta \in Meta

(* Where t queues.                                                           *)
Line(t) == queue[task[t].rep][task[t].page]

InLine(t) == \E i \in 1..Len(Line(t)) : Line(t)[i] = t
AtFront(t) == 1 \in 1..Len(Line(t)) /\ Line(t)[1] = t

(* Who awaits the lock is in the queue, and who has it is at the front.      *)
LockInv ==
    \A t \in Tasks :
        /\ task[t].pc = "wait" => InLine(t)
        /\ task[t].pc \in Locked => AtFront(t)

(* When a first store has kept m for its window, for the time m was on its   *)
(* way.                                                                      *)
Due(m) == m.born + m.late + CacheTtl

(* How old what is stored, and what is on its way into a store, may be.      *)
LocalAge ==
    \A r \in Replicas, p \in Pages : local[r][p] # None =>
        /\ local[r][p].meta.born <= local[r][p].fetched
        /\ local[r][p].fetched <= now
        /\ local[r][p].fetched < Due(local[r][p].meta)

EntryAge ==
    \A p \in Pages : entry[p] # None =>
        /\ entry[p].meta.born <= now
        /\ entry[p].exp <= Due(entry[p].meta)

TaskAge ==
    \A t \in Tasks :
        /\ task[t].pc = "put" => /\ task[t].meta.born <= now
                                 /\ now < Due(task[t].meta)
        /\ task[t].pc \in {"icon", "keep", "set"} =>
              task[t].meta.born + task[t].meta.late = now

(* The latest fetch of page p by replica r is at least a window ago.         *)
Elapsed(r, p) == loaded[r][p] = None \/ now >= loaded[r][p] + CacheTtl

(* Within a window of a fetch the local tier has a copy at least as recent.  *)
Remembered ==
    \A r \in Replicas, p \in Pages :
        \/ Elapsed(r, p)
        \/ local[r][p] # None /\ loaded[r][p] <= local[r][p].fetched

(* Who found no copy under the lock is right to fetch.                       *)
RightToFetch ==
    \A t \in Tasks : task[t].pc = "redis2" => Elapsed(task[t].rep, task[t].page)

(* What the windows bound: the ages, and when a page may be fetched again.   *)
WindowInv == LocalAge /\ EntryAge /\ TaskAge /\ Remembered /\ RightToFetch
               /\ ServedWithinTwoWindows

(* The inductive invariant.                                                  *)
EmbedInv ==
    /\ TypeOK /\ TaskInv
    /\ LockInv
    /\ WindowInv

-----------------------------------------------------------------------------
(* What is left of a sequence when its k-th element is taken out.            *)
LEMMA RemovedAt ==
    ASSUME NEW S, NEW q \in Seq(S), NEW k \in 1..Len(q)
    PROVE  /\ RemoveAt(q, k) \in Seq(S)
           /\ Len(RemoveAt(q, k)) = Len(q) - 1
           /\ \A i \in 1..(k - 1) : RemoveAt(q, k)[i] = q[i]
           /\ \A i \in (k + 1)..Len(q) : RemoveAt(q, k)[i - 1] = q[i]
<1> DEFINE a == SubSeq(q, 1, k - 1)
           b == SubSeq(q, k + 1, Len(q))
<1>0. Len(q) \in Nat /\ k \in Nat /\ 1 <= k /\ k <= Len(q)
  BY LenProperties
<1>1. a \in Seq(S) /\ Len(a) = k - 1 /\ \A i \in 1..(k - 1) : a[i] = q[i]
  BY <1>0, SubSeqProperties
<1>2. b \in Seq(S) /\ Len(b) = Len(q) - k /\ \A i \in 1..(Len(q) - k) : b[i] = q[k + i]
  BY <1>0, SubSeqProperties
<1>3. RemoveAt(q, k) = a \o b
  BY DEF RemoveAt
<1> HIDE DEF a, b
<1>4. /\ a \o b \in Seq(S)
      /\ Len(a \o b) = Len(a) + Len(b)
      /\ \A i \in 1..Len(a) + Len(b) :
            (a \o b)[i] = IF i <= Len(a) THEN a[i] ELSE b[i - Len(a)]
  BY <1>1, <1>2, ConcatProperties
<1>5. \A i \in 1..(k - 1) : (a \o b)[i] = q[i]
  BY <1>0, <1>1, <1>2, <1>4
<1>6. ASSUME NEW i \in (k + 1)..Len(q) PROVE (a \o b)[i - 1] = q[i]
  <2>1. i - 1 \in 1..Len(a) + Len(b) /\ ~(i - 1 <= Len(a)) /\ i - 1 - Len(a) = i - k
    BY <1>0, <1>1, <1>2
  <2>2. i - k \in 1..(Len(q) - k) /\ k + (i - k) = i
    BY <1>0
  <2>3. QED
    BY <2>1, <2>2, <1>2, <1>4
<1>7. QED
  BY <1>0, <1>1, <1>2, <1>3, <1>4, <1>5, <1>6

(* What leaving a queue does to it: nobody else's place is lost, and nobody  *)
(* else's at the front.                                                      *)
LEMMA WithoutKeeps ==
    ASSUME NEW q \in Seq(Tasks), NEW t \in Tasks
    PROVE  /\ Without(q, t) \in Seq(Tasks)
           /\ \A u \in Tasks \ {t} :
                 (\E i \in 1..Len(q) : q[i] = u) =>
                    \E i \in 1..Len(Without(q, t)) : Without(q, t)[i] = u
           /\ \A u \in Tasks \ {t} :
                 1 \in 1..Len(q) /\ q[1] = u =>
                    1 \in 1..Len(Without(q, t)) /\ Without(q, t)[1] = u
<1>1. CASE ~ \E i \in 1..Len(q) : q[i] = t
  BY <1>1 DEF Without
<1>2. CASE \E i \in 1..Len(q) : q[i] = t
  <2>1. PICK k \in 1..Len(q) : q[k] = t /\ Without(q, t) = RemoveAt(q, k)
    BY <1>2 DEF Without
  <2> DEFINE w == RemoveAt(q, k)
  <2>2. /\ w \in Seq(Tasks) /\ Len(w) = Len(q) - 1 /\ Len(q) \in Nat
        /\ \A i \in 1..(k - 1) : w[i] = q[i]
        /\ \A i \in (k + 1)..Len(q) : w[i - 1] = q[i]
    BY RemovedAt, LenProperties
  <2> HIDE DEF w
  <2>3. ASSUME NEW u \in Tasks \ {t}, NEW i \in 1..Len(q), q[i] = u
        PROVE  \E j \in 1..Len(w) : w[j] = u
    <3>1. i < k \/ i > k
      BY <2>1, <2>3
    <3>2. CASE i < k
      BY <3>2, <2>2, <2>3
    <3>3. CASE i > k
      <4>1. i - 1 \in 1..Len(w) /\ w[i - 1] = u
        BY <3>3, <2>2, <2>3
      <4>2. QED
        BY <4>1
    <3>4. QED
      BY <3>1, <3>2, <3>3
  <2>4. ASSUME NEW u \in Tasks \ {t}, 1 \in 1..Len(q), q[1] = u
        PROVE  1 \in 1..Len(w) /\ w[1] = u
    <3>1. k # 1
      BY <2>1, <2>4
    <3>2. QED
      BY <3>1, <2>2, <2>4
  <2>5. QED
    BY <2>1, <2>2, <2>3, <2>4 DEF w
<1>3. QED
  BY <1>1, <1>2

-----------------------------------------------------------------------------
Task == [pc : Steps, rep : Replicas \cup {None}, page : Pages \cup {None},
         fetch : BOOLEAN, meta : Meta \cup {None}]

LEMMA IdleType == Idle \in Task /\ Idle.pc = "idle"
BY DEF Idle, Task, Steps

(* A step that moves t on within load.                                       *)
LEMMA GotoStep ==
    ASSUME TypeOK, TaskInv, NEW t \in Tasks, NEW pc \in Steps \ {"idle", "put", "icon", "keep"},
           task[t].pc # "idle", pc = "set" => task[t].pc = "keep", Goto(t, pc)
    PROVE  /\ task' \in [Tasks -> Task]
           /\ TaskInv'
           /\ \A u \in Tasks \ {t} : task'[u] = task[u]
           /\ task'[t].pc = pc /\ task'[t].rep = task[t].rep
           /\ task'[t].page = task[t].page /\ task'[t].meta = task[t].meta
<1>1. task \in [Tasks -> Task] /\ task[t] \in Task
  BY DEF TypeOK, Task
<1>2. task' = [task EXCEPT ![t].pc = pc]
  BY DEF Goto
<1>3. /\ task' \in [Tasks -> Task]
      /\ \A u \in Tasks \ {t} : task'[u] = task[u]
      /\ task'[t].pc = pc /\ task'[t].rep = task[t].rep
      /\ task'[t].page = task[t].page /\ task'[t].meta = task[t].meta
  BY <1>1, <1>2 DEF Task
<1>4. task[t] # Idle
  BY IdleType
<1>5. TaskInv'
  BY <1>3, <1>4 DEF TaskInv
<1>6. QED
  BY <1>3, <1>5

(* A step that moves t on and gives it metadata.                             *)
LEMMA GotMetaStep ==
    ASSUME TypeOK, TaskInv, NEW t \in Tasks, NEW pc \in {"put", "icon", "keep"}, NEW meta \in Meta,
           task[t].pc # "idle", task' = [task EXCEPT ![t].pc = pc, ![t].meta = meta]
    PROVE  /\ task' \in [Tasks -> Task]
           /\ TaskInv'
           /\ \A u \in Tasks \ {t} : task'[u] = task[u]
           /\ task'[t].pc = pc /\ task'[t].rep = task[t].rep
           /\ task'[t].page = task[t].page /\ task'[t].meta = meta
<1>1. task \in [Tasks -> Task] /\ task[t] \in Task
  BY DEF TypeOK, Task
<1>2. /\ task' \in [Tasks -> Task]
      /\ \A u \in Tasks \ {t} : task'[u] = task[u]
      /\ task'[t].pc = pc /\ task'[t].rep = task[t].rep
      /\ task'[t].page = task[t].page /\ task'[t].meta = meta
  BY <1>1 DEF Task, Steps
<1>3. task[t] # Idle
  BY IdleType
<1>4. TaskInv'
  BY <1>2, <1>3 DEF TaskInv
<1>5. QED
  BY <1>2, <1>4

(* A step in which load returns to t: t is done, or starts over at the root. *)
LEMMA ReturnStep ==
    ASSUME TypeOK, TaskInv, NEW t \in Tasks, NEW meta \in Meta \cup {None},
           task[t].pc # "idle", Return(t, meta)
    PROVE  /\ task' \in [Tasks -> Task]
           /\ TaskInv'
           /\ \A u \in Tasks \ {t} : task'[u] = task[u]
           /\ task'[t].pc \in {"idle", "local"}
           /\ served' \in {meta, None}
<1>1. task \in [Tasks -> Task] /\ task[t] \in Task
  BY DEF TypeOK, Task
<1>2. task[t] # Idle
  BY IdleType
<1>3. CASE task' = [task EXCEPT ![t] = Idle]
  <2>1. /\ task' \in [Tasks -> Task]
        /\ \A u \in Tasks \ {t} : task'[u] = task[u]
        /\ task'[t] = Idle
    BY <1>1, <1>3, IdleType
  <2>2. TaskInv'
    BY <2>1, IdleType DEF TaskInv
  <2>3. QED
    BY <2>1, <2>2, IdleType DEF Return
<1>4. CASE task' = [task EXCEPT ![t].pc = "local", ![t].page = Root, ![t].meta = None]
  <2>1. /\ task' \in [Tasks -> Task]
        /\ \A u \in Tasks \ {t} : task'[u] = task[u]
        /\ task'[t].pc = "local" /\ task'[t].rep = task[t].rep
        /\ task'[t].page = Root
    BY <1>1, <1>4, EmbedAssumption DEF Task, Steps
  <2>2. TaskInv'
    BY <2>1, <1>2, EmbedAssumption DEF TaskInv
  <2>3. QED
    BY <2>1, <2>2 DEF Return
<1>5. QED
  BY <1>3, <1>4 DEF Return

(* A step with which a request begins.                                       *)
LEMMA BeginStep ==
    ASSUME TypeOK, TaskInv, NEW t \in Tasks, NEW r \in Replicas, NEW p \in Pages,
           NEW f \in BOOLEAN,
           task' = [task EXCEPT ![t] = [pc |-> "local", rep |-> r, page |-> p,
                                        fetch |-> f, meta |-> None]]
    PROVE  /\ task' \in [Tasks -> Task]
           /\ TaskInv'
           /\ \A u \in Tasks \ {t} : task'[u] = task[u]
           /\ task'[t].pc = "local"
<1>1. task \in [Tasks -> Task]
  BY DEF TypeOK, Task
<1>2. [pc |-> "local", rep |-> r, page |-> p, fetch |-> f, meta |-> None] \in Task
  BY DEF Task, Steps
<1>3. /\ task' \in [Tasks -> Task]
      /\ \A u \in Tasks \ {t} : task'[u] = task[u]
      /\ task'[t] = [pc |-> "local", rep |-> r, page |-> p, fetch |-> f, meta |-> None]
  BY <1>1, <1>2
<1>4. /\ task'[t].pc = "local" /\ task'[t].rep = r /\ task'[t].page = p
  BY <1>3
<1>5. TaskInv'
  BY <1>3, <1>4 DEF TaskInv
<1>6. QED
  BY <1>3, <1>4, <1>5

(* What the origin has just given is metadata, and so is metadata whose      *)
(* history, age on the way or icon changes.                                  *)
LEMMA MetaTypes ==
    /\ \A n \in Nat : LET m == [born |-> n, icon |-> FALSE, late |-> 0, until |-> None] IN
          m \in Meta /\ m.born = n /\ m.late = 0
    /\ \A m \in Meta, e \in Nat : LET l == [m EXCEPT !.until = e] IN
          l \in Meta /\ l.born = m.born /\ l.late = m.late
    /\ \A m \in Meta, i \in BOOLEAN : LET l == [m EXCEPT !.icon = i] IN
          l \in Meta /\ l.born = m.born /\ l.late = m.late
    /\ \A m \in Meta : /\ Older(m) \in Meta
                        /\ Older(m).born = m.born /\ Older(m).late = m.late + 1
BY EmbedAssumption DEF Meta, Older

(* A hit gives t the metadata Redis has for its page.                        *)
LEMMA RedisHitStep ==
    ASSUME TypeOK, TaskInv, NEW t \in Tasks, RedisHit(t)
    PROVE  LET e == entry[task[t].page] IN
           /\ task[t].page \in Pages /\ e \in [meta : Meta, exp : Nat] /\ e # None
           /\ now < e.exp
           /\ task' \in [Tasks -> Task] /\ TaskInv'
           /\ \A u \in Tasks \ {t} : task'[u] = task[u]
           /\ task'[t].pc = "put"
           /\ task'[t].meta.born = e.meta.born /\ task'[t].meta.late = e.meta.late
<1> DEFINE e == entry[task[t].page]
<1>1. task[t].pc # "idle" /\ task[t].page \in Pages
  BY IdleType DEF RedisHit, TaskInv
<1>2. e # None /\ e \in [meta : Meta, exp : Nat] /\ now < e.exp
  BY <1>1 DEF RedisHit, InRedis, TypeOK
<1>3. task' = [task EXCEPT ![t].pc = "put", ![t].meta = [e.meta EXCEPT !.until = e.exp]]
  BY DEF RedisHit
<1> HIDE DEF e
<1>4. /\ [e.meta EXCEPT !.until = e.exp] \in Meta
      /\ [e.meta EXCEPT !.until = e.exp].born = e.meta.born
      /\ [e.meta EXCEPT !.until = e.exp].late = e.meta.late
  BY <1>2, MetaTypes
<1>5. /\ task' \in [Tasks -> Task] /\ TaskInv'
      /\ \A u \in Tasks \ {t} : task'[u] = task[u]
      /\ task'[t].pc = "put" /\ task'[t].meta = [e.meta EXCEPT !.until = e.exp]
  BY <1>1, <1>3, <1>4, GotMetaStep
<1>6. QED
  BY <1>1, <1>2, <1>4, <1>5 DEF e

(* The head that was read is metadata from now.                              *)
LEMMA HeadReadStep ==
    ASSUME TypeOK, TaskInv, NEW t \in Tasks, HeadRead(t)
    PROVE  /\ task' \in [Tasks -> Task] /\ TaskInv'
           /\ \A u \in Tasks \ {t} : task'[u] = task[u]
           /\ task'[t].pc \in {"icon", "keep"}
           /\ task'[t].rep = task[t].rep /\ task'[t].page = task[t].page
           /\ task'[t].meta.born = now /\ task'[t].meta.late = 0
<1> DEFINE m == [born |-> now, icon |-> FALSE, late |-> 0, until |-> None]
<1>1. PICK next \in {"icon", "keep"} : task' = [task EXCEPT ![t].pc = next, ![t].meta = m]
  BY DEF HeadRead
<1>2. m \in Meta /\ m.born = now /\ m.late = 0
  <2>1. now \in Nat
    BY EmbedAssumption DEF TypeOK
  <2>2. QED
    BY <2>1, MetaTypes
<1>3. task[t].pc # "idle"
  BY DEF HeadRead
<1> HIDE DEF m
<1>4. QED
  BY <1>1, <1>2, <1>3, GotMetaStep

(* The icon changes nothing about the age.                                   *)
LEMMA IconFetchedStep ==
    ASSUME TypeOK, TaskInv, NEW t \in Tasks, IconFetched(t)
    PROVE  /\ task' \in [Tasks -> Task] /\ TaskInv'
           /\ \A u \in Tasks \ {t} : task'[u] = task[u]
           /\ task'[t].pc = "keep"
           /\ task'[t].rep = task[t].rep /\ task'[t].page = task[t].page
           /\ task'[t].meta.born = task[t].meta.born
           /\ task'[t].meta.late = task[t].meta.late
<1>1. PICK icon \in BOOLEAN :
         task' = [task EXCEPT ![t].pc = "keep",
                              ![t].meta = [task[t].meta EXCEPT !.icon = icon]]
  BY DEF IconFetched
<1> DEFINE m == [task[t].meta EXCEPT !.icon = icon]
<1>2. task[t].meta \in Meta /\ task[t].pc # "idle"
  BY DEF IconFetched, TaskInv
<1>3. m \in Meta /\ m.born = task[t].meta.born /\ m.late = task[t].meta.late
  BY <1>2, MetaTypes
<1>4. task' = [task EXCEPT ![t].pc = "keep", ![t].meta = m]
  BY <1>1
<1> HIDE DEF m
<1>5. QED
  BY <1>2, <1>3, <1>4, GotMetaStep

(* A tick moves nobody on, and ages what requests carry.                     *)
LEMMA TickStep ==
    ASSUME TypeOK, TaskInv, Tick
    PROVE  /\ task' \in [Tasks -> Task] /\ TaskInv'
           /\ \A t \in Tasks :
                 /\ task'[t].pc = task[t].pc /\ task'[t].rep = task[t].rep
                 /\ task'[t].page = task[t].page
                 /\ task'[t].meta = Older(task[t].meta)
<1>1. task \in [Tasks -> Task] /\ \A t \in Tasks : task[t] \in Task
  BY DEF TypeOK, Task
<1>2. \A m \in Meta \cup {None} : Older(m) \in Meta \cup {None}
  BY MetaTypes DEF Older
<1>3. \A k \in Task : /\ [k EXCEPT !.meta = Older(@)] \in Task
                     /\ [k EXCEPT !.meta = Older(@)].pc = k.pc
                     /\ [k EXCEPT !.meta = Older(@)].rep = k.rep
                     /\ [k EXCEPT !.meta = Older(@)].page = k.page
                     /\ [k EXCEPT !.meta = Older(@)].meta = Older(k.meta)
  BY <1>2 DEF Task
<1>4. \A t \in Tasks : task'[t] = [task[t] EXCEPT !.meta = Older(@)]
  BY DEF Tick
<1>5. task' \in [Tasks -> Task]
  BY <1>1, <1>3 DEF Tick
<1>6. [Idle EXCEPT !.meta = Older(@)] = Idle
  BY DEF Idle, Older
<1>7. TaskInv'
  <2> SUFFICES ASSUME NEW t \in Tasks
               PROVE  /\ task'[t] # Idle => task'[t].rep \in Replicas /\ task'[t].page \in Pages
                      /\ task'[t].pc = "idle" => task'[t] = Idle
                      /\ task'[t].pc \in {"put", "icon", "keep", "set"} => task'[t].meta \in Meta
    BY DEF TaskInv
  <2>1. /\ task'[t].pc = task[t].pc /\ task'[t].rep = task[t].rep
        /\ task'[t].page = task[t].page /\ task'[t].meta = Older(task[t].meta)
    BY <1>1, <1>3, <1>4
  <2>2. task[t] = Idle => task'[t] = Idle
    BY <1>4, <1>6
  <2>3. QED
    BY <2>1, <2>2, MetaTypes DEF TaskInv
<1>8. QED
  BY <1>1, <1>3, <1>4, <1>5, <1>7

(* A step in which t leaves its queue.                                       *)
LEMMA ReleaseStep ==
    ASSUME TypeOK, TaskInv, NEW t \in Tasks, task[t] # Idle, Release(t)
    PROVE  /\ queue' \in [Replicas -> [Pages -> Seq(Tasks)]]
           /\ \A u \in Tasks \ {t} : task[u] # Idle /\ task'[u] = task[u] =>
                 (InLine(u) => InLine(u)') /\ (AtFront(u) => AtFront(u)')
<1> DEFINE r == task[t].rep
           p == task[t].page
<1>1. r \in Replicas /\ p \in Pages
  BY DEF TaskInv
<1>2. queue \in [Replicas -> [Pages -> Seq(Tasks)]] /\ queue[r][p] \in Seq(Tasks)
  BY <1>1 DEF TypeOK
<1>3. queue' = [queue EXCEPT ![r][p] = Without(queue[r][p], t)]
  BY DEF Release
<1> HIDE DEF r, p
<1>4. Without(queue[r][p], t) \in Seq(Tasks)
  BY <1>2, WithoutKeeps
<1>5. queue' \in [Replicas -> [Pages -> Seq(Tasks)]]
  BY <1>1, <1>2, <1>3, <1>4
<1>6. ASSUME NEW u \in Tasks \ {t}, task[u] # Idle, task'[u] = task[u]
      PROVE  (InLine(u) => InLine(u)') /\ (AtFront(u) => AtFront(u)')
  <2>1. task[u].rep \in Replicas /\ task[u].page \in Pages
    BY <1>6 DEF TaskInv
  <2>2. CASE task[u].rep = r /\ task[u].page = p
    <3>1. Line(u) = queue[r][p] /\ Line(u)' = Without(queue[r][p], t)
      BY <2>1, <2>2, <1>1, <1>2, <1>3, <1>6 DEF Line
    <3> DEFINE q == queue[r][p]
    <3>2. q \in Seq(Tasks) /\ Line(u) = q /\ Line(u)' = Without(q, t)
      BY <1>2, <3>1
    <3> HIDE DEF q
    <3>3. \A v \in Tasks \ {t} :
             (\E i \in 1..Len(q) : q[i] = v) => \E i \in 1..Len(Without(q, t)) : Without(q, t)[i] = v
      BY <3>2, WithoutKeeps
    <3>31. \A v \in Tasks \ {t} :
             1 \in 1..Len(q) /\ q[1] = v => 1 \in 1..Len(Without(q, t)) /\ Without(q, t)[1] = v
      BY <3>2, WithoutKeeps
    <3>4. QED
      BY <3>2, <3>3, <3>31, u \in Tasks \ {t} DEF InLine, AtFront
  <2>3. CASE ~(task[u].rep = r /\ task[u].page = p)
    <3>1. Line(u)' = Line(u)
      BY <2>1, <2>3, <1>1, <1>2, <1>3, <1>6 DEF Line
    <3>2. QED
      BY <3>1 DEF InLine, AtFront
  <2>4. QED
    BY <2>2, <2>3
<1>7. QED
  BY <1>5, <1>6

-----------------------------------------------------------------------------
(* Every step keeps the types.                                               *)
LEMMA TypeStep == TypeOK /\ TaskInv /\ [Next]_vars => (TypeOK /\ TaskInv)'
<1> SUFFICES ASSUME TypeOK, TaskInv, [Next]_vars PROVE TypeOK' /\ TaskInv'
  OBVIOUS
<1>0. /\ now \in Nat /\ task \in [Tasks -> Task]
      /\ \A t \in Tasks : task[t] \in Task
  BY EmbedAssumption DEF TypeOK, Task
<1>1. ASSUME NEW t \in Tasks, NEW r \in Replicas, NEW p \in Visited, Interstitial(t, r, p)
      PROVE  TypeOK' /\ TaskInv'
  <2>1. task' \in [Tasks -> Task] /\ TaskInv'
    BY <1>1, EmbedAssumption, BeginStep DEF Interstitial
  <2>2. QED
    BY <1>1, <2>1 DEF Interstitial, TypeOK, Task
<1>2. ASSUME NEW t \in Tasks, NEW r \in Replicas, Favicon(t, r) PROVE TypeOK' /\ TaskInv'
  <2>1. task' \in [Tasks -> Task] /\ TaskInv'
    BY <1>2, EmbedAssumption, BeginStep DEF Favicon
  <2>2. QED
    BY <1>2, <2>1 DEF Favicon, TypeOK, Task
<1>3. ASSUME NEW t \in Tasks, LocalGet(t) PROVE TypeOK' /\ TaskInv'
  <2> DEFINE r == task[t].rep
             p == task[t].page
  <2>1. task[t].pc # "idle" /\ task[t] # Idle /\ r \in Replicas /\ p \in Pages
    BY <1>3, IdleType DEF LocalGet, TaskInv
  <2>2. CASE Fresh(r, p)
    <3>1. local[r][p].meta \in Meta /\ Return(t, local[r][p].meta) /\ Release(t)
          /\ UNCHANGED local
      BY <1>3, <2>1, <2>2 DEF LocalGet, Fresh, TypeOK
    <3>2. task' \in [Tasks -> Task] /\ TaskInv' /\ served' \in Meta \cup {None}
      BY <2>1, <3>1, ReturnStep
    <3>3. queue' \in [Replicas -> [Pages -> Seq(Tasks)]]
      BY <2>1, <3>1, ReleaseStep
    <3>4. QED
      BY <1>3, <3>1, <3>2, <3>3 DEF LocalGet, TypeOK, Task
  <2>3. CASE ~Fresh(r, p)
    <3>1. task' \in [Tasks -> Task] /\ TaskInv'
      BY <1>3, <2>1, <2>3, GotoStep DEF LocalGet, Steps
    <3>2. local' \in [Replicas -> [Pages -> [meta : Meta, fetched : Nat] \cup {None}]]
      <4>1. local' = [local EXCEPT ![r][p] = None]
        BY <1>3, <2>3 DEF LocalGet
      <4>2. local \in [Replicas -> [Pages -> [meta : Meta, fetched : Nat] \cup {None}]]
        BY DEF TypeOK
      <4> HIDE DEF r, p
      <4>3. QED
        BY <2>1, <4>1, <4>2
    <3>3. QED
      BY <1>3, <2>3, <3>1, <3>2 DEF LocalGet, TypeOK, Task
  <2>4. QED
    BY <2>2, <2>3
<1>4. ASSUME NEW t \in Tasks, RedisHit(t) PROVE TypeOK' /\ TaskInv'
  <2>1. task' \in [Tasks -> Task] /\ TaskInv'
    BY <1>4, RedisHitStep
  <2>2. QED
    BY <1>4, <2>1 DEF RedisHit, TypeOK, Task
<1>5. ASSUME NEW t \in Tasks, RedisMiss(t) PROVE TypeOK' /\ TaskInv'
  <2>1. /\ task[t].pc # "idle" /\ task[t] # Idle
        /\ task[t].page \in Pages /\ task[t].rep \in Replicas
    BY <1>5, IdleType DEF RedisMiss, TaskInv
  <2>2. CASE task[t].fetch
    <3>1. task' \in [Tasks -> Task] /\ TaskInv'
      BY <1>5, <2>1, <2>2, GotoStep DEF RedisMiss, Steps
    <3>2. queue' \in [Replicas -> [Pages -> Seq(Tasks)]]
      <4> DEFINE q == queue[task[t].rep][task[t].page]
      <4>1. queue \in [Replicas -> [Pages -> Seq(Tasks)]]
        BY DEF TypeOK
      <4>2. Append(q, t) \in Seq(Tasks)
        BY <2>1, <4>1
      <4>3. queue' = [queue EXCEPT ![task[t].rep][task[t].page] = Append(q, t)]
        BY <1>5, <2>2 DEF RedisMiss
      <4> HIDE DEF q
      <4>4. QED
        BY <2>1, <4>1, <4>2, <4>3
    <3>3. QED
      BY <1>5, <2>2, <3>1, <3>2 DEF RedisMiss, TypeOK, Task
  <2>3. CASE ~task[t].fetch
    <3>1. task' \in [Tasks -> Task] /\ TaskInv' /\ served' \in Meta \cup {None}
      BY <1>5, <2>1, <2>3, ReturnStep DEF RedisMiss
    <3>2. QED
      BY <1>5, <2>3, <3>1 DEF RedisMiss, TypeOK, Task
  <2>4. QED
    BY <2>2, <2>3
<1>6. ASSUME NEW t \in Tasks, Acquire(t) PROVE TypeOK' /\ TaskInv'
  <2>1. task' \in [Tasks -> Task] /\ TaskInv'
    BY <1>6, GotoStep DEF Acquire, Steps
  <2>2. QED
    BY <1>6, <2>1 DEF Acquire, TypeOK, Task
<1>7. ASSUME NEW t \in Tasks, StartFetch(t) PROVE TypeOK' /\ TaskInv'
  <2>1. task' \in [Tasks -> Task] /\ TaskInv'
    BY <1>7, GotoStep DEF StartFetch, Steps
  <2>2. QED
    BY <1>7, <2>1 DEF StartFetch, TypeOK, Task
<1>8. ASSUME NEW t \in Tasks, PutAndReturn(t) PROVE TypeOK' /\ TaskInv'
  <2>1. /\ task[t].pc # "idle" /\ task[t] # Idle /\ task[t].meta \in Meta
        /\ task[t].page \in Pages /\ task[t].rep \in Replicas
    BY <1>8, IdleType DEF PutAndReturn, TaskInv
  <2>2. task' \in [Tasks -> Task] /\ TaskInv' /\ served' \in Meta \cup {None}
    BY <1>8, <2>1, ReturnStep DEF PutAndReturn
  <2>3. queue' \in [Replicas -> [Pages -> Seq(Tasks)]]
    BY <1>8, <2>1, ReleaseStep DEF PutAndReturn
  <2>4. local' \in [Replicas -> [Pages -> [meta : Meta, fetched : Nat] \cup {None}]]
    BY <1>0, <1>8, <2>1 DEF PutAndReturn, PutLocal, TypeOK
  <2>5. QED
    BY <1>8, <2>2, <2>3, <2>4 DEF PutAndReturn, TypeOK, Task
<1>9. ASSUME NEW t \in Tasks, HeadRead(t) \/ IconFetched(t) PROVE TypeOK' /\ TaskInv'
  <2>1. task' \in [Tasks -> Task] /\ TaskInv'
    BY <1>9, HeadReadStep, IconFetchedStep
  <2>2. QED
    BY <1>9, <2>1 DEF HeadRead, IconFetched, TypeOK, Task
<1>10. ASSUME NEW t \in Tasks, FetchFails(t) PROVE TypeOK' /\ TaskInv'
  <2>1. task[t].pc # "idle" /\ task[t] # Idle
    BY <1>10, IdleType DEF FetchFails
  <2>2. task' \in [Tasks -> Task] /\ TaskInv' /\ served' \in Meta \cup {None}
    BY <1>10, <2>1, ReturnStep DEF FetchFails
  <2>3. queue' \in [Replicas -> [Pages -> Seq(Tasks)]]
    BY <1>10, <2>1, ReleaseStep DEF FetchFails
  <2>4. QED
    BY <1>10, <2>2, <2>3 DEF FetchFails, TypeOK, Task
<1>11. ASSUME NEW t \in Tasks, KeepLocal(t) PROVE TypeOK' /\ TaskInv'
  <2>1. /\ task[t].pc # "idle" /\ task[t] # Idle /\ task[t].meta \in Meta
        /\ task[t].page \in Pages /\ task[t].rep \in Replicas
    BY <1>11, IdleType DEF KeepLocal, TaskInv
  <2>2. task' \in [Tasks -> Task] /\ TaskInv'
    BY <1>11, <2>1, GotoStep DEF KeepLocal, Steps
  <2>3. local' \in [Replicas -> [Pages -> [meta : Meta, fetched : Nat] \cup {None}]]
    BY <1>0, <1>11, <2>1 DEF KeepLocal, PutLocal, TypeOK
  <2>4. loaded' \in [Replicas -> [Pages -> Nat \cup {None}]]
    BY <1>0, <1>11, <2>1 DEF KeepLocal, TypeOK
  <2>5. QED
    BY <1>11, <2>2, <2>3, <2>4 DEF KeepLocal, TypeOK, Task
<1>12. ASSUME NEW t \in Tasks, RedisSet(t) PROVE TypeOK' /\ TaskInv'
  <2>1. /\ task[t].pc # "idle" /\ task[t] # Idle /\ task[t].meta \in Meta
        /\ task[t].page \in Pages
    BY <1>12, IdleType DEF RedisSet, TaskInv
  <2>2. task' \in [Tasks -> Task] /\ TaskInv' /\ served' \in Meta \cup {None}
    BY <1>12, <2>1, ReturnStep DEF RedisSet
  <2>3. queue' \in [Replicas -> [Pages -> Seq(Tasks)]]
    BY <1>12, <2>1, ReleaseStep DEF RedisSet
  <2>4. entry' \in [Pages -> [meta : Meta, exp : Nat] \cup {None}]
    <3>1. [meta |-> task[t].meta, exp |-> now + CacheTtl] \in [meta : Meta, exp : Nat]
      BY <1>0, <2>1, EmbedAssumption
    <3>2. QED
      BY <1>12, <2>1, <3>1 DEF RedisSet, TypeOK
  <2>5. QED
    BY <1>12, <2>2, <2>3, <2>4 DEF RedisSet, TypeOK, Task
<1>13. ASSUME NEW t \in Tasks, HangUp(t) PROVE TypeOK' /\ TaskInv'
  <2>1. task' \in [Tasks -> Task] /\ TaskInv'
    BY <1>0, <1>13, IdleType DEF HangUp, TaskInv
  <2>2. queue' \in [Replicas -> [Pages -> Seq(Tasks)]]
    BY <1>13, ReleaseStep DEF HangUp
  <2>3. QED
    BY <1>13, <2>1, <2>2 DEF HangUp, TypeOK, Task
<1>14. ASSUME NEW r \in Replicas, Crash(r) PROVE TypeOK' /\ TaskInv'
  <2>1. task' \in [Tasks -> Task] /\ TaskInv'
    BY <1>0, <1>14, IdleType DEF Crash, TaskInv
  <2>2. QED
    BY <1>14, <2>1 DEF Crash, TypeOK, Task
<1>15. CASE Tick
  BY <1>15, TickStep, EmbedAssumption DEF Tick, TypeOK, Task
<1>16. CASE UNCHANGED vars
  BY <1>16 DEF vars, TypeOK, TaskInv
<1>17. QED
  BY <1>1, <1>2, <1>3, <1>4, <1>5, <1>6, <1>7, <1>8, <1>9, <1>10, <1>11, <1>12, <1>13,
     <1>14, <1>15, <1>16 DEF Next, Load

-----------------------------------------------------------------------------
(* A step of t alone, in which t leaves its queue or nobody's place changes, *)
(* keeps the lock's invariant if t has what it then needs.                   *)
LEMMA LockKept ==
    ASSUME TypeOK, TaskInv, LockInv, NEW t \in Tasks,
           \A u \in Tasks \ {t} : task'[u] = task[u],
           UNCHANGED queue \/ (task[t] # Idle /\ Release(t)),
           task'[t].pc # "wait", task'[t].pc \in Locked => AtFront(t)'
    PROVE  LockInv'
<1> SUFFICES ASSUME NEW u \in Tasks
             PROVE  /\ task'[u].pc = "wait" => InLine(u)'
                    /\ task'[u].pc \in Locked => AtFront(u)'
  BY DEF LockInv
<1>1. CASE u = t
  BY <1>1
<1>2. CASE u # t
  <2>1. task'[u] = task[u]
    BY <1>2
  <2>2. CASE task[u].pc \notin {"wait"} \cup Locked
    BY <2>1, <2>2
  <2>3. CASE task[u].pc \in {"wait"} \cup Locked
    <3>1. task[u] # Idle
      BY <2>3, IdleType DEF Locked
    <3>2. (InLine(u) => InLine(u)') /\ (AtFront(u) => AtFront(u)')
      <4>1. CASE UNCHANGED queue
        BY <4>1, <2>1 DEF InLine, AtFront, Line
      <4>2. CASE task[t] # Idle /\ Release(t)
        BY <4>2, <3>1, <2>1, <1>2, ReleaseStep
      <4>3. QED
        BY <4>1, <4>2
    <3>3. QED
      BY <3>2, <2>1 DEF LockInv
  <2>4. QED
    BY <2>2, <2>3
<1>3. QED
  BY <1>1, <1>2

(* Who holds the lock is at the front, whatever the others do.               *)
LEMMA LockStep == TypeOK /\ TaskInv /\ LockInv /\ [Next]_vars => LockInv'
<1> SUFFICES ASSUME TypeOK, TaskInv, LockInv, [Next]_vars PROVE LockInv'
  OBVIOUS
<1>0. \A t \in Tasks : task[t].pc # "idle" => task[t] # Idle
  BY IdleType
<1>1. ASSUME NEW t \in Tasks, NEW r \in Replicas, NEW p \in Visited, Interstitial(t, r, p)
      PROVE  LockInv'
  <2>1. task'[t].pc = "local" /\ \A u \in Tasks \ {t} : task'[u] = task[u]
    BY <1>1, EmbedAssumption, BeginStep DEF Interstitial
  <2>2. QED
    BY <1>1, <2>1, LockKept DEF Interstitial, Locked
<1>2. ASSUME NEW t \in Tasks, NEW r \in Replicas, Favicon(t, r) PROVE LockInv'
  <2>1. task'[t].pc = "local" /\ \A u \in Tasks \ {t} : task'[u] = task[u]
    BY <1>2, EmbedAssumption, BeginStep DEF Favicon
  <2>2. QED
    BY <1>2, <2>1, LockKept DEF Favicon, Locked
<1>3. ASSUME NEW t \in Tasks, LocalGet(t) PROVE LockInv'
  <2> DEFINE r == task[t].rep
             p == task[t].page
  <2>1. task[t].pc # "idle" /\ task[t] # Idle /\ r \in Replicas /\ p \in Pages
    BY <1>0, <1>3 DEF LocalGet, TaskInv
  <2>2. CASE Fresh(r, p)
    <3>1. local[r][p].meta \in Meta /\ Return(t, local[r][p].meta) /\ Release(t)
      BY <1>3, <2>1, <2>2 DEF LocalGet, Fresh, TypeOK
    <3>2. task'[t].pc \in {"idle", "local"} /\ \A u \in Tasks \ {t} : task'[u] = task[u]
      BY <2>1, <3>1, ReturnStep
    <3>3. QED
      BY <2>1, <3>1, <3>2, LockKept DEF Locked
  <2>3. CASE ~Fresh(r, p)
    <3>1. Goto(t, IF task[t].pc = "local" THEN "redis" ELSE "redis2") /\ UNCHANGED queue
      BY <1>3, <2>3 DEF LocalGet
    <3>2. /\ \A u \in Tasks \ {t} : task'[u] = task[u]
          /\ task'[t].pc = IF task[t].pc = "local" THEN "redis" ELSE "redis2"
          /\ task'[t].rep = task[t].rep /\ task'[t].page = task[t].page
      BY <3>1, <2>1, GotoStep DEF Steps
    <3>3. task'[t].pc \in Locked => AtFront(t)'
      BY <1>3, <3>1, <3>2 DEF LocalGet, LockInv, Locked, AtFront, Line
    <3>4. QED
      BY <3>1, <3>2, <3>3, LockKept
  <2>4. QED
    BY <2>2, <2>3
<1>4. ASSUME NEW t \in Tasks, RedisHit(t) PROVE LockInv'
  <2>1. task'[t].pc = "put" /\ \A u \in Tasks \ {t} : task'[u] = task[u]
    BY <1>4, RedisHitStep
  <2>2. QED
    BY <1>4, <2>1, LockKept DEF RedisHit, Locked
<1>5. ASSUME NEW t \in Tasks, RedisMiss(t) PROVE LockInv'
  <2>1. /\ task[t].pc # "idle" /\ task[t] # Idle
        /\ task[t].page \in Pages /\ task[t].rep \in Replicas
    BY <1>0, <1>5 DEF RedisMiss, TaskInv
  <2>2. CASE task[t].fetch
    <3> DEFINE r == task[t].rep
               p == task[t].page
               q == queue[r][p]
    <3>1. /\ \A u \in Tasks \ {t} : task'[u] = task[u]
          /\ task'[t].pc = "wait" /\ task'[t].rep = r /\ task'[t].page = p
      BY <1>5, <2>1, <2>2, GotoStep DEF RedisMiss, Steps
    <3>2. queue' = [queue EXCEPT ![r][p] = Append(q, t)]
      BY <1>5, <2>2 DEF RedisMiss
    <3>3. queue \in [Replicas -> [Pages -> Seq(Tasks)]] /\ q \in Seq(Tasks)
      BY <2>1 DEF TypeOK
    <3>4. r \in Replicas /\ p \in Pages
      BY <2>1
    <3> HIDE DEF r, p
    <3>5. /\ queue'[r][p] = Append(q, t)
          /\ \A s \in Replicas, o \in Pages : s # r \/ o # p => queue'[s][o] = queue[s][o]
      BY <3>2, <3>3, <3>4
    <3> HIDE DEF q
    <3>6. /\ Len(Append(q, t)) = Len(q) + 1 /\ Append(q, t)[Len(q) + 1] = t
          /\ \A i \in 1..Len(q) : Append(q, t)[i] = q[i]
          /\ Len(q) \in Nat
      BY <3>3, AppendProperties, LenProperties
    <3>7. InLine(t)'
      <4>1. Line(t)' = Append(q, t)
        BY <3>1, <3>5 DEF Line
      <4>2. Len(q) + 1 \in 1..Len(Append(q, t)) /\ Append(q, t)[Len(q) + 1] = t
        BY <3>6
      <4>3. QED
        BY <4>1, <4>2 DEF InLine
    <3>8. ASSUME NEW u \in Tasks \ {t}
          PROVE  /\ task'[u].pc = "wait" => InLine(u)'
                 /\ task'[u].pc \in Locked => AtFront(u)'
      <4>1. CASE task[u].pc \notin {"wait"} \cup Locked
        BY <3>1, <4>1
      <4>2. CASE task[u].pc \in {"wait"} \cup Locked
        <5>1. task[u].rep \in Replicas /\ task[u].page \in Pages
          BY <1>0, <4>2 DEF TaskInv, Locked
        <5>2. CASE task[u].rep = r /\ task[u].page = p
          <6>1. Line(u) = q /\ Line(u)' = Append(q, t)
            BY <3>1, <3>5, <5>2 DEF Line, q
          <6>2. (InLine(u) => InLine(u)') /\ (AtFront(u) => AtFront(u)')
            BY <3>6, <6>1 DEF InLine, AtFront
          <6>3. QED
            BY <3>1, <6>2 DEF LockInv
        <5>3. CASE ~(task[u].rep = r /\ task[u].page = p)
          <6>1. Line(u)' = Line(u)
            BY <3>1, <3>5, <5>1, <5>3 DEF Line
          <6>2. QED
            BY <3>1, <6>1 DEF LockInv, InLine, AtFront
        <5>4. QED
          BY <5>2, <5>3
      <4>3. QED
        BY <4>1, <4>2
    <3>9. QED
      BY <3>1, <3>7, <3>8 DEF LockInv, Locked
  <2>3. CASE ~task[t].fetch
    <3>1. task'[t].pc \in {"idle", "local"} /\ \A u \in Tasks \ {t} : task'[u] = task[u]
      BY <1>5, <2>1, <2>3, ReturnStep DEF RedisMiss
    <3>2. QED
      BY <1>5, <2>3, <3>1, LockKept DEF RedisMiss, Locked
  <2>4. QED
    BY <2>2, <2>3
<1>6. ASSUME NEW t \in Tasks, Acquire(t) PROVE LockInv'
  <2>1. /\ \A u \in Tasks \ {t} : task'[u] = task[u]
        /\ task'[t].pc = "local2"
        /\ task'[t].rep = task[t].rep /\ task'[t].page = task[t].page
    BY <1>6, GotoStep DEF Acquire, Steps
  <2>2. Line(t) \in Seq(Tasks) /\ InLine(t) /\ Head(Line(t)) = t
    BY <1>0, <1>6 DEF Acquire, LockInv, Line, TypeOK, TaskInv
  <2>3. AtFront(t)
    BY <2>2 DEF AtFront, InLine
  <2>4. AtFront(t)'
    BY <1>6, <2>1, <2>3 DEF AtFront, Line, Acquire
  <2>5. QED
    BY <1>6, <2>1, <2>4, LockKept DEF Acquire
<1>7. ASSUME NEW t \in Tasks, StartFetch(t) PROVE LockInv'
  <2>1. /\ \A u \in Tasks \ {t} : task'[u] = task[u]
        /\ task'[t].pc = "fetch"
        /\ task'[t].rep = task[t].rep /\ task'[t].page = task[t].page
    BY <1>7, GotoStep DEF StartFetch, Steps
  <2>2. AtFront(t)'
    BY <1>7, <2>1 DEF StartFetch, LockInv, Locked, AtFront, Line
  <2>3. QED
    BY <1>7, <2>1, <2>2, LockKept DEF StartFetch
<1>8. ASSUME NEW t \in Tasks, PutAndReturn(t) PROVE LockInv'
  <2>1. task[t].pc # "idle" /\ task[t] # Idle /\ task[t].meta \in Meta
    BY <1>0, <1>8 DEF PutAndReturn, TaskInv
  <2>2. task'[t].pc \in {"idle", "local"} /\ \A u \in Tasks \ {t} : task'[u] = task[u]
    BY <1>8, <2>1, ReturnStep DEF PutAndReturn
  <2>3. QED
    BY <1>8, <2>1, <2>2, LockKept DEF PutAndReturn, Locked
<1>9. ASSUME NEW t \in Tasks, HeadRead(t) \/ IconFetched(t) PROVE LockInv'
  <2>1. /\ \A u \in Tasks \ {t} : task'[u] = task[u]
        /\ task'[t].pc \in {"icon", "keep"}
        /\ task'[t].rep = task[t].rep /\ task'[t].page = task[t].page
    BY <1>9, HeadReadStep, IconFetchedStep
  <2>2. task[t].pc \in {"fetch", "icon"} /\ queue' = queue
    BY <1>9 DEF HeadRead, IconFetched
  <2>3. AtFront(t)'
    BY <2>1, <2>2 DEF LockInv, Locked, AtFront, Line
  <2>4. QED
    BY <1>9, <2>1, <2>2, <2>3, LockKept DEF Locked
<1>10. ASSUME NEW t \in Tasks, FetchFails(t) PROVE LockInv'
  <2>1. task[t].pc # "idle" /\ task[t] # Idle
    BY <1>0, <1>10 DEF FetchFails
  <2>2. task'[t].pc \in {"idle", "local"} /\ \A u \in Tasks \ {t} : task'[u] = task[u]
    BY <1>10, <2>1, ReturnStep DEF FetchFails
  <2>3. QED
    BY <1>10, <2>1, <2>2, LockKept DEF FetchFails, Locked
<1>11. ASSUME NEW t \in Tasks, KeepLocal(t) PROVE LockInv'
  <2>1. /\ \A u \in Tasks \ {t} : task'[u] = task[u]
        /\ task'[t].pc = "set"
        /\ task'[t].rep = task[t].rep /\ task'[t].page = task[t].page
    BY <1>11, GotoStep DEF KeepLocal, Steps
  <2>2. AtFront(t)'
    BY <1>11, <2>1 DEF KeepLocal, LockInv, Locked, AtFront, Line
  <2>3. QED
    BY <1>11, <2>1, <2>2, LockKept DEF KeepLocal
<1>12. ASSUME NEW t \in Tasks, RedisSet(t) PROVE LockInv'
  <2>1. task[t].pc # "idle" /\ task[t] # Idle /\ task[t].meta \in Meta
    BY <1>0, <1>12 DEF RedisSet, TaskInv
  <2>2. task'[t].pc \in {"idle", "local"} /\ \A u \in Tasks \ {t} : task'[u] = task[u]
    BY <1>12, <2>1, ReturnStep DEF RedisSet
  <2>3. QED
    BY <1>12, <2>1, <2>2, LockKept DEF RedisSet, Locked
<1>13. ASSUME NEW t \in Tasks, HangUp(t) PROVE LockInv'
  <2>1. task'[t].pc = "idle" /\ \A u \in Tasks \ {t} : task'[u] = task[u]
    BY <1>13, IdleType DEF HangUp, TypeOK
  <2>2. QED
    BY <1>13, <2>1, LockKept DEF HangUp, Locked
<1>14. ASSUME NEW r \in Replicas, Crash(r) PROVE LockInv'
  <2>1. ASSUME NEW u \in Tasks
        PROVE  /\ task'[u].pc = "wait" => InLine(u)'
               /\ task'[u].pc \in Locked => AtFront(u)'
    <3>1. CASE task[u].rep = r
      BY <1>14, <3>1, IdleType DEF Crash, Locked
    <3>2. CASE task[u].rep # r
      <4>1. task'[u] = task[u]
        BY <1>14, <3>2 DEF Crash
      <4>2. queue'[task[u].rep] = queue[task[u].rep] \/ task[u] = Idle
        BY <1>14, <3>2 DEF Crash, TypeOK, TaskInv
      <4>3. QED
        BY <4>1, <4>2, IdleType DEF LockInv, Locked, InLine, AtFront, Line
    <3>3. QED
      BY <3>1, <3>2
  <2>2. QED
    BY <2>1 DEF LockInv
<1>15. CASE Tick
  BY <1>15, TickStep DEF Tick, LockInv, InLine, AtFront, Line
<1>15a. CASE UNCHANGED vars
  BY <1>15a DEF vars, LockInv, InLine, AtFront, Line
<1>16. QED
  BY <1>1, <1>2, <1>3, <1>4, <1>5, <1>6, <1>7, <1>8, <1>9, <1>10, <1>11, <1>12, <1>13,
     <1>14, <1>15, <1>15a DEF Next, Load

-----------------------------------------------------------------------------
(* Two requests that hold the lock of one page in one process are the same.  *)
LEMMA OneHolder ==
    ASSUME LockInv, NEW t \in Tasks, NEW u \in Tasks,
           task[t].pc \in Locked, task[u].pc \in Locked,
           task[t].rep = task[u].rep, task[t].page = task[u].page
    PROVE  t = u
BY DEF LockInv, AtFront, Line

(* A step of t alone that stores nothing and gives t nothing to store.       *)
LEMMA AgesKept ==
    ASSUME TypeOK, NEW t \in Tasks, TaskAge, RightToFetch,
           \A u \in Tasks \ {t} : task'[u] = task[u],
           task'[t].pc \notin {"put", "icon", "keep", "set", "redis2"}, UNCHANGED <<now, loaded>>
    PROVE  TaskAge' /\ RightToFetch'
BY DEF TaskAge, RightToFetch, Elapsed

LEMMA StoresKept ==
    ASSUME LocalAge, EntryAge, Remembered, UNCHANGED <<now, local, entry, loaded>>
    PROVE  LocalAge' /\ EntryAge' /\ Remembered'
BY DEF LocalAge, EntryAge, Remembered, Elapsed

(* A copy put into the local tier with an age below the window.              *)
LEMMA PutKept ==
    ASSUME TypeOK, LocalAge, Remembered, NEW r \in Replicas, NEW p \in Pages,
           NEW meta \in Meta, meta.born <= now, now < Due(meta),
           PutLocal(r, p, meta), UNCHANGED now
    PROVE  /\ LocalAge'
           /\ loaded' = loaded => Remembered'
           /\ loaded' = [loaded EXCEPT ![r][p] = now] => Remembered'
<1>1. now \in Nat /\ meta.born \in Nat
  BY EmbedAssumption DEF TypeOK, Meta
<1>2. /\ local'[r][p] = [meta |-> meta, fetched |-> now]
      /\ \A s \in Replicas, o \in Pages : s # r \/ o # p => local'[s][o] = local[s][o]
  BY DEF PutLocal, TypeOK
<1>3. LocalAge'
  BY <1>1, <1>2 DEF LocalAge
<1>4. local'[r][p] # None /\ local'[r][p].fetched = now
  BY <1>1, <1>2, EmbedAssumption
<1>5. ASSUME loaded' = loaded PROVE Remembered'
  <2>1. ASSUME NEW s \in Replicas, NEW o \in Pages
        PROVE  \/ Elapsed(s, o)'
               \/ local'[s][o] # None /\ loaded'[s][o] <= local'[s][o].fetched
    <3>1. CASE s # r \/ o # p
      BY <1>2, <1>5, <3>1 DEF Remembered, Elapsed
    <3>2. CASE s = r /\ o = p
      <4>1. CASE Elapsed(r, p)
        BY <1>5, <3>2, <4>1 DEF Elapsed
      <4>2. CASE ~Elapsed(r, p)
        <5>1. local[r][p] # None /\ loaded[r][p] <= local[r][p].fetched
          BY <4>2 DEF Remembered
        <5>2. loaded[r][p] \in Nat /\ local[r][p].fetched \in Nat
          BY <4>2, <5>1 DEF Elapsed, TypeOK
        <5>3. local[r][p].fetched <= now
          BY <5>1 DEF LocalAge
        <5>4. QED
          BY <1>1, <1>4, <1>5, <3>2, <5>1, <5>2, <5>3
      <4>3. QED
        BY <4>1, <4>2
    <3>3. QED
      BY <3>1, <3>2
  <2>2. QED
    BY <2>1 DEF Remembered
<1>6. ASSUME loaded' = [loaded EXCEPT ![r][p] = now] PROVE Remembered'
  <2>1. /\ loaded'[r][p] = now
        /\ \A s \in Replicas, o \in Pages : s # r \/ o # p => loaded'[s][o] = loaded[s][o]
    BY <1>6 DEF TypeOK
  <2>2. ASSUME NEW s \in Replicas, NEW o \in Pages
        PROVE  \/ Elapsed(s, o)'
               \/ local'[s][o] # None /\ loaded'[s][o] <= local'[s][o].fetched
    <3>1. CASE s # r \/ o # p
      BY <1>2, <2>1, <3>1 DEF Remembered, Elapsed
    <3>2. CASE s = r /\ o = p
      BY <1>1, <1>4, <2>1, <3>2
    <3>3. QED
      BY <3>1, <3>2
  <2>3. QED
    BY <2>2 DEF Remembered
<1>7. QED
  BY <1>3, <1>5, <1>6

(* Every step keeps the windows.                                             *)
LEMMA WindowStep ==
    TypeOK /\ TaskInv /\ LockInv /\ WindowInv /\ [Next]_vars => WindowInv'
<1> SUFFICES ASSUME TypeOK, TaskInv, LockInv, WindowInv, [Next]_vars PROVE WindowInv'
  OBVIOUS
<1> USE DEF WindowInv
<1>0. /\ now \in Nat /\ CacheTtl \in Nat /\ CacheTtl > 0
      /\ \A t \in Tasks : task[t].pc # "idle" => task[t] # Idle
  BY EmbedAssumption, IdleType DEF TypeOK
<1>1. ASSUME NEW t \in Tasks, NEW r \in Replicas, NEW p \in Visited, Interstitial(t, r, p)
      PROVE  WindowInv'
  <2>1. task'[t].pc = "local" /\ \A u \in Tasks \ {t} : task'[u] = task[u]
    BY <1>1, EmbedAssumption, BeginStep DEF Interstitial
  <2>2. QED
    BY <1>1, <2>1, AgesKept, StoresKept DEF Interstitial, ServedWithinTwoWindows
<1>2. ASSUME NEW t \in Tasks, NEW r \in Replicas, Favicon(t, r) PROVE WindowInv'
  <2>1. task'[t].pc = "local" /\ \A u \in Tasks \ {t} : task'[u] = task[u]
    BY <1>2, EmbedAssumption, BeginStep DEF Favicon
  <2>2. QED
    BY <1>2, <2>1, AgesKept, StoresKept DEF Favicon, ServedWithinTwoWindows
<1>3. ASSUME NEW t \in Tasks, LocalGet(t) PROVE WindowInv'
  <2> DEFINE r == task[t].rep
             p == task[t].page
  <2>1. task[t].pc # "idle" /\ task[t] # Idle /\ r \in Replicas /\ p \in Pages
    BY <1>0, <1>3 DEF LocalGet, TaskInv
  <2>2. CASE Fresh(r, p)
    <3>1. /\ local[r][p] \in [meta : Meta, fetched : Nat] /\ UNCHANGED local
          /\ Return(t, local[r][p].meta) /\ now - local[r][p].fetched < CacheTtl
      BY <1>3, <2>1, <2>2, SMTT(60) DEF LocalGet, Fresh, TypeOK
    <3>2. /\ task'[t].pc \in {"idle", "local"} /\ \A u \in Tasks \ {t} : task'[u] = task[u]
          /\ served' \in {local[r][p].meta, None}
      BY <2>1, <3>1, ReturnStep
    <3>3. now - local[r][p].meta.born < 2 * CacheTtl + local[r][p].meta.late
      <4>1. /\ local[r][p].meta.born \in Nat /\ local[r][p].fetched \in Nat
            /\ local[r][p].meta.late \in Nat
        BY <3>1 DEF Meta
      <4>2. local[r][p].fetched < local[r][p].meta.born + local[r][p].meta.late + CacheTtl
        BY <2>1, <2>2 DEF LocalAge, Fresh, Due
      <4>3. \A a, b, c, d, n \in Nat : n - a < c /\ a < b + d + c => n - b < 2 * c + d
        OBVIOUS
      <4>4. now \in Nat /\ CacheTtl \in Nat
        BY <1>0, EmbedAssumption DEF TypeOK
      <4>5. QED
        BY <3>1, <4>1, <4>2, <4>3, <4>4
    <3>4. ServedWithinTwoWindows'
      BY <1>3, <3>2, <3>3 DEF LocalGet, ServedWithinTwoWindows
    <3>5. QED
      BY <1>3, <3>1, <3>2, <3>4, AgesKept, StoresKept DEF LocalGet
  <2>3. CASE ~Fresh(r, p)
    <3>1. /\ Goto(t, IF task[t].pc = "local" THEN "redis" ELSE "redis2")
          /\ local' = [local EXCEPT ![r][p] = None] /\ served' = None
          /\ UNCHANGED <<now, entry, loaded>>
      BY <1>3, <2>3 DEF LocalGet
    <3>2. /\ \A u \in Tasks \ {t} : task'[u] = task[u]
          /\ task'[t].pc \in {"redis", "redis2"}
          /\ task'[t].rep = r /\ task'[t].page = p
      BY <3>1, <2>1, GotoStep DEF Steps
    <3>3. Elapsed(r, p)
      <4>1. CASE local[r][p] = None
        BY <2>1, <4>1 DEF Remembered
      <4>2. CASE local[r][p] # None
        <5>1. local[r][p].fetched \in Nat /\ local[r][p].fetched + CacheTtl <= now
          BY <1>0, <2>1, <2>3, <4>2 DEF Fresh, TypeOK
        <5>2. loaded[r][p] \in Nat \cup {None}
          BY <2>1 DEF TypeOK
        <5>3. loaded[r][p] <= local[r][p].fetched \/ Elapsed(r, p)
          BY <2>1 DEF Remembered
        <5>4. QED
          BY <1>0, <5>1, <5>2, <5>3 DEF Elapsed
      <4>3. QED
        BY <4>1, <4>2
    <3>4. /\ local'[r][p] = None
          /\ \A s \in Replicas, o \in Pages : s # r \/ o # p => local'[s][o] = local[s][o]
      BY <2>1, <3>1 DEF TypeOK
    <3> HIDE DEF r, p
    <3>5. LocalAge' /\ EntryAge'
      BY <3>1, <3>4 DEF LocalAge, EntryAge
    <3>6. Remembered'
      BY <3>1, <3>3, <3>4 DEF Remembered, Elapsed
    <3>7. TaskAge'
      BY <3>1, <3>2 DEF TaskAge
    <3>8. RightToFetch'
      BY <3>1, <3>2, <3>3 DEF RightToFetch, Elapsed
    <3>9. QED
      BY <3>1, <3>5, <3>6, <3>7, <3>8 DEF ServedWithinTwoWindows
  <2>4. QED
    BY <2>2, <2>3
<1>4. ASSUME NEW t \in Tasks, RedisHit(t) PROVE WindowInv'
  <2> DEFINE p == task[t].page
  <2>1. p \in Pages
    BY <1>4, RedisHitStep
  <2>2. entry[p] # None /\ entry[p] \in [meta : Meta, exp : Nat] /\ now < entry[p].exp
    BY <1>4, RedisHitStep
  <2>3. /\ task'[t].pc = "put" /\ \A u \in Tasks \ {t} : task'[u] = task[u]
        /\ task'[t].meta.born = entry[p].meta.born
        /\ task'[t].meta.late = entry[p].meta.late
    BY <1>4, RedisHitStep
  <2>4. entry[p].meta.born <= now /\ now < Due(entry[p].meta)
    <3>1. entry[p].meta.born <= now /\ entry[p].exp <= Due(entry[p].meta)
      BY <2>1, <2>2 DEF EntryAge
    <3>2. QED
      BY <1>0, <2>2, <3>1 DEF Meta, Due
  <2> HIDE DEF p
  <2>5. TaskAge' /\ RightToFetch'
    <3>1. task'[t].meta.born <= now /\ now < Due(task'[t].meta)
      BY <2>3, <2>4 DEF Due
    <3>2. now' = now /\ loaded' = loaded
      BY <1>4 DEF RedisHit
    <3>3. TaskAge'
      BY <2>3, <3>1, <3>2 DEF TaskAge, Due
    <3>4. RightToFetch'
      BY <2>3, <3>2 DEF RightToFetch, Elapsed
    <3>5. QED
      BY <3>3, <3>4
  <2>6. QED
    BY <1>4, <2>5, StoresKept DEF RedisHit, ServedWithinTwoWindows
<1>5. ASSUME NEW t \in Tasks, RedisMiss(t) PROVE WindowInv'
  <2>1. task[t].pc # "idle"
    BY <1>5 DEF RedisMiss
  <2>2. CASE task[t].fetch
    <3>1. /\ \A u \in Tasks \ {t} : task'[u] = task[u]
          /\ task'[t].pc = "wait" /\ served' = None
      BY <1>5, <2>1, <2>2, GotoStep DEF RedisMiss, Steps
    <3>2. QED
      BY <1>5, <3>1, AgesKept, StoresKept DEF RedisMiss, ServedWithinTwoWindows
  <2>3. CASE ~task[t].fetch
    <3>1. /\ task'[t].pc \in {"idle", "local"} /\ \A u \in Tasks \ {t} : task'[u] = task[u]
          /\ served' = None
      BY <1>5, <2>1, <2>3, ReturnStep DEF RedisMiss
    <3>2. QED
      BY <1>5, <3>1, AgesKept, StoresKept DEF RedisMiss, ServedWithinTwoWindows
  <2>4. QED
    BY <2>2, <2>3
<1>6. ASSUME NEW t \in Tasks, Acquire(t) PROVE WindowInv'
  <2>1. task'[t].pc = "local2" /\ \A u \in Tasks \ {t} : task'[u] = task[u]
    BY <1>6, GotoStep DEF Acquire, Steps
  <2>2. QED
    BY <1>6, <2>1, AgesKept, StoresKept DEF Acquire, ServedWithinTwoWindows
<1>7. ASSUME NEW t \in Tasks, StartFetch(t) PROVE WindowInv'
  <2>1. task'[t].pc = "fetch" /\ \A u \in Tasks \ {t} : task'[u] = task[u]
    BY <1>7, GotoStep DEF StartFetch, Steps
  <2>2. QED
    BY <1>7, <2>1, AgesKept, StoresKept DEF StartFetch, ServedWithinTwoWindows
<1>8. ASSUME NEW t \in Tasks, PutAndReturn(t) PROVE WindowInv'
  <2>1. /\ task[t].pc # "idle" /\ task[t] # Idle /\ task[t].meta \in Meta
        /\ task[t].page \in Pages /\ task[t].rep \in Replicas
    BY <1>0, <1>8 DEF PutAndReturn, TaskInv
  <2>2. /\ task'[t].pc \in {"idle", "local"} /\ \A u \in Tasks \ {t} : task'[u] = task[u]
        /\ served' \in {task[t].meta, None}
    BY <1>8, <2>1, ReturnStep DEF PutAndReturn
  <2>3. /\ task[t].meta.born <= now /\ now < Due(task[t].meta)
        /\ task[t].meta.born \in Nat /\ task[t].meta.late \in Nat
    BY <1>8, <2>1 DEF PutAndReturn, TaskAge, Meta
  <2>4. LocalAge' /\ Remembered'
    BY <1>8, <2>1, <2>3, PutKept DEF PutAndReturn
  <2>5. ServedWithinTwoWindows'
    <3>1. now - task[t].meta.born < 2 * CacheTtl + task[t].meta.late
      BY <1>0, <2>3 DEF Due
    <3>2. QED
      BY <1>8, <2>2, <3>1 DEF PutAndReturn, ServedWithinTwoWindows
  <2>6. QED
    BY <1>8, <2>2, <2>4, <2>5, AgesKept DEF PutAndReturn, EntryAge
<1>9. ASSUME NEW t \in Tasks, HeadRead(t) \/ IconFetched(t) PROVE WindowInv'
  <2>1. /\ \A u \in Tasks \ {t} : task'[u] = task[u]
        /\ task'[t].pc \in {"icon", "keep"}
        /\ task'[t].meta.born + task'[t].meta.late = now
    <3>1. CASE HeadRead(t)
      BY <1>0, <3>1, HeadReadStep
    <3>2. CASE IconFetched(t)
      <4>1. task[t].meta.born + task[t].meta.late = now
        BY <3>2 DEF IconFetched, TaskAge
      <4>2. QED
        BY <3>2, <4>1, IconFetchedStep
    <3>3. QED
      BY <1>9, <3>1, <3>2
  <2>2. served' = None /\ UNCHANGED <<now, local, entry, loaded>>
    BY <1>9 DEF HeadRead, IconFetched
  <2>3. TaskAge'
    BY <2>1, <2>2 DEF TaskAge, Due
  <2>4. RightToFetch'
    BY <2>1, <2>2 DEF RightToFetch, Elapsed
  <2>5. QED
    BY <2>2, <2>3, <2>4, StoresKept DEF ServedWithinTwoWindows
<1>10. ASSUME NEW t \in Tasks, FetchFails(t) PROVE WindowInv'
  <2>1. /\ task'[t].pc \in {"idle", "local"} /\ \A u \in Tasks \ {t} : task'[u] = task[u]
        /\ served' = None
    BY <1>10, ReturnStep DEF FetchFails
  <2>2. QED
    BY <1>10, <2>1, AgesKept, StoresKept DEF FetchFails, ServedWithinTwoWindows
<1>11. ASSUME NEW t \in Tasks, KeepLocal(t) PROVE WindowInv'
  <2> DEFINE r == task[t].rep
             p == task[t].page
  <2>1. /\ task[t].pc # "idle" /\ task[t].meta \in Meta /\ p \in Pages /\ r \in Replicas
    BY <1>0, <1>11 DEF KeepLocal, TaskInv
  <2>2. /\ \A u \in Tasks \ {t} : task'[u] = task[u]
        /\ task'[t].pc = "set" /\ task'[t].meta = task[t].meta
    BY <1>11, GotoStep DEF KeepLocal, Steps
  <2>3. /\ task[t].meta.born + task[t].meta.late = now
        /\ task[t].meta.born \in Nat /\ task[t].meta.late \in Nat
    BY <1>11, <2>1 DEF KeepLocal, TaskAge, Meta
  <2>4. LocalAge' /\ Remembered'
    <3>1. task[t].meta.born <= now /\ now < Due(task[t].meta)
      BY <1>0, <2>3 DEF Due
    <3>2. /\ PutLocal(r, p, task[t].meta) /\ UNCHANGED now
          /\ loaded' = [loaded EXCEPT ![r][p] = now]
      BY <1>11 DEF KeepLocal
    <3> HIDE DEF r, p
    <3>3. QED
      BY <2>1, <3>1, <3>2, PutKept
  <2>5. TaskAge'
    BY <1>11, <2>2, <2>3 DEF KeepLocal, TaskAge, Due
  <2>6. \A s \in Replicas, o \in Pages : s # r \/ o # p => loaded'[s][o] = loaded[s][o]
    BY <1>11, <2>1 DEF KeepLocal, TypeOK
  <2>7. ASSUME NEW u \in Tasks, task'[u].pc = "redis2"
        PROVE  Elapsed(task[u].rep, task[u].page)' /\ task'[u] = task[u]
    <3>1. u # t /\ task'[u] = task[u] /\ task[u].pc = "redis2"
      BY <2>2, <2>7
    <3>2. task[u].rep # r \/ task[u].page # p
      BY <1>11, <3>1, OneHolder DEF KeepLocal, Locked
    <3>3. task[u].rep \in Replicas /\ task[u].page \in Pages
      BY <1>0, <3>1 DEF TaskInv
    <3>4. Elapsed(task[u].rep, task[u].page)
      BY <3>1 DEF RightToFetch
    <3> HIDE DEF r, p
    <3>5. loaded'[task[u].rep][task[u].page] = loaded[task[u].rep][task[u].page] /\ now' = now
      BY <1>11, <2>6, <3>2, <3>3 DEF KeepLocal
    <3>6. QED
      BY <3>1, <3>4, <3>5 DEF Elapsed
  <2>8. RightToFetch'
    BY <2>7 DEF RightToFetch, Elapsed
  <2>9. QED
    BY <1>11, <2>4, <2>5, <2>8 DEF KeepLocal, EntryAge, ServedWithinTwoWindows
<1>12. ASSUME NEW t \in Tasks, RedisSet(t) PROVE WindowInv'
  <2>1. /\ task[t].pc # "idle" /\ task[t] # Idle /\ task[t].meta \in Meta
        /\ task[t].page \in Pages
    BY <1>0, <1>12 DEF RedisSet, TaskInv
  <2>2. /\ task'[t].pc \in {"idle", "local"} /\ \A u \in Tasks \ {t} : task'[u] = task[u]
        /\ served' \in {task[t].meta, None}
    BY <1>12, <2>1, ReturnStep DEF RedisSet
  <2>3. /\ task[t].meta.born + task[t].meta.late = now
        /\ task[t].meta.born \in Nat /\ task[t].meta.late \in Nat
    BY <1>12, <2>1 DEF RedisSet, TaskAge, Meta
  <2>4. EntryAge'
    <3>1. CASE UNCHANGED entry
      BY <1>12, <3>1 DEF RedisSet, EntryAge
    <3>2. CASE entry' = [entry EXCEPT ![task[t].page] =
                            [meta |-> task[t].meta, exp |-> now + CacheTtl]]
      <4>1. /\ entry'[task[t].page] = [meta |-> task[t].meta, exp |-> now + CacheTtl]
            /\ \A o \in Pages \ {task[t].page} : entry'[o] = entry[o]
        BY <2>1, <3>2 DEF TypeOK
      <4>2. QED
        BY <1>0, <1>12, <2>3, <4>1 DEF RedisSet, EntryAge, Due
    <3>3. QED
      BY <1>12, <3>1, <3>2 DEF RedisSet
  <2>5. ServedWithinTwoWindows'
    <3>1. now - task[t].meta.born < 2 * CacheTtl + task[t].meta.late
      BY <1>0, <2>3
    <3>2. QED
      BY <1>12, <2>2, <3>1 DEF RedisSet, ServedWithinTwoWindows
  <2>6. LocalAge' /\ Remembered'
    BY <1>12 DEF RedisSet, LocalAge, Remembered, Elapsed
  <2>7. QED
    BY <1>12, <2>2, <2>4, <2>5, <2>6, AgesKept DEF RedisSet
<1>13. ASSUME NEW t \in Tasks, HangUp(t) PROVE WindowInv'
  <2>1. task'[t].pc = "idle" /\ \A u \in Tasks \ {t} : task'[u] = task[u]
    BY <1>13, IdleType DEF HangUp, TypeOK
  <2>2. QED
    BY <1>13, <2>1, AgesKept, StoresKept DEF HangUp, ServedWithinTwoWindows
<1>14. ASSUME NEW r \in Replicas, Crash(r) PROVE WindowInv'
  <2>1. /\ \A p \in Pages : local'[r][p] = None /\ loaded'[r][p] = None
        /\ \A s \in Replicas \ {r}, p \in Pages :
              local'[s][p] = local[s][p] /\ loaded'[s][p] = loaded[s][p]
    BY <1>14 DEF Crash, TypeOK
  <2>2. LocalAge' /\ EntryAge'
    BY <1>14, <2>1 DEF Crash, LocalAge, EntryAge
  <2>3. Remembered'
    BY <1>14, <2>1 DEF Crash, Remembered, Elapsed
  <2>4. \A u \in Tasks : task'[u].pc = "idle" \/ (task[u].rep # r /\ task'[u] = task[u])
    BY <1>14, IdleType DEF Crash
  <2>5. TaskAge'
    BY <1>14, <2>4 DEF Crash, TaskAge
  <2>6. RightToFetch'
    BY <1>0, <1>14, <2>1, <2>4 DEF Crash, RightToFetch, Elapsed, TaskInv
  <2>7. QED
    BY <1>14, <2>2, <2>3, <2>5, <2>6 DEF Crash, ServedWithinTwoWindows
<1>15. CASE Tick
  <2>1. now' = now + 1 /\ served' = None /\ UNCHANGED <<local, entry, queue, loaded>>
    BY <1>15 DEF Tick
  <2>2. \A t \in Tasks : /\ task'[t].pc = task[t].pc /\ task'[t].rep = task[t].rep
                          /\ task'[t].page = task[t].page
                          /\ task'[t].meta = Older(task[t].meta)
    BY <1>15, TickStep
  <2>3. \A r \in Replicas, p \in Pages : Elapsed(r, p) => Elapsed(r, p)'
    BY <1>0, <2>1 DEF Elapsed, TypeOK
  <2>4. LocalAge'
    BY <1>0, <2>1 DEF LocalAge, TypeOK, Due
  <2>5. EntryAge'
    BY <1>0, <2>1 DEF EntryAge, TypeOK, Meta, Due
  <2>6. TaskAge'
    <3>1. ASSUME NEW t \in Tasks, task[t].pc \in {"put", "icon", "keep", "set"}
          PROVE  /\ task[t].meta.born \in Nat /\ task[t].meta.late \in Nat
                 /\ task'[t].meta.born = task[t].meta.born
                 /\ task'[t].meta.late = task[t].meta.late + 1
      BY <2>2, <3>1, MetaTypes DEF TaskInv, Meta
    <3>2. ASSUME NEW t \in Tasks, task[t].pc = "put"
          PROVE  task'[t].meta.born <= now' /\ now' < Due(task'[t].meta)
      <4>1. task[t].meta.born <= now /\ now < task[t].meta.born + task[t].meta.late + CacheTtl
        BY <3>2 DEF TaskAge, Due
      <4>2. QED
        BY <1>0, <2>1, <3>1, <3>2, <4>1 DEF Due
    <3>3. ASSUME NEW t \in Tasks, task[t].pc \in {"icon", "keep", "set"}
          PROVE  task'[t].meta.born + task'[t].meta.late = now'
      <4>1. task[t].meta.born + task[t].meta.late = now
        BY <3>3 DEF TaskAge
      <4>2. QED
        BY <1>0, <2>1, <3>1, <3>3, <4>1
    <3>4. QED
      BY <2>2, <3>2, <3>3 DEF TaskAge, Due
  <2>7. Remembered'
    BY <2>1, <2>3 DEF Remembered
  <2>8. RightToFetch'
    BY <1>0, <2>1, <2>2, <2>3 DEF RightToFetch, TaskInv, Elapsed
  <2>9. QED
    BY <2>1, <2>4, <2>5, <2>6, <2>7, <2>8 DEF ServedWithinTwoWindows
<1>16. CASE UNCHANGED vars
  BY <1>16 DEF vars, LocalAge, EntryAge, TaskAge, Remembered, RightToFetch, Elapsed,
               ServedWithinTwoWindows
<1>17. QED
  BY <1>1, <1>2, <1>3, <1>4, <1>5, <1>6, <1>7, <1>8, <1>9, <1>10, <1>11, <1>12, <1>13,
     <1>14, <1>15, <1>16 DEF Next, Load


-----------------------------------------------------------------------------
LEMMA EmbedInit == Init => EmbedInv
<1> SUFFICES ASSUME Init PROVE EmbedInv
  OBVIOUS
<1>1. TypeOK
  BY EmbedAssumption, IdleType DEF Init, TypeOK, Task
<1>2. \A t \in Tasks : task[t] = Idle /\ task[t].pc = "idle"
  BY IdleType DEF Init
<1>3. TaskInv /\ LockInv /\ TaskAge /\ RightToFetch
  BY <1>2 DEF TaskInv, LockInv, Locked, TaskAge, RightToFetch
<1>4. LocalAge /\ EntryAge /\ Remembered /\ ServedWithinTwoWindows
  BY DEF Init, LocalAge, EntryAge, Remembered, Elapsed, ServedWithinTwoWindows
<1>5. QED
  BY <1>1, <1>3, <1>4 DEF EmbedInv, WindowInv

LEMMA EmbedStep == EmbedInv /\ [Next]_vars => EmbedInv'
BY TypeStep, LockStep, WindowStep DEF EmbedInv

LEMMA EmbedInvariant == Spec => []EmbedInv
BY EmbedInit, EmbedStep, PTL DEF Spec

(* load, favicon and their helpers keep every variable in its type: above    *)
(* all, a copy that is stored or on its way into a store is metadata.        *)
THEOREM EmbedTypeCorrect == Spec => []TypeOK
<1>1. EmbedInv => TypeOK
  BY DEF EmbedInv
<1>2. QED
  BY <1>1, EmbedInvariant, PTL

(* Requests that fetch one page in one process are the same request,         *)
(* because both are at the front of that page's queue.                       *)
THEOREM EmbedSingleFlight == Spec => []SingleFlight
<1>1. LockInv => SingleFlight
  BY OneHolder DEF SingleFlight, Locked
<1>2. QED
  BY <1>1, EmbedInvariant, PTL DEF EmbedInv

(* No metadata is served two windows after the origin gave it, the time on   *)
(* its way into the stores apart.                                            *)
THEOREM EmbedServedWithinTwoWindows == Spec => []ServedWithinTwoWindows
<1>1. EmbedInv => ServedWithinTwoWindows
  BY DEF EmbedInv, WindowInv
<1>2. QED
  BY <1>1, EmbedInvariant, PTL

(* A fetch begins with StartFetch alone, and who is about to take it found   *)
(* no copy while holding the lock, so no fetch ended within the window.      *)
LEMMA FetchBegins ==
    ASSUME TypeOK, TaskInv, NEW t \in Tasks, [Next]_vars,
           task[t].pc # "fetch", task'[t].pc = "fetch"
    PROVE  task[t].pc = "redis2"
<1>0. task \in [Tasks -> Task] /\ \A u \in Tasks : task[u] \in Task
  BY DEF TypeOK, Task
<1>1. ASSUME NEW u \in Tasks, NEW pc, pc # "fetch", Goto(u, pc) PROVE FALSE
  BY <1>0, <1>1 DEF Goto, Task
<1>2. ASSUME NEW u \in Tasks, NEW pc, pc # "fetch", NEW meta,
             task' = [task EXCEPT ![u].pc = pc, ![u].meta = meta]
      PROVE  FALSE
  BY <1>0, <1>2 DEF Task
<1>3. ASSUME NEW u \in Tasks, NEW meta, Return(u, meta) PROVE FALSE
  <2>1. CASE task' = [task EXCEPT ![u] = Idle]
    BY <1>0, <2>1, IdleType
  <2>2. CASE task' = [task EXCEPT ![u].pc = "local", ![u].page = Root, ![u].meta = None]
    BY <1>0, <2>2 DEF Task
  <2>3. QED
    BY <1>3, <2>1, <2>2 DEF Return
<1>4. ASSUME NEW u \in Tasks, NEW r \in Replicas, NEW p \in Visited, Interstitial(u, r, p)
      PROVE  FALSE
  BY <1>0, <1>4 DEF Interstitial
<1>5. ASSUME NEW u \in Tasks, NEW r \in Replicas, Favicon(u, r) PROVE FALSE
  BY <1>0, <1>5 DEF Favicon
<1>6. ASSUME NEW u \in Tasks, Load(u), ~StartFetch(u) PROVE FALSE
  <2>1. CASE LocalGet(u)
    BY <1>1, <1>3, <2>1 DEF LocalGet
  <2>2. CASE RedisHit(u)
    BY <1>2, <2>2 DEF RedisHit
  <2>3. CASE RedisMiss(u)
    BY <1>1, <1>3, <2>3 DEF RedisMiss
  <2>4. CASE Acquire(u)
    BY <1>1, <2>4 DEF Acquire
  <2>5. CASE PutAndReturn(u) \/ FetchFails(u) \/ RedisSet(u)
    BY <1>3, <2>5 DEF PutAndReturn, FetchFails, RedisSet
  <2>6. CASE HeadRead(u) \/ IconFetched(u)
    BY <1>2, <2>6 DEF HeadRead, IconFetched
  <2>7. CASE KeepLocal(u)
    BY <1>1, <2>7 DEF KeepLocal
  <2>8. QED
    BY <1>6, <2>1, <2>2, <2>3, <2>4, <2>5, <2>6, <2>7 DEF Load
<1>7. ASSUME NEW u \in Tasks, StartFetch(u) PROVE task[t].pc = "redis2"
  BY <1>0, <1>7 DEF StartFetch, Goto, Task
<1>8. ASSUME NEW u \in Tasks, HangUp(u) PROVE FALSE
  BY <1>0, <1>8, IdleType DEF HangUp
<1>9. ASSUME NEW r \in Replicas, Crash(r) PROVE FALSE
  BY <1>9, IdleType DEF Crash
<1>10. ASSUME Tick \/ UNCHANGED vars PROVE FALSE
  BY <1>10, TickStep DEF vars
<1>11. QED
  BY <1>4, <1>5, <1>6, <1>7, <1>8, <1>9, <1>10 DEF Next

(* The window protects the origin.                                           *)
THEOREM EmbedFetchOncePerWindow == Spec => FetchOncePerWindow
<1> DEFINE A == \A t \in Tasks : task[t].pc # "fetch" /\ task'[t].pc = "fetch" =>
                   LET last == loaded[task[t].rep][task[t].page] IN
                   last = None \/ now >= last + CacheTtl
<1>1. EmbedInv /\ [Next]_vars => A
  BY FetchBegins DEF EmbedInv, WindowInv, RightToFetch, Elapsed
<1>2. EmbedInv /\ [Next]_vars => [A]_vars
  BY <1>1
<1>3. QED
  BY <1>2, EmbedInvariant, PTL DEF FetchOncePerWindow, Spec

=============================================================================
