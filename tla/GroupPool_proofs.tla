-------------------------- MODULE GroupPool_proofs --------------------------
(***************************************************************************)
(* What the pool of group coroutines promises, for every set of loops,     *)
(* groups and units of work, every number of permits and however waits,    *)
(* wake-ups, cancellations and idle timeouts interleave.                   *)
(*                                                                         *)
(* SemaphoreInv says who waits, PoolInv what a coroutine is in each of its *)
(* states, PermitPerGroup and NoIdlePermit follow a permit from the        *)
(* semaphore to a woken loop and to the group it starts.                   *)
(***************************************************************************)
EXTENDS GroupPool, FiniteSetTheorems, SequenceTheorems, TLAPS

USE PoolAssumption DEF PoolAssumption

Once(q) == \A i, j \in DOMAIN q : q[i] = q[j] => i = j

(* A loop waits once, with work; only a loop that waits was handed a       *)
(* permit; the loops have stopped when the service is closed.              *)
SemaphoreInv ==
    /\ Once(waiters)
    /\ woken \subseteq Waiting
    /\ \A l \in Loop : asking[l] # None <=> l \in Waiting
    /\ closed => waiters = <<>>

(* A coroutine that ended left nothing, one that runs work has it.         *)
PoolInv ==
    /\ \A c \in Coroutine :
         /\ c \in Live <=> serves[c] # None
         /\ c \notin Live => queue[c] = <<>>
         /\ job[c] # None <=> state[c] = "working"
    /\ \A g \in Group : pool[g] # None => pool[g] \in Live /\ serves[pool[g]] = g
    /\ \A c \in Live : pool[serves[c]] = c

PermitsCounted ==
    ~closed => permits + Cardinality(Live) + Cardinality(woken) = MAX_CONCURRENT

Inv == TypeOK /\ SemaphoreInv /\ PoolInv /\ PermitsCounted /\ NoIdlePermit
-----------------------------------------------------------------------------
(* What is known of the finite sets and of sequences.                      *)
LEMMA FiniteLoopsAndCoroutines ==
    ASSUME TypeOK
    PROVE  /\ IsFiniteSet(Live) /\ Cardinality(Live) \in Nat
           /\ IsFiniteSet(woken) /\ Cardinality(woken) \in Nat
<1>1. IsFiniteSet(Live) /\ IsFiniteSet(woken)
  BY FS_Subset DEF Live, TypeOK
<1> QED  BY <1>1, FS_CardinalityType

(* What a waiter that leaves the queue makes of it.                        *)
LEMMA Removal ==
    ASSUME NEW S, NEW q \in Seq(S), NEW i \in DOMAIN q, Once(q)
    PROVE  /\ RemoveAt(q, i) \in Seq(S) /\ Once(RemoveAt(q, i))
           /\ ToSet(RemoveAt(q, i)) = ToSet(q) \ {q[i]}
<1> DEFINE r == RemoveAt(q, i)
<1>1. /\ DOMAIN q = 1..Len(q) /\ Len(q) \in Nat /\ i \in 1..Len(q)
      /\ \A j \in 1..Len(q) : q[j] \in S
  OBVIOUS
<1>2. /\ r \in Seq(S) /\ Len(r) = Len(q) - 1 /\ DOMAIN r = 1..(Len(q) - 1)
      /\ \A j \in 1..(Len(q) - 1) : r[j] = IF j < i THEN q[j] ELSE q[j + 1]
  <2> DEFINE before == SubSeq(q, 1, i - 1)
             after == SubSeq(q, i + 1, Len(q))
  <2>1. /\ before \in Seq(S) /\ Len(before) = i - 1
        /\ \A j \in 1..(i - 1) : before[j] = q[j]
    BY <1>1
  <2>2. /\ after \in Seq(S) /\ Len(after) = Len(q) - i
        /\ \A j \in 1..(Len(q) - i) : after[j] = q[j + i]
    BY <1>1
  <2>3. r = before \o after
    BY DEF RemoveAt
  <2> HIDE DEF before, after, r
  <2>4. r \in Seq(S) /\ Len(r) = Len(q) - 1 /\ DOMAIN r = 1..(Len(q) - 1)
    <3>1. r \in Seq(S) /\ Len(r) = Len(before) + Len(after)
      BY <2>1, <2>2, <2>3, ConcatProperties, Zenon
    <3>2. Len(r) = Len(q) - 1
      BY <1>1, <2>1, <2>2, <3>1
    <3> QED  BY <3>1, <3>2
  <2>5. ASSUME NEW j \in 1..(Len(q) - 1) PROVE r[j] = IF j < i THEN q[j] ELSE q[j + 1]
    <3>1. \A k \in 1..(Len(before) + Len(after)) :
            r[k] = IF k <= Len(before) THEN before[k] ELSE after[k - Len(before)]
      <4>1. \A k \in 1..(Len(before) + Len(after)) :
              (before \o after)[k] = IF k <= Len(before) THEN before[k] ELSE after[k - Len(before)]
        BY <2>1, <2>2, ConcatProperties, SMT
      <4> QED  BY <2>3, <4>1, Zenon
    <3>2. r[j] = IF j < i THEN before[j] ELSE after[j - (i - 1)]
      <4>1. j \in 1..(Len(before) + Len(after)) /\ (j <= i - 1 <=> j < i)
        BY <1>1, <2>1, <2>2
      <4>2. r[j] = IF j <= Len(before) THEN before[j] ELSE after[j - Len(before)]
        BY <3>1, <4>1, Zenon
      <4>3. Len(before) = i - 1
        BY <2>1
      <4> QED  BY <4>1, <4>2, <4>3, Zenon
    <3>3. ~(j < i) => after[j - (i - 1)] = q[j + 1]
      <4> SUFFICES ASSUME ~(j < i) PROVE after[j - (i - 1)] = q[j + 1]
        OBVIOUS
      <4>1. j - (i - 1) \in 1..(Len(q) - i) /\ (j - (i - 1)) + i = j + 1
        BY <1>1
      <4> QED  BY <2>2, <4>1
    <3> QED  BY <1>1, <2>1, <3>2, <3>3
  <2> QED  BY <2>4, <2>5
<1> HIDE DEF r
<1>3. Once(r)
  BY <1>1, <1>2 DEF Once
<1>4. \A j \in DOMAIN r : r[j] \in ToSet(q) \ {q[i]}
  BY <1>1, <1>2 DEF Once, ToSet
<1>5. \A x \in ToSet(q) \ {q[i]} : x \in ToSet(r)
  <2> SUFFICES ASSUME NEW j \in DOMAIN q, j # i PROVE q[j] \in ToSet(r)
    BY DEF ToSet
  <2>1. CASE j < i
    <3>1. j \in DOMAIN r /\ r[j] = q[j]
      BY <1>1, <1>2, <2>1
    <3> QED  BY <3>1 DEF ToSet
  <2>2. CASE j > i
    <3>1. j - 1 \in DOMAIN r /\ r[j - 1] = q[j]
      BY <1>1, <1>2, <2>2
    <3> QED  BY <3>1 DEF ToSet
  <2> QED  BY <1>1, <2>1, <2>2
<1>6. ToSet(r) = ToSet(q) \ {q[i]}
  BY <1>4, <1>5 DEF ToSet
<1> QED  BY <1>2, <1>3, <1>6 DEF r

(* Permits handed out are neither lost nor made up, and one stays free     *)
(* beside a waiter only while another waiter has one.                      *)
LEMMA HandedOut ==
    ASSUME NEW queued \in Seq(Loop), NEW served, NEW free \in Nat,
           served \subseteq ToSet(queued), HandOut(queued, served, free)
    PROVE  /\ woken' \subseteq ToSet(queued) /\ permits' \in Nat
           /\ permits' + Cardinality(woken') = free + Cardinality(served)
           /\ permits' > 0 /\ queued # <<>> => woken' # {}
<1>1. PICK next \in SUBSET (ToSet(queued) \ served) :
        /\ Cardinality(next) <= free
        /\ Cardinality(next) < free => ToSet(queued) \subseteq served \union next
        /\ woken' = served \union next
        /\ permits' = free - Cardinality(next)
  BY DEF HandOut
<1>2. ToSet(queued) \subseteq Loop
  BY DEF ToSet
<1>3. /\ IsFiniteSet(next) /\ Cardinality(next) \in Nat
      /\ IsFiniteSet(served) /\ Cardinality(served) \in Nat
  BY <1>2, FS_Subset, FS_CardinalityType
<1>4. Cardinality(served \union next)
        = Cardinality(served) + Cardinality(next) - Cardinality(served \intersect next)
  BY <1>3, FS_Union
<1>5. Cardinality(served \union next) = Cardinality(served) + Cardinality(next)
  <2>1. served \intersect next = {}
    OBVIOUS
  <2>2. Cardinality(served \intersect next) = 0
    BY <2>1, FS_EmptySet, Zenon
  <2> QED  BY <1>3, <1>4, <2>2
<1>6. permits' > 0 /\ queued # <<>> => woken' # {}
  <2> SUFFICES ASSUME permits' > 0, queued # <<>> PROVE woken' # {}
    OBVIOUS
  <2>1. 1 \in DOMAIN queued
    OBVIOUS
  <2>2. queued[1] \in ToSet(queued)
    BY <2>1 DEF ToSet
  <2> QED  BY <1>1, <1>3, <2>2
<1> QED  BY <1>1, <1>3, <1>5, <1>6
-----------------------------------------------------------------------------
(* The types the proofs reckon with, and what the permits come to.         *)
LEMMA Typed ==
    ASSUME Inv
    PROVE  /\ permits \in Nat /\ stops \in Nat /\ waiters \in Seq(Loop)
           /\ woken \subseteq Loop /\ Waiting \subseteq Loop
           /\ Cardinality(Live) \in Nat /\ Cardinality(woken) \in Nat
           /\ ~closed => permits + Cardinality(Live) + Cardinality(woken) = MAX_CONCURRENT
<1>1. /\ permits \in Nat /\ stops \in Nat /\ waiters \in Seq(Loop)
      /\ woken \subseteq Loop /\ TypeOK
  BY DEF Inv, TypeOK
<1>2. Waiting \subseteq Loop
  BY <1>1 DEF Waiting, ToSet
<1>3. ~closed => permits + Cardinality(Live) + Cardinality(woken) = MAX_CONCURRENT
  BY Zenon DEF Inv, PermitsCounted
<1> QED  BY <1>1, <1>2, <1>3, FiniteLoopsAndCoroutines

LEMMA InitInv == Init => Inv
<1> SUFFICES ASSUME Init PROVE Inv
  OBVIOUS
<1>1. TypeOK
  <2>1. waiters \in Seq(Loop) /\ queue \in [Coroutine -> Seq(Work)]
    BY EmptySeq DEF Init
  <2> QED  BY <2>1 DEF Init, TypeOK
<1>2. Waiting = {} /\ Live = {}
  BY DEF Init, Waiting, ToSet, Live
<1>3. SemaphoreInv
  BY <1>2 DEF Init, SemaphoreInv, Once
<1>4. PoolInv
  BY <1>2 DEF Init, PoolInv
<1>5. Cardinality(Live) = 0 /\ Cardinality(woken) = 0
  BY <1>2, FS_EmptySet DEF Init
<1>6. PermitsCounted /\ NoIdlePermit
  BY <1>5 DEF Init, PermitsCounted, NoIdlePermit
<1> QED  BY <1>1, <1>3, <1>4, <1>6 DEF Inv

(* A started coroutine is the only one of its group.                       *)
LEMMA Started ==
    ASSUME Inv, NEW g \in Group, NEW w \in Work, pool[g] = None, Start(g, w)
    PROVE  /\ pool' \in [Group -> Coroutine \union {None}]
           /\ state' \in [Coroutine -> {"none", "waiting", "timed out", "working"}]
           /\ serves' \in [Coroutine -> Group \union {None}]
           /\ queue' \in [Coroutine -> Seq(Work)]
           /\ job' = job
           /\ PoolInv'
           /\ Cardinality(Live') = Cardinality(Live) + 1
<1>1. PICK c \in Coroutine \ Live :
        /\ pool' = [pool EXCEPT ![g] = c]
        /\ state' = [state EXCEPT ![c] = "waiting"]
        /\ serves' = [serves EXCEPT ![c] = g]
        /\ queue' = [queue EXCEPT ![c] = <<w>>]
        /\ job' = job
  BY DEF Start
<1>2. /\ pool \in [Group -> Coroutine \union {None}]
      /\ state \in [Coroutine -> {"none", "waiting", "timed out", "working"}]
      /\ serves \in [Coroutine -> Group \union {None}]
      /\ queue \in [Coroutine -> Seq(Work)]
      /\ TypeOK /\ PoolInv
  BY DEF Inv, TypeOK
<1>3. Live' = Live \union {c} /\ c \notin Live /\ c \in Coroutine /\ Live \subseteq Coroutine
  <2>1. c \notin Live /\ c \in Coroutine /\ Live \subseteq Coroutine
    BY DEF Live
  <2>2. \A d \in Coroutine : state'[d] = IF d = c THEN "waiting" ELSE state[d]
    BY <1>1, <1>2
  <2>3. Live' = Live \union {c}
    BY <2>1, <2>2 DEF Live
  <2> QED  BY <2>1, <2>3
<1>4. Cardinality(Live') = Cardinality(Live) + 1
  BY <1>2, <1>3, FiniteLoopsAndCoroutines, FS_AddElement
<1>5. /\ pool' \in [Group -> Coroutine \union {None}]
      /\ state' \in [Coroutine -> {"none", "waiting", "timed out", "working"}]
      /\ serves' \in [Coroutine -> Group \union {None}]
      /\ queue' \in [Coroutine -> Seq(Work)]
  <2>1. <<w>> \in Seq(Work)
    OBVIOUS
  <2>2. queue' \in [Coroutine -> Seq(Work)]
    BY <1>1, <1>2, <1>3, <2>1
  <2>3. /\ pool' \in [Group -> Coroutine \union {None}]
        /\ state' \in [Coroutine -> {"none", "waiting", "timed out", "working"}]
        /\ serves' \in [Coroutine -> Group \union {None}]
    BY <1>1, <1>2, <1>3
  <2> QED  BY <2>2, <2>3
<1>6. PoolInv'
  <2>0. /\ pool'[g] = c /\ state'[c] = "waiting" /\ serves'[c] = g
        /\ \A h \in Group : h # g => pool'[h] = pool[h]
        /\ \A d \in Coroutine : d # c => /\ state'[d] = state[d] /\ serves'[d] = serves[d]
                                         /\ queue'[d] = queue[d]
        /\ job[c] = None
    <3>1. job[c] = None
      BY <1>2, <1>3 DEF PoolInv, Live
    <3> QED  BY <1>1, <1>2, <1>3, <3>1
  <2>1. ASSUME NEW d \in Coroutine
        PROVE  /\ d \in Live' <=> serves'[d] # None
               /\ d \notin Live' => queue'[d] = <<>>
               /\ job'[d] # None <=> state'[d] = "working"
    <3>1. CASE d = c
      BY <1>1, <1>3, <2>0, <3>1
    <3>2. CASE d # c
      BY <1>1, <1>2, <1>3, <2>0, <3>2 DEF PoolInv
    <3> QED  BY <3>1, <3>2
  <2>2. ASSUME NEW h \in Group, pool'[h] # None PROVE pool'[h] \in Live' /\ serves'[pool'[h]] = h
    <3>1. CASE h = g
      BY <1>3, <2>0, <3>1
    <3>2. CASE h # g
      <4>1. pool'[h] = pool[h] /\ pool[h] \in Live /\ serves[pool[h]] = h
        BY <1>2, <2>0, <2>2, <3>2 DEF PoolInv
      <4> QED  BY <1>3, <2>0, <4>1
    <3> QED  BY <3>1, <3>2
  <2>3. ASSUME NEW d \in Live' PROVE pool'[serves'[d]] = d
    <3>1. CASE d = c
      BY <2>0, <3>1
    <3>2. CASE d # c
      <4>1. d \in Live /\ d \in Coroutine /\ pool[serves[d]] = d /\ serves[d] # None
        BY <1>2, <1>3, <2>3, <3>2 DEF PoolInv
      <4>2. serves[d] # g /\ serves[d] \in Group
        BY <1>2, <4>1
      <4> QED  BY <2>0, <3>2, <4>1, <4>2
    <3> QED  BY <3>1, <3>2
  <2> QED  BY <2>1, <2>2, <2>3 DEF PoolInv
<1> QED  BY <1>1, <1>4, <1>5, <1>6

(* A loop that has its permit leaves the semaphore.                        *)
LEMMA Resumed ==
    ASSUME Inv, NEW l \in Loop, Resume(l)
    PROVE  /\ waiters' \in Seq(Loop) /\ Once(waiters') /\ Waiting' = Waiting \ {l}
           /\ asking' = [asking EXCEPT ![l] = None]
           /\ asking[l] \in Work /\ l \in Waiting /\ l \in woken
           /\ \A k \in Loop : asking'[k] # None <=> k \in Waiting'
           /\ ~closed
<1>1. TypeOK /\ SemaphoreInv /\ l \in woken /\ l \in Waiting
  BY DEF Inv, Resume, SemaphoreInv
<1>2. PICK i \in DOMAIN waiters : waiters[i] = l /\ waiters' = RemoveAt(waiters, i)
  BY DEF Resume
<1>3. /\ waiters' \in Seq(Loop) /\ Once(waiters')
      /\ ToSet(waiters') = ToSet(waiters) \ {l}
  BY <1>1, <1>2, Removal DEF TypeOK, SemaphoreInv
<1>4. Waiting' = Waiting \ {l}
  BY <1>3 DEF Waiting
<1>5. asking' = [asking EXCEPT ![l] = None]
  BY DEF Resume
<1>6. asking[l] \in Work /\ ~closed
  <2>1. waiters = <<>> => Waiting = {}
    BY DEF Waiting, ToSet
  <2> QED  BY <1>1, <2>1 DEF TypeOK, SemaphoreInv
<1>7. \A k \in Loop : asking'[k] # None <=> k \in Waiting'
  BY <1>1, <1>4, <1>5 DEF TypeOK, SemaphoreInv
<1> QED  BY <1>1, <1>3, <1>4, <1>5, <1>6, <1>7

(* What a loop that leaves the semaphore passes on.                        *)
LEMMA PassedOn ==
    ASSUME Inv, NEW l \in Loop, Resume(l), NEW free \in Nat,
           HandOut(waiters', woken \ {l}, free)
    PROVE  /\ woken' \subseteq Waiting' /\ woken' \subseteq Loop /\ permits' \in Nat
           /\ permits' + Cardinality(woken') = free + Cardinality(woken) - 1
           /\ NoIdlePermit'
<1>1. PICK queued : queued = waiters'
  OBVIOUS
<1>2. PICK served : served = woken \ {l}
  OBVIOUS
<1>3. /\ queued \in Seq(Loop) /\ Waiting' = ToSet(queued)
      /\ Waiting' = Waiting \ {l} /\ woken \subseteq Waiting /\ l \in woken /\ TypeOK
  BY <1>1, Resumed DEF Waiting, Inv, SemaphoreInv
<1>4. served \subseteq ToSet(queued) /\ Waiting' \subseteq Loop
  BY <1>2, <1>3 DEF ToSet
<1>5. HandOut(queued, served, free)
  BY <1>1, <1>2
<1>6. /\ woken' \subseteq ToSet(queued) /\ permits' \in Nat
      /\ permits' + Cardinality(woken') = free + Cardinality(served)
      /\ permits' > 0 /\ queued # <<>> => woken' # {}
  BY <1>3, <1>4, <1>5, HandedOut
<1>7. Cardinality(served) = Cardinality(woken) - 1
  BY <1>2, <1>3, FiniteLoopsAndCoroutines, FS_RemoveElement
<1>8. NoIdlePermit'
  BY <1>1, <1>6 DEF NoIdlePermit
<1>9. permits' + Cardinality(woken') = free + Cardinality(woken) - 1
  BY <1>3, <1>6, <1>7, FiniteLoopsAndCoroutines
<1> QED  BY <1>3, <1>4, <1>6, <1>8, <1>9

(* Work enqueued in a live coroutine.                                      *)
LEMMA Enqueued ==
    ASSUME Inv, NEW g \in Group, NEW w \in Work, pool[g] # None, Enqueue(pool[g], w),
           UNCHANGED <<pool, state, serves, job>>
    PROVE  queue' \in [Coroutine -> Seq(Work)] /\ PoolInv' /\ Live' = Live
<1>1. PICK c \in Coroutine : c = pool[g] /\ c \in Live
  BY DEF Inv, TypeOK, PoolInv, Live
<1>2. queue \in [Coroutine -> Seq(Work)] /\ queue' = [queue EXCEPT ![c] = Append(@, w)]
  BY <1>1 DEF Inv, TypeOK, Enqueue
<1>3. Append(queue[c], w) \in Seq(Work)
  BY <1>2, AppendProperties
<1>4. queue' \in [Coroutine -> Seq(Work)]
  BY <1>2, <1>3
<1>5. Live' = Live
  BY DEF Live
<1>6. \A d \in Coroutine : d \notin Live => queue'[d] = queue[d]
  BY <1>1, <1>2
<1>7. PoolInv'
  BY <1>5, <1>6 DEF Inv, PoolInv
<1> QED  BY <1>4, <1>5, <1>7
-----------------------------------------------------------------------------
LEMMA EnqueueInLiveInv ==
    ASSUME Inv, NEW l \in Loop, NEW w \in Work, EnqueueInLive(l, w)
    PROVE  Inv'
<1>1. GroupOf[w] \in Group
  OBVIOUS
<1>2. /\ queue' \in [Coroutine -> Seq(Work)] /\ PoolInv' /\ Live' = Live
  BY <1>1, Enqueued DEF EnqueueInLive
<1>3. TypeOK'
  BY <1>2 DEF EnqueueInLive, Take, semaphore, Inv, TypeOK
<1>4. SemaphoreInv' /\ PermitsCounted' /\ NoIdlePermit'
  <2>1. Waiting' = Waiting
    BY DEF EnqueueInLive, semaphore, Waiting
  <2> QED  BY <1>2, <2>1 DEF EnqueueInLive, semaphore, Inv, SemaphoreInv, PermitsCounted, NoIdlePermit
<1> QED  BY <1>2, <1>3, <1>4 DEF Inv

LEMMA StartGroupInv ==
    ASSUME Inv, NEW l \in Loop, NEW w \in Work, StartGroup(l, w)
    PROVE  Inv'
<1>1. GroupOf[w] \in Group
  OBVIOUS
<1>2. /\ pool' \in [Group -> Coroutine \union {None}]
      /\ state' \in [Coroutine -> {"none", "waiting", "timed out", "working"}]
      /\ serves' \in [Coroutine -> Group \union {None}]
      /\ queue' \in [Coroutine -> Seq(Work)]
      /\ job' = job
      /\ PoolInv'
      /\ Cardinality(Live') = Cardinality(Live) + 1
  BY <1>1, Started DEF StartGroup
<1>3. /\ TypeOK /\ permits > 0 /\ waiters = <<>> /\ permits' = permits - 1
      /\ todo' = todo \ {w} /\ UNCHANGED <<asking, waiters, woken, done, closed, stops>>
  <2>1. permits # 0 /\ permits \in Nat
    BY Typed DEF StartGroup, Locked
  <2>2. permits > 0
    BY <2>1
  <2> QED  BY <2>2, Zenon DEF StartGroup, Take, Locked, Inv
<1>4. TypeOK'
  <2>1. permits' \in Nat
    BY <1>3, Typed
  <2> QED  BY <1>2, <1>3, <2>1 DEF TypeOK
<1>5. SemaphoreInv' /\ NoIdlePermit'
  <2>1. Waiting' = Waiting
    BY <1>3 DEF Waiting
  <2> QED  BY <1>3, <2>1 DEF Inv, SemaphoreInv, NoIdlePermit
<1>6. PermitsCounted'
  <2>0. /\ permits' = permits - 1 /\ woken' = woken
        /\ Cardinality(Live') = Cardinality(Live) + 1
        /\ permits \in Nat /\ Cardinality(Live) \in Nat /\ Cardinality(woken) \in Nat
    BY <1>2, <1>3, Typed, Zenon
  <2>1. permits' + Cardinality(Live') + Cardinality(woken')
          = permits + Cardinality(Live) + Cardinality(woken)
    BY <2>0
  <2> QED  BY <1>3, <2>1, Typed, Zenon DEF PermitsCounted
<1> QED  BY <1>2, <1>4, <1>5, <1>6 DEF Inv

LEMMA WaitForPermitInv ==
    ASSUME Inv, NEW l \in Loop, NEW w \in Work, WaitForPermit(l, w)
    PROVE  Inv'
<1>1. /\ TypeOK /\ SemaphoreInv /\ NoIdlePermit /\ ~closed /\ asking[l] = None
      /\ todo' = todo \ {w} /\ Locked
      /\ asking' = [asking EXCEPT ![l] = w] /\ waiters' = Append(waiters, l)
      /\ UNCHANGED <<woken, permits, coroutines, done, closed, stops>>
  BY DEF WaitForPermit, Take, Inv
<1>2. waiters \in Seq(Loop) /\ l \notin Waiting
  BY <1>1 DEF TypeOK, SemaphoreInv
<1>3. /\ waiters' \in Seq(Loop) /\ waiters' # <<>>
      /\ DOMAIN waiters = 1..Len(waiters) /\ Len(waiters) \in Nat
      /\ DOMAIN waiters' = 1..(Len(waiters) + 1)
      /\ \A i \in 1..Len(waiters) : waiters'[i] = waiters[i]
      /\ waiters'[Len(waiters) + 1] = l
  BY <1>1, <1>2
<1>4. Waiting' = Waiting \union {l}
  BY <1>3 DEF Waiting, ToSet
<1>5. Once(waiters')
  <2>1. \A i \in 1..Len(waiters) : waiters[i] # l
    BY <1>2, <1>3 DEF Waiting, ToSet
  <2>2. Once(waiters)
    BY <1>1 DEF SemaphoreInv
  <2> QED  BY <1>3, <2>1, <2>2 DEF Once
<1>6. SemaphoreInv'
  BY <1>1, <1>4, <1>5 DEF SemaphoreInv, TypeOK
<1>7. TypeOK'
  BY <1>1, <1>3 DEF TypeOK, coroutines
<1>8. PoolInv' /\ PermitsCounted'
  <2>1. Live' = Live
    BY <1>1 DEF coroutines, Live
  <2> QED  BY <1>1, <2>1 DEF coroutines, Inv, PoolInv, PermitsCounted
<1>9. NoIdlePermit'
  <2>1. permits > 0 => waiters # <<>>
    BY <1>1, Typed DEF Locked
  <2>2. waiters # <<>> /\ permits > 0 => woken # {}
    BY <1>1 DEF NoIdlePermit
  <2> QED  BY <1>1, <2>1, <2>2 DEF NoIdlePermit
<1> QED  BY <1>6, <1>7, <1>8, <1>9 DEF Inv

LEMMA FindStartedInv ==
    ASSUME Inv, NEW l \in Loop, FindStarted(l)
    PROVE  Inv'
<1>1. Resume(l) /\ permits + 1 \in Nat
  BY Typed DEF FindStarted
<1>2. /\ woken' \subseteq Waiting' /\ woken' \subseteq Loop /\ permits' \in Nat
      /\ permits' + Cardinality(woken') = (permits + 1) + Cardinality(woken) - 1
      /\ NoIdlePermit'
  BY <1>1, PassedOn DEF FindStarted
<1>3. /\ waiters' \in Seq(Loop) /\ Once(waiters')
      /\ asking' = [asking EXCEPT ![l] = None] /\ asking[l] \in Work
      /\ \A k \in Loop : asking'[k] # None <=> k \in Waiting'
      /\ ~closed
  BY <1>1, Resumed
<1>4. /\ queue' \in [Coroutine -> Seq(Work)] /\ PoolInv' /\ Live' = Live
  BY <1>3, Enqueued DEF FindStarted
<1>5. TypeOK'
  BY <1>2, <1>3, <1>4 DEF FindStarted, Inv, TypeOK
<1>6. SemaphoreInv'
  BY <1>2, <1>3 DEF FindStarted, SemaphoreInv
<1>7. PermitsCounted'
  <2>1. Cardinality(woken') \in Nat
    BY <1>2, FS_Subset, FS_CardinalityType
  <2>2. /\ permits' + Cardinality(woken') = (permits + 1) + Cardinality(woken) - 1
        /\ Cardinality(Live') = Cardinality(Live)
        /\ permits' \in Nat /\ permits \in Nat
        /\ Cardinality(Live) \in Nat /\ Cardinality(woken) \in Nat
    BY <1>2, <1>4, Typed, Zenon
  <2>3. permits' + Cardinality(Live') + Cardinality(woken')
          = permits + Cardinality(Live) + Cardinality(woken)
    BY <2>1, <2>2
  <2> QED  BY <1>3, <2>3, Typed, Zenon DEF PermitsCounted
<1> QED  BY <1>2, <1>4, <1>5, <1>6, <1>7 DEF Inv

LEMMA StartAfterWaitInv ==
    ASSUME Inv, NEW l \in Loop, StartAfterWait(l)
    PROVE  Inv'
<1>1. Resume(l) /\ permits \in Nat
  BY Typed DEF StartAfterWait
<1>2. /\ woken' \subseteq Waiting' /\ woken' \subseteq Loop /\ permits' \in Nat
      /\ permits' + Cardinality(woken') = permits + Cardinality(woken) - 1
      /\ NoIdlePermit'
  BY <1>1, PassedOn DEF StartAfterWait
<1>3. /\ waiters' \in Seq(Loop) /\ Once(waiters')
      /\ asking' = [asking EXCEPT ![l] = None] /\ asking[l] \in Work
      /\ \A k \in Loop : asking'[k] # None <=> k \in Waiting'
      /\ ~closed
  BY <1>1, Resumed
<1>4. /\ pool' \in [Group -> Coroutine \union {None}]
      /\ state' \in [Coroutine -> {"none", "waiting", "timed out", "working"}]
      /\ serves' \in [Coroutine -> Group \union {None}]
      /\ queue' \in [Coroutine -> Seq(Work)]
      /\ job' = job
      /\ PoolInv'
      /\ Cardinality(Live') = Cardinality(Live) + 1
  <2>1. GroupOf[asking[l]] \in Group
    BY <1>3
  <2> QED  BY <1>3, <2>1, Started DEF StartAfterWait
<1>5. TypeOK'
  BY <1>2, <1>3, <1>4 DEF StartAfterWait, Inv, TypeOK
<1>6. SemaphoreInv'
  BY <1>2, <1>3 DEF StartAfterWait, SemaphoreInv
<1>7. PermitsCounted'
  <2>1. Cardinality(woken') \in Nat
    BY <1>2, FS_Subset, FS_CardinalityType
  <2>2. /\ permits' + Cardinality(woken') = permits + Cardinality(woken) - 1
        /\ Cardinality(Live') = Cardinality(Live) + 1
        /\ permits' \in Nat /\ permits \in Nat
        /\ Cardinality(Live) \in Nat /\ Cardinality(woken) \in Nat
    BY <1>2, <1>4, Typed, Zenon
  <2>3. permits' + Cardinality(Live') + Cardinality(woken')
          = permits + Cardinality(Live) + Cardinality(woken)
    <3>1. permits' + Cardinality(woken') + 1 = permits + Cardinality(woken)
      BY <2>1, <2>2
    <3>2. permits' + (Cardinality(Live) + 1) + Cardinality(woken')
            = (permits' + Cardinality(woken') + 1) + Cardinality(Live)
      BY <2>1, <2>2
    <3> QED  BY <2>2, <3>1, <3>2
  <2> QED  BY <1>3, <2>3, Typed, Zenon DEF PermitsCounted
<1> QED  BY <1>2, <1>4, <1>5, <1>6, <1>7 DEF Inv

LEMMA StopLoopsInv == ASSUME Inv, StopLoops PROVE Inv'
<1>1. /\ TypeOK /\ ~closed /\ stops' = stops + 1
      /\ todo' = todo \union {asking[l] : l \in Waiting}
      /\ asking' = [l \in Loop |-> None] /\ waiters' = <<>> /\ woken' = {}
      /\ permits' = permits + Cardinality(woken)
      /\ UNCHANGED <<coroutines, done, closed>>
  BY DEF StopLoops, Inv
<1>2. Waiting' = {} /\ Live' = Live
  BY <1>1 DEF Waiting, ToSet, coroutines, Live
<1>3. TypeOK'
  <2>1. waiters' \in Seq(Loop) /\ permits' \in Nat /\ stops' \in Nat
    BY <1>1, Typed
  <2>2. \A l \in Waiting : asking[l] \in Work
    BY Typed DEF TypeOK, Inv, SemaphoreInv
  <2>3. todo' \subseteq Work
    <3>1. todo \subseteq Work
      BY <1>1 DEF TypeOK
    <3> QED  BY <1>1, <2>2, <3>1
  <2> QED  BY <1>1, <2>1, <2>3 DEF TypeOK, coroutines
<1>4. SemaphoreInv' /\ NoIdlePermit'
  BY <1>1, <1>2 DEF SemaphoreInv, Once, NoIdlePermit
<1>5. PoolInv'
  BY <1>1, <1>2 DEF Inv, PoolInv, coroutines
<1>6. PermitsCounted'
  <2>1. Cardinality(woken') = 0
    BY <1>1, FS_EmptySet
  <2>2. permits' + Cardinality(Live') + Cardinality(woken')
          = permits + Cardinality(Live) + Cardinality(woken)
    BY <1>1, <1>2, <2>1, Typed
  <2> QED  BY <1>1, <2>2, Typed, Zenon DEF PermitsCounted
<1> QED  BY <1>3, <1>4, <1>5, <1>6 DEF Inv
-----------------------------------------------------------------------------
(* What the coroutines alone change.                                       *)
LEMMA CoroutineInv ==
    ASSUME Inv, Live' = Live, PoolInv', done' \subseteq Work,
           state' \in [Coroutine -> {"none", "waiting", "timed out", "working"}],
           queue' \in [Coroutine -> Seq(Work)], job' \in [Coroutine -> Work \union {None}],
           UNCHANGED <<todo, asking, semaphore, pool, serves, closed, stops>>
    PROVE  Inv'
<1>1. UNCHANGED <<waiters, woken, permits>> /\ Waiting' = Waiting
  BY DEF semaphore, Waiting
<1>2. TypeOK'
  BY <1>1 DEF Inv, TypeOK
<1>3. SemaphoreInv' /\ PermitsCounted' /\ NoIdlePermit'
  BY <1>1 DEF Inv, SemaphoreInv, PermitsCounted, NoIdlePermit
<1> QED  BY <1>2, <1>3 DEF Inv

(* A coroutine that takes work from its queue.                             *)
LEMMA TookNext ==
    ASSUME Inv, NEW c \in Live, queue[c] # <<>>, TakeNext(c), UNCHANGED <<pool, serves>>
    PROVE  /\ Live' = Live /\ PoolInv'
           /\ state' \in [Coroutine -> {"none", "waiting", "timed out", "working"}]
           /\ queue' \in [Coroutine -> Seq(Work)]
           /\ job' \in [Coroutine -> Work \union {None}]
<1>1. /\ state \in [Coroutine -> {"none", "waiting", "timed out", "working"}]
      /\ queue \in [Coroutine -> Seq(Work)]
      /\ job \in [Coroutine -> Work \union {None}]
      /\ PoolInv /\ c \in Coroutine /\ state[c] # "none"
  BY DEF Inv, TypeOK, Live
<1>2. Head(queue[c]) \in Work /\ Tail(queue[c]) \in Seq(Work)
  <2>1. queue[c] \in Seq(Work)
    BY <1>1
  <2> QED  BY <2>1, HeadTailProperties
<1>3. /\ state' \in [Coroutine -> {"none", "waiting", "timed out", "working"}]
      /\ job' \in [Coroutine -> Work \union {None}]
  BY <1>1, <1>2 DEF TakeNext
<1>4. queue' \in [Coroutine -> Seq(Work)]
  BY <1>1, <1>2 DEF TakeNext
<1>5. /\ state'[c] = "working" /\ job'[c] \in Work
      /\ \A d \in Coroutine : d # c => /\ state'[d] = state[d] /\ job'[d] = job[d]
                                       /\ queue'[d] = queue[d]
  BY <1>1, <1>2 DEF TakeNext
<1>6. Live' = Live
  BY <1>1, <1>5 DEF Live
<1>7. PoolInv'
  <2>1. ASSUME NEW d \in Coroutine
        PROVE  /\ d \in Live <=> serves[d] # None
               /\ d \notin Live => queue'[d] = <<>>
               /\ job'[d] # None <=> state'[d] = "working"
    <3>1. CASE d = c
      BY <1>1, <1>5, <3>1 DEF PoolInv
    <3>2. CASE d # c
      BY <1>1, <1>5, <3>2 DEF PoolInv
    <3> QED  BY <3>1, <3>2
  <2> QED  BY <1>1, <1>6, <2>1 DEF PoolInv
<1> QED  BY <1>3, <1>4, <1>6, <1>7

LEMMA TakeWorkInv ==
    ASSUME Inv, NEW c \in Coroutine, TakeWork(c) \/ ContinueWithWork(c)
    PROVE  Inv'
<1>1. /\ c \in Live /\ queue[c] # <<>> /\ TakeNext(c)
      /\ UNCHANGED <<todo, asking, semaphore, pool, serves, done, closed, stops>>
  BY DEF TakeWork, ContinueWithWork, Live
<1>2. /\ Live' = Live /\ PoolInv'
      /\ state' \in [Coroutine -> {"none", "waiting", "timed out", "working"}]
      /\ queue' \in [Coroutine -> Seq(Work)]
      /\ job' \in [Coroutine -> Work \union {None}]
  BY <1>1, TookNext
<1>3. done' \subseteq Work
  BY <1>1 DEF Inv, TypeOK
<1> QED  BY <1>1, <1>2, <1>3, CoroutineInv

LEMMA FinishWorkInv ==
    ASSUME Inv, NEW c \in Coroutine, FinishWork(c)
    PROVE  Inv'
<1>1. /\ c \in Live /\ job[c] \in Work /\ done' = done \union {job[c]}
      /\ UNCHANGED <<todo, asking, semaphore, pool, serves, closed, stops>>
  <2>1. state[c] = "working" /\ c \in Live
    BY DEF FinishWork, Live
  <2>2. job[c] \in Work
    <3>1. job[c] # None
      BY <2>1 DEF Inv, PoolInv
    <3> QED  BY <3>1 DEF Inv, TypeOK
  <2> QED  BY <2>1, <2>2 DEF FinishWork
<1>2. done' \subseteq Work
  BY <1>1 DEF Inv, TypeOK
<1>3. /\ Live' = Live /\ PoolInv'
      /\ state' \in [Coroutine -> {"none", "waiting", "timed out", "working"}]
      /\ queue' \in [Coroutine -> Seq(Work)]
      /\ job' \in [Coroutine -> Work \union {None}]
  <2>1. CASE queue[c] # <<>>
    BY <1>1, <2>1, TookNext DEF FinishWork
  <2>2. CASE queue[c] = <<>>
    <3>1. /\ state' = [state EXCEPT ![c] = "waiting"]
          /\ job' = [job EXCEPT ![c] = None]
          /\ queue' = queue
      BY <2>2 DEF FinishWork
    <3>2. /\ state \in [Coroutine -> {"none", "waiting", "timed out", "working"}]
          /\ queue \in [Coroutine -> Seq(Work)]
          /\ job \in [Coroutine -> Work \union {None}]
          /\ PoolInv /\ state[c] # "none"
      BY <1>1 DEF Inv, TypeOK, Live
    <3>3. /\ state' \in [Coroutine -> {"none", "waiting", "timed out", "working"}]
          /\ job' \in [Coroutine -> Work \union {None}]
          /\ state'[c] = "waiting" /\ job'[c] = None
          /\ \A d \in Coroutine : d # c => state'[d] = state[d] /\ job'[d] = job[d]
      BY <3>1, <3>2
    <3>4. Live' = Live
      BY <3>2, <3>3 DEF Live
    <3>5. \A d \in Coroutine : job'[d] # None <=> state'[d] = "working"
      <4>1. \A d \in Coroutine : job[d] # None <=> state[d] = "working"
        BY <3>2 DEF PoolInv
      <4> QED  BY <3>3, <4>1
    <3>6. PoolInv'
      BY <1>1, <3>1, <3>2, <3>4, <3>5 DEF PoolInv
    <3> QED  BY <3>1, <3>2, <3>3, <3>4, <3>6
  <2> QED  BY <2>1, <2>2
<1> QED  BY <1>1, <1>2, <1>3, CoroutineInv

LEMMA TimeOutInv ==
    ASSUME Inv, NEW c \in Coroutine, TimeOut(c)
    PROVE  Inv'
<1>1. /\ state[c] = "waiting" /\ state' = [state EXCEPT ![c] = "timed out"]
      /\ UNCHANGED <<todo, asking, semaphore, pool, serves, queue, job, done, closed, stops>>
  BY DEF TimeOut
<1>2. /\ state \in [Coroutine -> {"none", "waiting", "timed out", "working"}]
      /\ queue \in [Coroutine -> Seq(Work)]
      /\ job \in [Coroutine -> Work \union {None}]
      /\ PoolInv /\ done \subseteq Work
  BY DEF Inv, TypeOK
<1>3. /\ state' \in [Coroutine -> {"none", "waiting", "timed out", "working"}]
      /\ state'[c] = "timed out"
      /\ \A d \in Coroutine : d # c => state'[d] = state[d]
  BY <1>1, <1>2
<1>4. Live' = Live
  BY <1>1, <1>2, <1>3 DEF Live
<1>5. \A d \in Coroutine : job[d] # None <=> state'[d] = "working"
  <2>1. \A d \in Coroutine : job[d] # None <=> state[d] = "working"
    BY <1>2 DEF PoolInv
  <2> QED  BY <1>1, <1>3, <2>1
<1>6. PoolInv'
  BY <1>1, <1>2, <1>4, <1>5 DEF PoolInv
<1> QED  BY <1>1, <1>2, <1>3, <1>4, <1>6, CoroutineInv

(* The coroutine leaves the map and its permit goes to the next.           *)
LEMMA IdleOutInv ==
    ASSUME Inv, NEW c \in Coroutine, IdleOut(c)
    PROVE  Inv'
<1>1. /\ state[c] = "timed out" /\ queue[c] = <<>>
      /\ state' = [state EXCEPT ![c] = "none"]
      /\ serves' = [serves EXCEPT ![c] = None]
      /\ pool' = [pool EXCEPT ![serves[c]] = None]
      /\ HandOut(waiters, woken, permits + 1)
      /\ UNCHANGED <<todo, asking, waiters, queue, job, done, closed, stops>>
  BY DEF IdleOut, End, Release
<1>2. /\ pool \in [Group -> Coroutine \union {None}]
      /\ state \in [Coroutine -> {"none", "waiting", "timed out", "working"}]
      /\ serves \in [Coroutine -> Group \union {None}]
      /\ PoolInv /\ SemaphoreInv /\ TypeOK
  BY DEF Inv, TypeOK
<1>3. c \in Live /\ serves[c] \in Group /\ pool[serves[c]] = c
  <2>1. c \in Live
    BY <1>1 DEF Live
  <2>2. serves[c] # None /\ pool[serves[c]] = c
    BY <1>2, <2>1 DEF PoolInv
  <2> QED  BY <1>2, <2>1, <2>2
<1>4. /\ state'[c] = "none" /\ serves'[c] = None /\ pool'[serves[c]] = None
      /\ \A d \in Coroutine : d # c => state'[d] = state[d] /\ serves'[d] = serves[d]
      /\ \A g \in Group : g # serves[c] => pool'[g] = pool[g]
  BY <1>1, <1>2, <1>3
<1>5. Live' = Live \ {c}
  BY <1>1, <1>4 DEF Live
<1>6. PoolInv'
  <2>1. ASSUME NEW d \in Coroutine
        PROVE  /\ d \in Live' <=> serves'[d] # None
               /\ d \notin Live' => queue'[d] = <<>>
               /\ job'[d] # None <=> state'[d] = "working"
    <3>1. CASE d = c
      <4>1. job[c] = None
        BY <1>1, <1>2 DEF PoolInv
      <4> QED  BY <1>1, <1>4, <1>5, <3>1, <4>1
    <3>2. CASE d # c
      BY <1>1, <1>2, <1>4, <1>5, <3>2 DEF PoolInv
    <3> QED  BY <3>1, <3>2
  <2>2. ASSUME NEW g \in Group, pool'[g] # None
        PROVE  pool'[g] \in Live' /\ serves'[pool'[g]] = g
    <3>1. g # serves[c] /\ pool'[g] = pool[g] /\ pool[g] # None
      BY <1>4, <2>2
    <3>2. pool[g] \in Live /\ serves[pool[g]] = g /\ pool[g] \in Coroutine
      <4>1. pool[g] \in Coroutine
        BY <1>2, <3>1
      <4> QED  BY <1>2, <3>1, <4>1 DEF PoolInv
    <3>3. pool[g] # c
      BY <3>1, <3>2
    <3> QED  BY <1>4, <1>5, <3>1, <3>2, <3>3
  <2>3. ASSUME NEW d \in Live' PROVE pool'[serves'[d]] = d
    <3>1. d \in Live /\ d # c /\ d \in Coroutine
      BY <1>5 DEF Live
    <3>2. pool[serves[d]] = d /\ serves[d] # None
      BY <1>2, <3>1 DEF PoolInv
    <3>3. serves[d] \in Group /\ serves[d] # serves[c]
      BY <1>2, <1>3, <3>1, <3>2
    <3> QED  BY <1>4, <3>1, <3>2, <3>3
  <2> QED  BY <2>1, <2>2, <2>3 DEF PoolInv
<1>7. /\ woken' \subseteq Waiting /\ permits' \in Nat
      /\ permits' + Cardinality(woken') = (permits + 1) + Cardinality(woken)
      /\ permits' > 0 /\ waiters # <<>> => woken' # {}
  <2>1. permits + 1 \in Nat /\ waiters \in Seq(Loop)
    BY Typed
  <2>2. woken \subseteq ToSet(waiters) /\ Waiting = ToSet(waiters)
    BY <1>2 DEF SemaphoreInv, Waiting
  <2> QED  BY <1>1, <2>1, <2>2, HandedOut
<1>8. Waiting' = Waiting
  BY <1>1 DEF Waiting
<1>9. TypeOK'
  <2>1. /\ pool' \in [Group -> Coroutine \union {None}]
        /\ state' \in [Coroutine -> {"none", "waiting", "timed out", "working"}]
        /\ serves' \in [Coroutine -> Group \union {None}]
    BY <1>1, <1>2
  <2>2. woken' \subseteq Loop
    BY <1>7, Typed
  <2> QED  BY <1>1, <1>2, <1>7, <2>1, <2>2 DEF TypeOK
<1>10. SemaphoreInv' /\ NoIdlePermit'
  BY <1>1, <1>2, <1>7, <1>8 DEF SemaphoreInv, NoIdlePermit
<1>11. PermitsCounted'
  <2>1. Cardinality(woken') \in Nat
    BY <1>7, Typed, FS_Subset, FS_CardinalityType
  <2>2. Cardinality(Live') = Cardinality(Live) - 1
    BY <1>2, <1>3, <1>5, FiniteLoopsAndCoroutines, FS_RemoveElement
  <2>3. /\ permits' + Cardinality(woken') = (permits + 1) + Cardinality(woken)
        /\ permits' \in Nat /\ permits \in Nat
        /\ Cardinality(Live) \in Nat /\ Cardinality(woken) \in Nat
    BY <1>7, Typed, Zenon
  <2>4. permits' + Cardinality(Live') + Cardinality(woken')
          = permits + Cardinality(Live) + Cardinality(woken)
    <3>1. permits' + Cardinality(woken') = permits + Cardinality(woken) + 1
      BY <2>1, <2>3
    <3>2. permits' + (Cardinality(Live) - 1) + Cardinality(woken')
            = (permits' + Cardinality(woken')) - 1 + Cardinality(Live)
      BY <2>1, <2>3
    <3> QED  BY <2>2, <2>3, <3>1, <3>2
  <2> QED  BY <1>1, <2>4, Typed, Zenon DEF PermitsCounted
<1> QED  BY <1>6, <1>9, <1>10, <1>11 DEF Inv

LEMMA CloseInv == ASSUME Inv, Close PROVE Inv'
<1>1. /\ closed' /\ waiters = <<>>
      /\ state' = [c \in Coroutine |-> "none"]
      /\ serves' = [c \in Coroutine |-> None]
      /\ queue' = [c \in Coroutine |-> <<>>]
      /\ job' = [c \in Coroutine |-> None]
      /\ pool' = [g \in Group |-> None]
      /\ UNCHANGED <<todo, asking, waiters, woken, permits, done, stops>>
      /\ closed' = TRUE
  BY DEF Close, semaphore
<1>2. Live' = {} /\ Waiting' = Waiting
  BY <1>1 DEF Live, Waiting
<1>3. TypeOK'
  <2>1. queue' \in [Coroutine -> Seq(Work)]
    BY <1>1, EmptySeq
  <2> QED  BY <1>1, <2>1 DEF Inv, TypeOK
<1>4. PoolInv'
  BY <1>1, <1>2 DEF PoolInv
<1>5. SemaphoreInv' /\ PermitsCounted' /\ NoIdlePermit'
  BY <1>1, <1>2 DEF Inv, SemaphoreInv, PermitsCounted, NoIdlePermit
<1> QED  BY <1>3, <1>4, <1>5 DEF Inv

LEMMA Inductive == Inv /\ [Next]_vars => Inv'
<1> SUFFICES ASSUME Inv, [Next]_vars PROVE Inv'
  OBVIOUS
<1>1. CASE \E l \in Loop : Route(l)
  BY <1>1, EnqueueInLiveInv, StartGroupInv, WaitForPermitInv DEF Route
<1>2. CASE \E l \in Loop : GoOn(l)
  BY <1>2, FindStartedInv, StartAfterWaitInv DEF GoOn
<1>3. CASE \E c \in Coroutine : Run(c) \/ TimeOut(c)
  BY <1>3, TakeWorkInv, FinishWorkInv, IdleOutInv, TimeOutInv DEF Run
<1>4. CASE StopLoops \/ Close
  BY <1>4, StopLoopsInv, CloseInv
<1>5. CASE UNCHANGED vars
  <2>1. Live' = Live /\ done' \subseteq Work /\ PoolInv'
    <3>1. Live' = Live
      BY <1>5 DEF vars, coroutines, Live
    <3> QED  BY <1>5, <3>1 DEF vars, coroutines, Inv, TypeOK, PoolInv
  <2> QED  BY <1>5, <2>1, CoroutineInv DEF vars, coroutines, Inv, TypeOK
<1> QED  BY <1>1, <1>2, <1>3, <1>4, <1>5 DEF Next
-----------------------------------------------------------------------------
(* Every variable keeps its type.                                          *)
THEOREM TypeCorrect == Spec => []TypeOK
<1>1. Inv => TypeOK
  BY DEF Inv
<1> QED  BY <1>1, InitInv, Inductive, PTL DEF Spec

(* A group has one coroutine while it is in the map and holds one permit;  *)
(* with what is free and what is on its way to a woken loop the permits    *)
(* are always max_concurrent (_group_semaphore, _groups).                  *)
THEOREM PermitsAreKept == Spec => []PermitPerGroup
<1>1. Inv => PermitPerGroup
  BY Zenon DEF Inv, PermitsCounted, PoolInv, PermitPerGroup
<1> QED  BY <1>1, InitInv, Inductive, PTL DEF Spec

(* No loop waits for a permit that nobody needs (acquire, release).        *)
THEOREM PermitsDoNotIdle == Spec => []NoIdlePermit
<1>1. Inv => NoIdlePermit
  BY DEF Inv
<1> QED  BY <1>1, InitInv, Inductive, PTL DEF Spec
-----------------------------------------------------------------------------
(* A group's queue and work are those of its one coroutine.                *)
RunOf(g) == IF pool[g] = None THEN {} ELSE {job[pool[g]]} \ {None}

OneRuns == runningWork = [g \in Group |-> RunOf(g)]

LEMMA OneServes == Inv => OneRuns
<1> USE DEF OneRuns
<1> SUFFICES ASSUME Inv, NEW g \in Group PROVE {job[c] : c \in Serving(g)} \ {None} = RunOf(g)
  BY DEF runningWork
<1>1. PoolInv
  BY DEF Inv
<1>2. CASE pool[g] = None
  <2>1. Serving(g) = {}
    <3> SUFFICES ASSUME NEW c \in Live, serves[c] = g PROVE FALSE
      BY DEF Serving
    <3>1. pool[g] = c /\ c \in Coroutine
      BY <1>1 DEF PoolInv, Live
    <3> QED  BY <1>2, <3>1
  <2> QED  BY <1>2, <2>1 DEF RunOf
<1>3. CASE pool[g] # None
  <2>1. Serving(g) = {pool[g]}
    <3>1. pool[g] \in Live /\ serves[pool[g]] = g
      BY <1>1, <1>3 DEF PoolInv
    <3>2. \A c \in Live : serves[c] = g => c = pool[g]
      BY <1>1 DEF PoolInv
    <3> QED  BY <3>1, <3>2 DEF Serving
  <2> QED  BY <1>3, <2>1 DEF RunOf
<1> QED  BY <1>2, <1>3

(* An action that leaves the coroutines alone is none of the queues'       *)
(* business.                                                               *)
LEMMA NoQueueChanges ==
    ASSUME UNCHANGED coroutines
    PROVE  UNCHANGED Queues!groupQueues
BY DEF coroutines, Queues!groupQueues, waitingWork, runningWork, Serving, Live

LEMMA EnqueuedQueues ==
    ASSUME Inv, Inv', NEW w \in Work, pool[GroupOf[w]] # None,
           Enqueue(pool[GroupOf[w]], w), UNCHANGED <<pool, state, serves, job>>
    PROVE  Queues!Next
<1> DEFINE g == GroupOf[w]
<1>1. /\ g \in Group /\ pool \in [Group -> Coroutine \union {None}]
      /\ queue \in [Coroutine -> Seq(Work)]
  BY DEF Inv, TypeOK
<1>2. PICK c \in Coroutine : c = pool[g] /\ c \in Live /\ serves[c] = g
  BY <1>1 DEF Inv, PoolInv
<1> HIDE DEF g
<1>3. queue' = [queue EXCEPT ![c] = Append(@, w)]
  BY <1>2 DEF Enqueue, g
<1>4. \A h \in Group : h # g => pool[h] # c
  BY <1>2 DEF Inv, PoolInv
<1>5. waitingWork' = [waitingWork EXCEPT ![g] = Append(@, w)]
  <2>1. ASSUME NEW h \in Group
        PROVE  waitingWork'[h] = IF h = g THEN Append(waitingWork[g], w) ELSE waitingWork[h]
    <3>1. CASE h = g
      BY <1>1, <1>2, <1>3, <3>1 DEF waitingWork
    <3>2. CASE h # g
      <4>1. pool'[h] = pool[h] /\ pool[h] # c /\ pool[h] \in Coroutine \union {None}
        BY <1>1, <1>4, <3>2
      <4>2. pool[h] # None => queue'[pool[h]] = queue[pool[h]]
        BY <1>1, <1>3, <4>1
      <4> QED  BY <3>2, <4>1, <4>2 DEF waitingWork
    <3> QED  BY <3>1, <3>2
  <2> QED  BY <1>1, <2>1 DEF waitingWork
<1>6. runningWork' = runningWork
  BY DEF runningWork, Serving, Live
<1> QED  BY <1>5, <1>6 DEF Queues!Next, Queues!Enqueue, g

LEMMA OneServesNext == Inv' => OneRuns'
BY OneServes, PTL

LEMMA StartedQueues ==
    ASSUME Inv, Inv', NEW w \in Work, pool[GroupOf[w]] = None, Start(GroupOf[w], w)
    PROVE  Queues!Next
<1> DEFINE g == GroupOf[w]
<1>1. /\ g \in Group /\ pool \in [Group -> Coroutine \union {None}]
      /\ queue \in [Coroutine -> Seq(Work)] /\ job \in [Coroutine -> Work \union {None}]
      /\ pool[g] = None
  BY DEF Inv, TypeOK
<1> HIDE DEF g
<1>2. PICK c \in Coroutine \ Live :
        /\ pool' = [pool EXCEPT ![g] = c]
        /\ queue' = [queue EXCEPT ![c] = <<w>>]
        /\ job' = job
  BY DEF Start, g
<1>3. job[c] = None
  BY <1>2 DEF Inv, PoolInv, Live
<1>4. /\ pool'[g] = c /\ c # None /\ queue'[c] = <<w>>
      /\ \A h \in Group : h # g => /\ pool'[h] = pool[h]
                                   /\ pool[h] # None => queue'[pool[h]] = queue[pool[h]]
  <2>1. \A h \in Group : pool[h] # c
    <3>1. \A h \in Group : pool[h] # None => pool[h] \in Live
      BY DEF Inv, PoolInv
    <3> QED  BY <1>2, <3>1
  <2>2. \A h \in Group : h # g => pool'[h] = pool[h]
    BY <1>1, <1>2
  <2>3. \A h \in Group : pool[h] # None => queue'[pool[h]] = queue[pool[h]]
    BY <1>1, <1>2, <2>1
  <2> QED  BY <1>1, <1>2, <2>2, <2>3
<1>5. waitingWork' = [waitingWork EXCEPT ![g] = Append(@, w)]
  <2>1. ASSUME NEW h \in Group
        PROVE  waitingWork'[h] = IF h = g THEN Append(waitingWork[g], w) ELSE waitingWork[h]
    <3>1. Append(<<>>, w) = <<w>>
      OBVIOUS
    <3> QED  BY <1>1, <1>4, <3>1 DEF waitingWork
  <2> QED  BY <1>1, <2>1 DEF waitingWork
<1>6. runningWork' = runningWork
  <2>1. \A h \in Group : RunOf(h)' = RunOf(h)
    BY <1>1, <1>2, <1>3, <1>4 DEF RunOf
  <2> QED  BY <2>1, OneServes, OneServesNext DEF OneRuns
<1> QED  BY <1>5, <1>6 DEF Queues!Next, Queues!Enqueue, g

(* What is left of a coroutine's step when the map stays as it is.         *)
LEMMA StepOfOne ==
    ASSUME Inv, Inv', NEW c \in Live, UNCHANGED <<pool, serves>>,
           \A d \in Coroutine : d # c => queue'[d] = queue[d] /\ job'[d] = job[d]
    PROVE  /\ serves[c] \in Group
           /\ waitingWork' = [waitingWork EXCEPT ![serves[c]] = queue'[c]]
           /\ runningWork' = [runningWork EXCEPT ![serves[c]] = {job'[c]} \ {None}]
           /\ waitingWork[serves[c]] = queue[c]
<1>1. /\ pool \in [Group -> Coroutine \union {None}]
      /\ serves \in [Coroutine -> Group \union {None}]
      /\ PoolInv /\ c \in Coroutine
  BY DEF Inv, TypeOK, Live
<1>2. serves[c] \in Group /\ pool[serves[c]] = c
  BY <1>1 DEF PoolInv
<1>3. \A g \in Group : g # serves[c] => pool[g] # c
  BY <1>1 DEF PoolInv
<1>4. \A g \in Group : g # serves[c] /\ pool[g] # None =>
        queue'[pool[g]] = queue[pool[g]] /\ job'[pool[g]] = job[pool[g]]
  BY <1>1, <1>3
<1>5. pool' = pool /\ c # None
  BY <1>1
<1>6. waitingWork' = [waitingWork EXCEPT ![serves[c]] = queue'[c]]
  <2>1. \A g \in Group : waitingWork'[g] = IF g = serves[c] THEN queue'[c] ELSE waitingWork[g]
    BY <1>2, <1>4, <1>5 DEF waitingWork
  <2> QED  BY <1>2, <2>1 DEF waitingWork
<1>7. runningWork' = [runningWork EXCEPT ![serves[c]] = {job'[c]} \ {None}]
  <2>1. \A g \in Group : RunOf(g)' = IF g = serves[c] THEN {job'[c]} \ {None} ELSE RunOf(g)
    BY <1>2, <1>4, <1>5 DEF RunOf
  <2> QED  BY <1>2, <2>1, OneServes, OneServesNext DEF OneRuns
<1>8. waitingWork[serves[c]] = queue[c]
  BY <1>2, <1>5 DEF waitingWork
<1> QED  BY <1>2, <1>6, <1>7, <1>8

LEMMA TookNextQueues ==
    ASSUME Inv, Inv', NEW c \in Live, queue[c] # <<>>, TakeNext(c), UNCHANGED <<pool, serves>>
    PROVE  Queues!Next
<1>1. /\ queue \in [Coroutine -> Seq(Work)] /\ job \in [Coroutine -> Work \union {None}]
      /\ c \in Coroutine
  BY DEF Inv, TypeOK, Live
<1>2. /\ job'[c] = Head(queue[c]) /\ queue'[c] = Tail(queue[c])
      /\ \A d \in Coroutine : d # c => queue'[d] = queue[d] /\ job'[d] = job[d]
  BY <1>1 DEF TakeNext
<1>3. Head(queue[c]) \in Work
  <2>1. queue[c] \in Seq(Work)
    BY <1>1
  <2> QED  BY <2>1, HeadTailProperties
<1>4. /\ serves[c] \in Group
      /\ waitingWork' = [waitingWork EXCEPT ![serves[c]] = queue'[c]]
      /\ runningWork' = [runningWork EXCEPT ![serves[c]] = {job'[c]} \ {None}]
      /\ waitingWork[serves[c]] = queue[c]
  BY <1>2, StepOfOne
<1>5. {job'[c]} \ {None} = {Head(waitingWork[serves[c]])}
  BY <1>2, <1>3, <1>4
<1>6. Queues!RunNext(serves[c])
  BY <1>2, <1>4, <1>5 DEF Queues!RunNext
<1> QED  BY <1>4, <1>6 DEF Queues!Next

LEMMA FinishQueues ==
    ASSUME Inv, Inv', NEW c \in Coroutine, FinishWork(c)
    PROVE  Queues!Next
<1>1. c \in Live /\ UNCHANGED <<pool, serves>>
  BY DEF FinishWork, Live
<1>2. CASE queue[c] # <<>>
  BY <1>1, <1>2, TookNextQueues DEF FinishWork
<1>3. CASE queue[c] = <<>>
  <2>1. queue' = queue /\ job' = [job EXCEPT ![c] = None]
    BY <1>3 DEF FinishWork
  <2>2. /\ job'[c] = None
        /\ \A d \in Coroutine : d # c => queue'[d] = queue[d] /\ job'[d] = job[d]
    BY <2>1 DEF Inv, TypeOK
  <2>3. /\ serves[c] \in Group
        /\ waitingWork' = [waitingWork EXCEPT ![serves[c]] = queue'[c]]
        /\ runningWork' = [runningWork EXCEPT ![serves[c]] = {job'[c]} \ {None}]
        /\ waitingWork[serves[c]] = queue[c]
    BY <1>1, <2>2, StepOfOne
  <2>4. waitingWork' = waitingWork
    BY <2>1, <2>3 DEF waitingWork
  <2>5. {job'[c]} \ {None} = {}
    BY <2>2
  <2>6. Queues!Finish(serves[c])
    BY <2>3, <2>4, <2>5 DEF Queues!Finish
  <2> QED  BY <2>3, <2>6 DEF Queues!Next
<1> QED  BY <1>2, <1>3

LEMMA IdleOutQueues ==
    ASSUME Inv, Inv', NEW c \in Coroutine, IdleOut(c)
    PROVE  UNCHANGED Queues!groupQueues
<1>1. /\ c \in Live /\ state[c] = "timed out" /\ queue[c] = <<>>
      /\ pool' = [pool EXCEPT ![serves[c]] = None]
      /\ UNCHANGED <<queue, job>>
  BY DEF IdleOut, Live
<1>2. /\ pool \in [Group -> Coroutine \union {None}]
      /\ serves \in [Coroutine -> Group \union {None}]
      /\ PoolInv
  BY DEF Inv, TypeOK
<1>3. serves[c] \in Group /\ pool[serves[c]] = c /\ job[c] = None
  BY <1>1, <1>2 DEF PoolInv
<1>4. /\ pool'[serves[c]] = None
      /\ \A g \in Group : g # serves[c] => pool'[g] = pool[g]
  BY <1>1, <1>2, <1>3
<1>5. waitingWork' = waitingWork
  <2>1. ASSUME NEW g \in Group PROVE waitingWork'[g] = waitingWork[g]
    <3>1. CASE g = serves[c]
      <4>1. c # None
        BY <1>2, <1>3
      <4> QED  BY <1>1, <1>3, <1>4, <3>1, <4>1 DEF waitingWork
    <3>2. CASE g # serves[c]
      <4>1. pool'[g] = pool[g] /\ queue' = queue
        BY <1>1, <1>4, <3>2
      <4> QED  BY <4>1 DEF waitingWork
    <3> QED  BY <3>1, <3>2
  <2> QED  BY <2>1 DEF waitingWork
<1>6. runningWork' = runningWork
  <2>1. \A g \in Group : RunOf(g)' = RunOf(g)
    BY <1>1, <1>3, <1>4 DEF RunOf
  <2> QED  BY <2>1, OneServes, OneServesNext DEF OneRuns
<1> QED  BY <1>5, <1>6 DEF Queues!groupQueues

LEMMA TimeOutQueues ==
    ASSUME Inv, Inv', NEW c \in Coroutine, TimeOut(c)
    PROVE  UNCHANGED Queues!groupQueues
<1>1. UNCHANGED <<pool, queue, job>>
  BY DEF TimeOut
<1>2. waitingWork' = waitingWork
  BY <1>1 DEF waitingWork
<1>3. runningWork' = runningWork
  <2>1. \A g \in Group : RunOf(g)' = RunOf(g)
    BY <1>1 DEF RunOf
  <2> QED  BY <2>1, OneServes, OneServesNext DEF OneRuns
<1> QED  BY <1>2, <1>3 DEF Queues!groupQueues

LEMMA CloseQueues ==
    ASSUME Inv, Inv', Close
    PROVE  Queues!Next
<1>1. pool' = [g \in Group |-> None]
  BY DEF Close
<1>2. waitingWork' = [g \in Group |-> <<>>]
  BY <1>1 DEF waitingWork
<1>3. runningWork' = [g \in Group |-> {}]
  <2>1. \A g \in Group : RunOf(g)' = {}
    BY <1>1 DEF RunOf
  <2> QED  BY <2>1, OneServesNext DEF OneRuns
<1>4. Queues!Close
  BY <1>2, <1>3 DEF Queues!Close, Queues!Init
<1> QED  BY <1>4 DEF Queues!Next

LEMMA StepsOfQueues == Inv /\ Inv' /\ [Next]_vars => [Queues!Next]_(Queues!groupQueues)
<1> SUFFICES ASSUME Inv, Inv', [Next]_vars PROVE [Queues!Next]_(Queues!groupQueues)
  OBVIOUS
<1>1. ASSUME NEW l \in Loop, Route(l) PROVE [Queues!Next]_(Queues!groupQueues)
  <2>1. PICK w \in Work : EnqueueInLive(l, w) \/ StartGroup(l, w) \/ WaitForPermit(l, w)
    BY <1>1 DEF Route
  <2>2. CASE EnqueueInLive(l, w)
    BY <2>2, EnqueuedQueues DEF EnqueueInLive
  <2>3. CASE StartGroup(l, w)
    BY <2>3, StartedQueues DEF StartGroup
  <2>4. CASE WaitForPermit(l, w)
    BY <2>4, NoQueueChanges DEF WaitForPermit
  <2> QED  BY <2>1, <2>2, <2>3, <2>4
<1>2. ASSUME NEW l \in Loop, GoOn(l) PROVE [Queues!Next]_(Queues!groupQueues)
  <2>1. asking[l] \in Work
    BY <1>2, Resumed DEF GoOn, FindStarted, StartAfterWait
  <2>2. CASE FindStarted(l)
    BY <2>1, <2>2, EnqueuedQueues DEF FindStarted
  <2>3. CASE StartAfterWait(l)
    BY <2>1, <2>3, StartedQueues DEF StartAfterWait
  <2> QED  BY <1>2, <2>2, <2>3 DEF GoOn
<1>3. ASSUME NEW c \in Coroutine, Run(c) \/ TimeOut(c) PROVE [Queues!Next]_(Queues!groupQueues)
  <2>1. CASE TakeWork(c) \/ ContinueWithWork(c)
    <3>1. c \in Live /\ queue[c] # <<>> /\ TakeNext(c) /\ UNCHANGED <<pool, serves>>
      BY <2>1 DEF TakeWork, ContinueWithWork, Live
    <3> QED  BY <3>1, TookNextQueues
  <2> QED  BY <1>3, <2>1, FinishQueues, IdleOutQueues, TimeOutQueues DEF Run
<1>4. CASE StopLoops \/ UNCHANGED vars
  BY <1>4, NoQueueChanges DEF StopLoops, vars
<1> QED  BY <1>1, <1>2, <1>3, <1>4, CloseQueues DEF Next

(* However coroutines start, wait for permits, idle out and are closed,    *)
(* what a group is given runs one at a time, in order and without loss     *)
(* (_get_group, _run, _on_idle).                                           *)
THEOREM PoolIsQueues == Spec => ImplementsGroupQueues
<1>1. Init => Queues!Init
  <2> SUFFICES ASSUME Init PROVE Queues!Init
    OBVIOUS
  <2>1. waitingWork = [g \in Group |-> <<>>]
    BY DEF Init, waitingWork
  <2>2. runningWork = [g \in Group |-> {}]
    BY DEF Init, runningWork, Serving, Live
  <2> QED  BY <2>1, <2>2 DEF Queues!Init
<1> QED  BY <1>1, InitInv, Inductive, StepsOfQueues, PTL
         DEF Spec, ImplementsGroupQueues, Queues!Spec
=============================================================================
