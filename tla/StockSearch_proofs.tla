------------------------- MODULE StockSearch_proofs -------------------------
(***************************************************************************)
(* Proofs about StockList and StockSearch: what a reader of the list may   *)
(* rely on while any number of refreshes overlap, fail and end in any      *)
(* order; and of every list that comes to be loaded, that its names are    *)
(* found, that no stock is verified twice, and that the search by index    *)
(* answers as the matcher it was designed from.                            *)
(*                                                                         *)
(* The list first; then recursion over an interval, greedy subsequences    *)
(* against sets of places, the variants of a name, the index, the          *)
(* verification of an answer, and the scores.                              *)
(***************************************************************************)
EXTENDS StockSearch, TLAPS, WellFoundedInduction, FiniteSetTheorems

(* The documents read when a refresh is at an await.                       *)
ReadSoFar(await) ==
    CASE await \in {"idle", "en"} -> {}
      [] await = "zh" -> {"en"}
      [] await = "securities" -> {"en", "zh"}
      [] await \in {"parse", "load", "reload"} -> Document
      [] OTHER -> {}

(* The lifespan's refresh comes first, and leaves a cache behind.          *)
StartupFirst ==
    /\ at[startup] # "over" => \A r \in Sync : at[r] = "idle"
    /\ at[startup] = "over" <=> cache # NoCache
    /\ \A r \in Refresh : at[r] = "load" => cache = NoCache
    /\ \A r \in Refresh : at[r] = "reload" => cache # NoCache

(* A refresh that is about to show a list has one.                         *)
HasList == \A r \in Refresh : at[r] \in {"load", "reload"} => ListOf(read[r]) # NoList

(* The list shown is that of a refresh which is over.                      *)
ShowsLoader ==
    /\ Loaded => cache = Cache(cache.creator, ListOf(read[loader])) /\ at[loader] = "over"
    /\ cache # NoCache => cache.creator \in Refresh

(* A refresh reads nothing that is older than what was read when it began. *)
ReadsForward ==
    /\ \A r \in Refresh : \A o \in before[r] : at[o] = "over"
    /\ \A r \in Refresh : \A o \in before[r] : \A d \in ReadSoFar(at[r]) :
          read[o][d] <= read[r][d]

IInv == TypeOK /\ StartupFirst /\ HasList /\ ShowsLoader /\ ReadsForward

-----------------------------------------------------------------------------
LEMMA CacheIsThere ==
    ASSUME NEW r \in Refresh, NEW list
    PROVE  Cache(r, list) # NoCache
BY StockListAssumption DEF Cache, NoCache

LEMMA StartupIsRefresh ==
    startup \in Refresh /\ startup \notin Sync /\ Refresh = Sync \union {startup}
BY StockListAssumption DEF Refresh

(* Steps before a list is shown: cache and loader stay, one refresh moves. *)
LEMMA ReadingStep ==
    ASSUME IInv, TypeOK', NEW r \in Refresh,
           UNCHANGED <<cache, loader, before>>,
           NEW next \in {"en", "zh", "securities", "parse", "load", "reload"},
           at' = [at EXCEPT ![r] = next], at[r] # "over",
           at[r] # "idle" \/ r = startup \/ at[startup] = "over",
           next = "load" => cache = NoCache,
           next = "reload" => cache # NoCache,
           next \in {"load", "reload"} => ListOf(read'[r]) # NoList,
           \A o \in Refresh \ {r} : read'[o] = read[o],
           \A o \in before[r] : \A d \in ReadSoFar(next) : read[o][d] <= read'[r][d]
    PROVE  IInv'
<1>1. \A o \in Refresh \ {r} : at'[o] = at[o]
  BY DEF IInv, TypeOK
<1>2. at'[r] = next
  BY DEF IInv, TypeOK
<1>3. StartupFirst'
  <2>1. CASE r = startup
    BY <1>1, <1>2, <2>1, StartupIsRefresh DEF IInv, StartupFirst
  <2>2. CASE r # startup
    <3>1. at[startup] = "over" /\ at'[startup] = "over" /\ cache' # NoCache
      BY <1>1, <2>2, StartupIsRefresh DEF IInv, StartupFirst
    <3> QED  BY <1>1, <1>2, <3>1 DEF IInv, StartupFirst
  <2> QED  BY <2>1, <2>2
<1>4. HasList'
  BY <1>1, <1>2 DEF IInv, HasList
<1>5. ShowsLoader'
  BY <1>1 DEF IInv, TypeOK, ShowsLoader, Loaded
<1>6. ReadsForward'
  <2>1. \A q \in Refresh : before[q] \subseteq Refresh
    BY DEF IInv, TypeOK
  <2>2. \A q \in Refresh : r \notin before[q]
    BY DEF IInv, ReadsForward
  <2> QED  BY <1>1, <1>2, <2>1, <2>2 DEF IInv, ReadsForward
<1> QED  BY <1>3, <1>4, <1>5, <1>6 DEF IInv

(* The last step of a refresh, whether it shows a list or leaves the one   *)
(* before.                                                                 *)
LEMMA EndingStep ==
    ASSUME IInv, TypeOK', NEW r \in Refresh,
           UNCHANGED <<published, attempt, read, before>>,
           at' = [at EXCEPT ![r] = "over"],
           at[r] \notin {"idle", "over"},
           cache' # NoCache, ShowsLoader'
    PROVE  IInv'
<1>1. (\A o \in Refresh \ {r} : at'[o] = at[o]) /\ at'[r] = "over"
  BY DEF IInv, TypeOK
<1>2. StartupFirst'
  <2>1. at'[startup] = "over"
    BY <1>1, StartupIsRefresh DEF IInv, StartupFirst
  <2>2. \A o \in Refresh : at'[o] # "load" /\ (at'[o] = "reload" => cache' # NoCache)
    <3>1. ASSUME NEW o \in Refresh, at[o] = "load"  PROVE o = r
      BY <3>1, StartupIsRefresh DEF IInv, StartupFirst
    <3> QED  BY <1>1, <3>1
  <2> QED  BY <2>1, <2>2 DEF StartupFirst
<1>3. HasList'
  BY <1>1 DEF IInv, HasList
<1>4. ReadsForward'
  <2>1. \A o \in Refresh : at[o] = "over" => at'[o] = "over"
    BY <1>1
  <2>2. \A o \in Refresh : at[o] # "idle" => ReadSoFar(at'[o]) = ReadSoFar(at[o]) \/ o = r
    BY <1>1
  <2> QED  BY <1>1, <2>1, <2>2 DEF IInv, TypeOK, ReadsForward, ReadSoFar
<1> QED  BY <1>2, <1>3, <1>4 DEF IInv

-----------------------------------------------------------------------------
LEMMA BeginStep == ASSUME IInv, NEW r \in Refresh, Begin(r)  PROVE IInv'
<1>1. at[r] = "idle" /\ (r = startup \/ at[startup] = "over") /\ at' = [at EXCEPT ![r] = "en"]
      /\ before' = [before EXCEPT ![r] = Over]
      /\ UNCHANGED <<published, attempt, read, cache, loader, faults>>
  BY DEF Begin, At, To
<1>2. TypeOK'
  BY <1>1 DEF IInv, TypeOK, Await, Document, Over
<1>3. (\A o \in Refresh \ {r} : at'[o] = at[o] /\ before'[o] = before[o])
      /\ at'[r] = "en" /\ before'[r] = Over
  BY <1>1 DEF IInv, TypeOK
<1>4. StartupFirst'
  <2>1. CASE r = startup
    BY <1>1, <1>3, <2>1, StartupIsRefresh DEF IInv, StartupFirst
  <2>2. CASE r # startup
    <3>1. at[startup] = "over" /\ at'[startup] = "over" /\ cache' # NoCache
      BY <1>1, <1>3, <2>2, StartupIsRefresh DEF IInv, StartupFirst
    <3> QED  BY <1>1, <1>3, <3>1 DEF IInv, StartupFirst
  <2> QED  BY <2>1, <2>2
<1>5. HasList' /\ ShowsLoader'
  BY <1>1, <1>3 DEF IInv, TypeOK, HasList, ShowsLoader, Loaded
<1>6. ReadsForward'
  <2>1. \A q \in Refresh : \A o \in before'[q] : at'[o] = "over"
    BY <1>1, <1>3 DEF IInv, ReadsForward, TypeOK, Over
  <2>2. \A q \in Refresh : \A o \in before'[q] : \A d \in ReadSoFar(at'[q]) :
           read'[o][d] <= read'[q][d]
    BY <1>1, <1>3 DEF IInv, ReadsForward, ReadSoFar
  <2> QED  BY <2>1, <2>2 DEF ReadsForward
<1> QED  BY <1>2, <1>4, <1>5, <1>6 DEF IInv

(* What is read now was published at the time of any earlier reading.      *)
LEMMA GetStep == ASSUME IInv, NEW r \in Refresh, Get(r)  PROVE IInv'
<1>1. at[r] \in Document /\ at' = [at EXCEPT ![r] = Following[at[r]]]
      /\ read' = [read EXCEPT ![r][at[r]] = published]
      /\ attempt' = [attempt EXCEPT ![r] = 0]
      /\ UNCHANGED <<published, cache, loader, before, faults>>
  BY DEF Get, To
<1>2. at[r] \notin {"idle", "over"} /\ Following[at[r]] \in {"zh", "securities", "parse"}
  BY <1>1 DEF Document, Following
<1>3. read' \in [Refresh -> [Document -> 0..published]]
      /\ (\A o \in Refresh \ {r} : read'[o] = read[o])
      /\ read'[r] = [read[r] EXCEPT ![at[r]] = published]
  <2>1. published \in 0..published /\ read \in [Refresh -> [Document -> 0..published]]
    BY StockListAssumption DEF IInv, TypeOK
  <2>2. [read[r] EXCEPT ![at[r]] = published] \in [Document -> 0..published]
    BY <1>1, <2>1
  <2>3. read' = [read EXCEPT ![r] = [read[r] EXCEPT ![at[r]] = published]]
    BY <1>1
  <2> HIDE DEF Document
  <2> QED  BY <2>1, <2>2, <2>3
<1>4. TypeOK'
  <2>1. at' \in [Refresh -> Await]
    BY <1>1, <1>2 DEF IInv, TypeOK, Await, Document
  <2>2. attempt' \in [Refresh -> 0..CONNECT_RETRIES]
    BY <1>1, StockListAssumption DEF IInv, TypeOK
  <2> QED  BY <1>1, <1>3, <2>1, <2>2 DEF IInv, TypeOK
<1>5. \A o \in before[r] : \A d \in ReadSoFar(Following[at[r]]) : read[o][d] <= read'[r][d]
  <2> SUFFICES ASSUME NEW o \in before[r], NEW d \in ReadSoFar(Following[at[r]])
               PROVE  read[o][d] <= read'[r][d]
    OBVIOUS
  <2>1. o \in Refresh /\ d \in Document
    BY <1>2 DEF IInv, TypeOK, ReadSoFar, Document
  <2>2. read[o][d] \in 0..published /\ published \in Nat
    BY <2>1, StockListAssumption DEF IInv, TypeOK
  <2>3. CASE d = at[r]
    BY <1>3, <2>1, <2>2, <2>3 DEF IInv, TypeOK
  <2>4. CASE d # at[r]
    <3>1. d \in ReadSoFar(at[r])
      BY <1>1, <2>4 DEF ReadSoFar, Following, Document
    <3>2. read'[r][d] = read[r][d]
      BY <1>3, <2>1, <2>4 DEF IInv, TypeOK
    <3> QED  BY <3>1, <3>2 DEF IInv, ReadsForward
  <2> QED  BY <2>3, <2>4
<1> QED  BY <1>1, <1>2, <1>3, <1>4, <1>5, ReadingStep

LEMMA ParseStep == ASSUME IInv, NEW r \in Refresh, Parse(r)  PROVE IInv'
<1>1. at[r] = "parse" /\ ListOf(read[r]) # NoList
      /\ at' = [at EXCEPT ![r] = IF cache = NoCache THEN "load" ELSE "reload"]
      /\ UNCHANGED <<published, attempt, read, cache, loader, before, faults>>
  BY DEF Parse, At, To
<1>2. TypeOK'
  BY <1>1 DEF IInv, TypeOK, Await
<1>3. \A o \in before[r] : \A d \in Document : read[o][d] <= read[r][d]
  BY <1>1 DEF IInv, ReadsForward, ReadSoFar
<1>4. ReadSoFar("load") = Document /\ ReadSoFar("reload") = Document
  BY DEF ReadSoFar
<1>5. CASE cache = NoCache
  BY <1>1, <1>2, <1>3, <1>4, <1>5, ReadingStep
<1>6. CASE cache # NoCache
  BY <1>1, <1>2, <1>3, <1>4, <1>6, ReadingStep
<1> QED  BY <1>5, <1>6

LEMMA ConnectFailsStep == ASSUME IInv, NEW r \in Refresh, ConnectFails(r)  PROVE IInv'
<1>1. UNCHANGED <<published, at, read, cache, loader, before>>
  BY DEF ConnectFails
<1>2. TypeOK'
  BY <1>1, StockListAssumption DEF ConnectFails, Fault, IInv, TypeOK
<1> QED
  BY <1>1, <1>2 DEF IInv, StartupFirst, HasList, ShowsLoader, Loaded, ReadsForward

LEMMA PublishStep == ASSUME IInv, Publish  PROVE IInv'
<1>1. published' = published + 1 /\ published < Len(Publication)
      /\ UNCHANGED <<at, attempt, read, cache, loader, before, faults>>
  BY DEF Publish
<1>2. TypeOK'
  <2>1. published \in Nat /\ published' \in 1..Len(Publication)
    BY <1>1, StockListAssumption DEF IInv, TypeOK
  <2>2. 0..published \subseteq 0..published'
    BY <1>1, <2>1
  <2> QED  BY <1>1, <2>1, <2>2 DEF IInv, TypeOK
<1> QED
  BY <1>1, <1>2 DEF IInv, StartupFirst, HasList, ShowsLoader, Loaded, ReadsForward

LEMMA FailsStep ==
    ASSUME IInv, NEW r \in Refresh, GetFails(r) \/ ParseFails(r)
    PROVE  IInv' /\ loader' = loader /\ read' = read
           /\ cache' = IF cache = NoCache THEN Cache(r, NoList) ELSE cache
<1>1. /\ at[r] \in Document \union {"parse"} /\ at' = [at EXCEPT ![r] = "over"]
      /\ cache' = IF cache = NoCache THEN Cache(r, NoList) ELSE cache
      /\ UNCHANGED <<published, attempt, read, loader, before>>
      /\ faults' \in {faults, faults + 1} /\ (faults' = faults \/ faults < MaxFetchFaults)
  BY DEF GetFails, ParseFails, Fails, Fault, At, To
<1>2. TypeOK'
  BY <1>1, StockListAssumption DEF IInv, TypeOK, Await
<1>3. at[r] \notin {"idle", "over"}
  BY <1>1 DEF Document
<1>4. cache' # NoCache
  BY <1>1, CacheIsThere
<1>5. ShowsLoader'
  <2>1. CASE cache = NoCache
    BY <1>1, <2>1 DEF ShowsLoader, Loaded, Cache
  <2>2. CASE cache # NoCache
    BY <1>1, <2>2 DEF IInv, TypeOK, ShowsLoader, Loaded
  <2> QED  BY <2>1, <2>2
<1> QED  BY <1>1, <1>2, <1>3, <1>4, <1>5, EndingStep

LEMMA ShowStep ==
    ASSUME IInv, NEW r \in Refresh, Load(r) \/ Reload(r)
    PROVE  IInv' /\ loader' = r /\ read' = read /\ at[r] \in {"load", "reload"}
           /\ cache' # NoCache /\ cache'.entries = ListOf(read[r])
           /\ (cache # NoCache => cache'.creator = cache.creator)
<1>1. /\ at[r] \in {"load", "reload"} /\ at' = [at EXCEPT ![r] = "over"] /\ loader' = r
      /\ UNCHANGED <<published, attempt, read, before, faults>>
  BY DEF Load, Reload, At, To
<1>2. PICK creator \in Refresh :
        /\ cache' = Cache(creator, ListOf(read[r]))
        /\ cache # NoCache => creator = cache.creator
  <2>1. CASE Load(r)
    BY <2>1 DEF Load, At, IInv, StartupFirst
  <2>2. CASE Reload(r)
    <3>1. cache # NoCache
      BY <2>2, StartupIsRefresh DEF Reload, At, IInv, StartupFirst
    <3> QED  BY <2>2, <3>1 DEF Reload, IInv, ShowsLoader
  <2> QED  BY <2>1, <2>2
<1>3. TypeOK'
  BY <1>1 DEF IInv, TypeOK, Await
<1>4. cache' # NoCache
  BY <1>2, CacheIsThere
<1>5. ShowsLoader'
  BY <1>1, <1>2 DEF IInv, TypeOK, ShowsLoader, Loaded, Cache
<1>6. IInv'
  BY <1>1, <1>3, <1>4, <1>5, EndingStep
<1> QED  BY <1>1, <1>2, <1>4, <1>6 DEF Cache

-----------------------------------------------------------------------------
LEMMA InitIInv == Init => IInv
<1> SUFFICES ASSUME Init  PROVE IInv
  OBVIOUS
<1>1. TypeOK
  BY StockListAssumption DEF Init, TypeOK, Await, Refresh
<1>2. StartupFirst /\ HasList /\ ShowsLoader /\ ReadsForward
  BY StartupIsRefresh DEF Init, StartupFirst, HasList, ShowsLoader, ReadsForward, Loaded
<1> QED  BY <1>1, <1>2 DEF IInv

LEMMA NextIInv == IInv /\ [Next]_vars => IInv'
<1> SUFFICES ASSUME IInv, [Next]_vars  PROVE IInv'
  OBVIOUS
<1>1. ASSUME NEW r \in Refresh, Step(r)  PROVE IInv'
  BY <1>1, BeginStep, GetStep, ConnectFailsStep, FailsStep, ParseStep, ShowStep DEF Step
<1>2. CASE UNCHANGED vars
  BY <1>2 DEF vars, IInv, TypeOK, StartupFirst, HasList, ShowsLoader, Loaded, ReadsForward
<1> QED  BY <1>1, <1>2, PublishStep DEF Next

LEMMA Invariance == Spec => []IInv
BY InitIInv, NextIInv, PTL DEF Spec

-----------------------------------------------------------------------------
(* For any number of refreshes, publications and failures: a search never  *)
(* sees the entries of one refresh with the index of another               *)
(* (_load_hk_stock_list).                                                  *)
THEOREM OneRefreshIsShown == Spec => []ShowsOneRefresh
<1>1. IInv => ShowsOneRefresh
  BY DEF IInv, ShowsLoader, ShowsOneRefresh
<1> QED  BY <1>1, Invariance, PTL

(* The list goes back in time only when two refreshes overlap.             *)
THEOREM OlderNeedsOverlap == Spec => OlderOnlyByOverlap
<1>1. IInv /\ [Next]_vars =>
        [LET new == loader'
         IN  loader \in before[new] => \A d \in Document : read[loader][d] <= read[new][d]]_vars
  <2> SUFFICES ASSUME IInv, Next, loader \in before[loader'], NEW d \in Document
               PROVE  read[loader][d] <= read[loader'][d]
    OBVIOUS
  <2>1. PICK r \in Refresh : Load(r) \/ Reload(r) \/ loader' = loader
    BY FailsStep, StartupIsRefresh DEF Next, Step, Publish, Begin, Get, ConnectFails, Parse
  <2>2. CASE Load(r) \/ Reload(r)
    <3>1. loader' = r /\ at[r] \in {"load", "reload"}
      BY <2>2, ShowStep
    <3> QED  BY <3>1 DEF IInv, ReadsForward, ReadSoFar
  <2>3. CASE loader' = loader
    BY <2>3, StockListAssumption DEF IInv, TypeOK
  <2> QED  BY <2>1, <2>2, <2>3
<1> QED  BY <1>1, Invariance, PTL DEF Spec, OlderOnlyByOverlap

(* A refresh that fails takes no list away, and there is one cache for the *)
(* life of the process: who took it before an await sees every later list. *)
THEOREM ListIsKept == Spec => StaysLoaded /\ OneCache
<1>1. IInv /\ [Next]_vars => [Loaded => Loaded']_vars
                             /\ [cache # NoCache => cache'.creator = cache.creator]_vars
  <2> SUFFICES ASSUME IInv, Next, cache # NoCache
               PROVE  (Loaded => Loaded') /\ cache'.creator = cache.creator
    BY DEF Loaded
  <2>1. CASE cache' = cache
    BY <2>1 DEF Loaded
  <2>2. ASSUME NEW r \in Refresh, GetFails(r) \/ ParseFails(r)
        PROVE  cache' = cache
    BY <2>2, FailsStep
  <2>3. ASSUME NEW r \in Refresh, Load(r) \/ Reload(r)
        PROVE  (Loaded => Loaded') /\ cache'.creator = cache.creator
    BY <2>3, ShowStep DEF Loaded, IInv, HasList
  <2> QED  BY <2>1, <2>2, <2>3 DEF Next, Step, Publish, Begin, Get, ConnectFails, Parse
<1> QED  BY <1>1, Invariance, PTL DEF Spec, StaysLoaded, OneCache

-----------------------------------------------------------------------------
(* A refresh reads its documents one after the other, so they are of       *)
(* publications in this order.                                             *)
InOrder(docs) == 1 <= docs.en /\ docs.en <= docs.zh /\ docs.zh <= docs.securities

OrderInv ==
    /\ \A r \in Refresh :
         /\ at[r] \in {"zh", "securities"} => 1 <= read[r].en
         /\ at[r] = "securities" => read[r].en <= read[r].zh
         /\ at[r] \in {"parse", "load", "reload"} => InOrder(read[r])
    /\ Loaded => InOrder(read[loader])

LEMMA GetInOrder ==
    ASSUME IInv, OrderInv, NEW r \in Refresh, Get(r)
    PROVE  OrderInv'
<1>1. /\ at[r] \in Document /\ at' = [at EXCEPT ![r] = Following[at[r]]]
      /\ read' = [read EXCEPT ![r][at[r]] = published]
      /\ UNCHANGED <<cache, loader>>
  BY DEF Get, To
<1>2. /\ read \in [Refresh -> [Document -> 0..published]] /\ published \in Nat /\ 1 <= published
      /\ at \in [Refresh -> Await]
  BY StockListAssumption DEF IInv, TypeOK
<1>3. /\ \A o \in Refresh : o # r => read'[o] = read[o] /\ at'[o] = at[o]
      /\ read'[r] = [read[r] EXCEPT ![at[r]] = published] /\ at'[r] = Following[at[r]]
  BY <1>1, <1>2
<1>4. read[r] \in [Document -> 0..published]
  BY <1>2
<1>5. \A d \in Document : read'[r][d] = IF d = at[r] THEN published ELSE read[r][d]
  BY <1>3, <1>4
<1>6. /\ at'[r] \in {"zh", "securities"} => 1 <= read'[r].en
      /\ at'[r] = "securities" => read'[r].en <= read'[r].zh
      /\ at'[r] \in {"parse", "load", "reload"} => InOrder(read'[r])
  <2>1. CASE at[r] = "en"
    <3>1. at'[r] = "zh" /\ read'[r].en = published
      BY <1>3, <1>5, <2>1 DEF Following, Document
    <3> QED  BY <1>2, <3>1
  <2>2. CASE at[r] = "zh"
    <3>1. /\ at'[r] = "securities" /\ read'[r].zh = published /\ read'[r].en = read[r].en
          /\ read[r].en \in 0..published /\ 1 <= read[r].en
      BY <1>3, <1>4, <1>5, <2>2 DEF Following, Document, OrderInv
    <3> QED  BY <1>2, <3>1
  <2>3. CASE at[r] = "securities"
    <3>1. /\ at'[r] = "parse" /\ read'[r].securities = published
          /\ read'[r].zh = read[r].zh /\ read'[r].en = read[r].en
          /\ read[r].en \in 0..published /\ read[r].zh \in 0..published
          /\ 1 <= read[r].en /\ read[r].en <= read[r].zh
      BY <1>3, <1>4, <1>5, <2>3 DEF Following, Document, OrderInv
    <3> QED  BY <1>2, <3>1 DEF InOrder
  <2> QED  BY <1>1, <2>1, <2>2, <2>3 DEF Document
<1>7. Loaded' => InOrder(read'[loader'])
  <2> SUFFICES ASSUME Loaded' PROVE InOrder(read'[loader'])
    OBVIOUS
  <2>1. Loaded /\ loader' = loader
    BY <1>1 DEF Loaded
  <2>2. loader \in Refresh /\ loader # r
    BY <1>1, <2>1 DEF IInv, ShowsLoader, TypeOK, Document
  <2> QED  BY <1>3, <2>1, <2>2 DEF OrderInv
<1> QED  BY <1>3, <1>6, <1>7 DEF OrderInv

LEMMA OrderInductive == IInv /\ OrderInv /\ [Next]_vars => OrderInv'
<1> SUFFICES ASSUME IInv, OrderInv, [Next]_vars PROVE OrderInv'
  OBVIOUS
<1>1. ASSUME NEW r \in Refresh, Begin(r) PROVE OrderInv'
  <2>1. at' = [at EXCEPT ![r] = "en"] /\ UNCHANGED <<read, cache, loader>>
    BY <1>1 DEF Begin, To
  <2> QED  BY <2>1 DEF IInv, TypeOK, OrderInv, Loaded
<1>2. ASSUME NEW r \in Refresh, GetFails(r) \/ ParseFails(r) PROVE OrderInv'
  <2>1. at' = [at EXCEPT ![r] = "over"]
    BY <1>2 DEF GetFails, ParseFails, Fails, To
  <2>2. /\ loader' = loader /\ read' = read
        /\ cache' = IF cache = NoCache THEN Cache(r, NoList) ELSE cache
    BY <1>2, FailsStep
  <2>3. Loaded' => Loaded
    BY <2>2 DEF Loaded, Cache
  <2> QED  BY <2>1, <2>2, <2>3 DEF IInv, TypeOK, OrderInv
<1>3. ASSUME NEW r \in Refresh, Parse(r) PROVE OrderInv'
  <2>1. /\ at[r] = "parse" /\ UNCHANGED <<read, cache, loader>>
        /\ at' = [at EXCEPT ![r] = IF cache = NoCache THEN "load" ELSE "reload"]
    BY <1>3 DEF Parse, At, To
  <2>2. InOrder(read[r]) /\ at'[r] \in {"load", "reload"}
    BY <2>1 DEF OrderInv, IInv, TypeOK
  <2>3. \A o \in Refresh : o # r => at'[o] = at[o]
    BY <2>1 DEF IInv, TypeOK
  <2> QED  BY <2>1, <2>2, <2>3 DEF OrderInv, Loaded
<1>4. ASSUME NEW r \in Refresh, Load(r) \/ Reload(r) PROVE OrderInv'
  <2>1. at' = [at EXCEPT ![r] = "over"]
    BY <1>4 DEF Load, Reload, To
  <2>2. loader' = r /\ read' = read /\ at[r] \in {"load", "reload"}
    BY <1>4, ShowStep
  <2> QED  BY <2>1, <2>2 DEF IInv, TypeOK, OrderInv
<1>5. CASE Publish \/ UNCHANGED vars \/ \E r \in Refresh : ConnectFails(r)
  BY <1>5 DEF Publish, vars, ConnectFails, OrderInv, Loaded
<1> QED  BY <1>1, <1>2, <1>3, <1>4, <1>5, GetInOrder DEF Next, Step

(* A code listed under a name has the name in the document it is in.       *)
LEMMA Named == \A names, code : NameIn(names, code) # NoName => code \in DOMAIN names
BY DEF NameIn

(* What a list made of three documents holds of the publications from the  *)
(* one that the first is of to the one that the last is of.                *)
LEMMA ListIsOfItsSpan ==
    ASSUME NEW docs \in [Document -> 0..Len(Publication)], InOrder(docs)
    PROVE  LET span == {Publication[i] : i \in docs.en..docs.securities}
               list == ListOf(docs)
               Stays(code) == \A p, o \in span :
                  Listed(p, code) /\ NameIn(p.en, code) = NameIn(o.en, code)
                                  /\ NameIn(p.zh, code) = NameIn(o.zh, code)
           IN  /\ \A code \in DOMAIN list : \E p \in span : code \in p.equities
               /\ \A p \in span : \A code \in p.equities :
                     Stays(code) /\ ~ is_extra_counter(code, NameIn(p.zh, code), NameIn(p.en, code))
                        => /\ code \in DOMAIN list
                           /\ list[code] = [zh |-> NameIn(p.zh, code), en |-> NameIn(p.en, code)]
<1> DEFINE span == {Publication[i] : i \in docs.en..docs.securities}
           list == ListOf(docs)
           first == Publication[docs.en]
           second == Publication[docs.zh]
           third == Publication[docs.securities]
<1>1. first \in span /\ second \in span /\ third \in span
  <2>1. /\ docs.en \in Nat /\ docs.zh \in Nat /\ docs.securities \in Nat
        /\ docs.en <= docs.zh /\ docs.zh <= docs.securities
    BY StockListAssumption DEF Document, InOrder
  <2>2. /\ docs.en \in docs.en..docs.securities /\ docs.zh \in docs.en..docs.securities
        /\ docs.securities \in docs.en..docs.securities
    BY <2>1
  <2> QED  BY <2>2
<1>2. list = parse_hk_stock_list(first.en, second.zh, third.equities)
  BY DEF ListOf
<1> HIDE DEF list, first, second, third, span
<1>3. DOMAIN list = {c \in third.equities \intersect (DOMAIN first.en \union DOMAIN second.zh) :
                       ~ is_extra_counter(c, NameIn(second.zh, c), NameIn(first.en, c))}
  BY <1>2 DEF parse_hk_stock_list
<1>4. \A code \in DOMAIN list :
        list[code] = [zh |-> NameIn(second.zh, code), en |-> NameIn(first.en, code)]
  BY <1>2 DEF parse_hk_stock_list
<1>5. \A code \in DOMAIN list : \E p \in span : code \in p.equities
  BY <1>1, <1>3
<1>6. ASSUME NEW p \in span, NEW code \in p.equities,
             \A q, o \in span : Listed(q, code) /\ NameIn(q.en, code) = NameIn(o.en, code)
                                               /\ NameIn(q.zh, code) = NameIn(o.zh, code),
             ~ is_extra_counter(code, NameIn(p.zh, code), NameIn(p.en, code))
      PROVE  /\ code \in DOMAIN list
             /\ list[code] = [zh |-> NameIn(p.zh, code), en |-> NameIn(p.en, code)]
  <2>1. /\ NameIn(first.en, code) = NameIn(p.en, code)
        /\ NameIn(second.zh, code) = NameIn(p.zh, code)
        /\ Listed(p, code) /\ Listed(third, code)
    BY <1>1, <1>6
  <2>2. code \in DOMAIN first.en \union DOMAIN second.zh
    BY <2>1, Named DEF Listed
  <2>3. code \in DOMAIN list
    BY <1>3, <1>6, <2>1, <2>2 DEF Listed
  <2> QED  BY <1>4, <2>1, <2>3
<1> QED  BY <1>5, <1>6 DEF span, list

(* What is shown is what HKEX listed while the refresh read it, however    *)
(* the publications of the three documents differ and whatever refreshes   *)
(* overlap (_parse_hk_stock_list, refresh_hk_stock_list).                  *)
THEOREM ListIsAsPublished == Spec => []LoadedAsPublished
<1>1. Init => OrderInv
  BY DEF Init, OrderInv, Loaded, NoCache, Cache
<1>2. IInv /\ OrderInv => LoadedAsPublished
  <2> SUFFICES ASSUME IInv, OrderInv, Loaded PROVE LoadedAsPublished
    BY DEF LoadedAsPublished
  <2>1. cache.entries = ListOf(read[loader]) /\ InOrder(read[loader]) /\ loader \in Refresh
    BY DEF IInv, ShowsLoader, OrderInv, Cache, TypeOK
  <2>2. read[loader] \in [Document -> 0..Len(Publication)]
    <3>1. read[loader] \in [Document -> 0..published] /\ published \in 1..Len(Publication)
      BY <2>1 DEF IInv, TypeOK
    <3>2. 0..published \subseteq 0..Len(Publication)
      BY <3>1, StockListAssumption
    <3> QED  BY <3>1, <3>2
  <2> QED  BY <2>1, <2>2, ListIsOfItsSpan DEF LoadedAsPublished
<1> QED  BY <1>1, <1>2, OrderInductive, Invariance, PTL DEF Spec

-----------------------------------------------------------------------------
(* Every set of natural numbers that is not empty has a least one.  *)
LEMMA LeastNumber ==
    ASSUME NEW T \in SUBSET Nat, T # {}
    PROVE  \E k \in T : \A m \in T : k <= m
<1> DEFINE R == OpToRel(<, Nat)
<1>1. IsWellFoundedOn(R, Nat)
  BY NatLessThanWellFounded, Zenon
<1>2. \A x, y \in Nat : <<x, y>> \in R <=> x < y
  BY DEF OpToRel
<1> HIDE DEF R
<1>3. PICK k \in T : \A y \in T : ~ (<<y, k>> \in R)
  BY <1>1, WFMin
<1>4. ASSUME NEW m \in T PROVE k <= m
  <2>1. k \in Nat /\ m \in Nat
    OBVIOUS
  <2>2. ~ (m < k)
    BY <1>2, <1>3, <2>1
  <2> QED  BY <2>1, <2>2
<1> QED  BY <1>4

(* A recursion over an interval, given as the function that makes each     *)
(* value from the one before, has a solution.                              *)
IsStep(step, n, S) == step \in [(1..n) \X S -> S]
Solves(g, n, S, base, step) ==
    /\ g \in [0..n -> S]
    /\ g[0] = base
    /\ \A i \in 1..n : g[i] = step[<<i, g[i - 1]>>]

LEMMA RecursionOnInterval ==
    ASSUME NEW n, NEW S, NEW base, NEW step, n \in Nat, base \in S, IsStep(step, n, S)
    PROVE  \E g : Solves(g, n, S, base, step)
<1> USE DEF IsStep
<1> DEFINE Built(k) == \E g \in [0..k -> S] : g[0] = base /\ \A i \in 1..k : g[i] = step[<<i, g[i - 1]>>]
           T == {k \in 0..n : ~ Built(k)}
<1>1. Built(0)
  <2> DEFINE g == [i \in 0..0 |-> base]
  <2>1. g \in [0..0 -> S] /\ g[0] = base
    OBVIOUS
  <2>2. \A i \in 1..0 : g[i] = step[<<i, g[i - 1]>>]
    OBVIOUS
  <2> HIDE DEF g
  <2> QED  BY <2>1, <2>2
<1>2. ASSUME NEW k \in 1..n, Built(k - 1)  PROVE Built(k)
  <2>1. PICK g \in [0..k - 1 -> S] : g[0] = base /\ \A i \in 1..k - 1 : g[i] = step[<<i, g[i - 1]>>]
    BY <1>2
  <2> DEFINE h == [i \in 0..k |-> IF i = k THEN step[<<k, g[k - 1]>>] ELSE g[i]]
  <2>2. k - 1 \in 0..k - 1 /\ g[k - 1] \in S /\ step[<<k, g[k - 1]>>] \in S
    BY <1>2, <2>1
  <2>3. h \in [0..k -> S]
    BY <2>1, <2>2
  <2>4. h[0] = base
    BY <2>1, <1>2
  <2>5. ASSUME NEW i \in 1..k PROVE h[i] = step[<<i, h[i - 1]>>]
    <3>1. CASE i = k
      <4>1. i \in 0..k /\ i - 1 \in 0..k /\ i - 1 # k /\ i - 1 = k - 1
        BY <1>2, <3>1
      <4>2. h[i] = step[<<k, g[k - 1]>>] /\ h[i - 1] = g[k - 1]
        BY <3>1, <4>1
      <4> QED  BY <3>1, <4>2
    <3>2. CASE i # k
      <4>1. i \in 1..k - 1 /\ i - 1 \in 0..k - 1 /\ i - 1 # k
        BY <3>2
      <4> QED  BY <2>1, <3>2, <4>1
    <3> QED  BY <3>1, <3>2
  <2> QED  BY <2>3, <2>4, <2>5
<1> HIDE DEF Built
<1>3. T = {}
  <2> SUFFICES ASSUME T # {} PROVE FALSE
    OBVIOUS
  <2>1. T \in SUBSET Nat
    OBVIOUS
  <2> HIDE DEF T
  <2>2. PICK k \in T : \A m \in T : k <= m
    BY <2>1, LeastNumber
  <2> USE DEF T
  <2>3. k # 0 /\ k - 1 \in 0..n /\ k - 1 \notin T /\ k \in 1..n
    BY <1>1, <2>2
  <2> QED  BY <1>2, <2>2, <2>3
<1>4. Built(n)
  BY <1>3
<1> QED  BY <1>4 DEF Built, Solves

(* The least and the greatest element of a set of numbers.                 *)
LEMMA MinOf ==
    ASSUME NEW T \in SUBSET Nat, T # {}
    PROVE  Min(T) \in T /\ \A m \in T : Min(T) <= m
BY LeastNumber DEF Min

LEMMA MaxOf ==
    ASSUME NEW n \in Nat, NEW T \in SUBSET (0..n), T # {}
    PROVE  Max(T) \in T /\ \A m \in T : m <= Max(T)
<1> DEFINE U == {m \in 0..n : n - m \in T}
<1>1. U \in SUBSET Nat /\ U # {}
  <2>1. PICK m \in T : TRUE
    OBVIOUS
  <2>2. n - m \in 0..n /\ n - (n - m) = m
    OBVIOUS
  <2> QED  BY <2>1, <2>2
<1>2. PICK k \in U : \A m \in U : k <= m
  BY <1>1, LeastNumber
<1>3. ASSUME NEW m \in T  PROVE n - k >= m
  <2>1. n - m \in 0..n /\ n - (n - m) = m
    OBVIOUS
  <2>2. n - m \in U
    BY <2>1
  <2>3. k <= n - m /\ k \in 0..n
    BY <1>2, <2>2
  <2> QED  BY <2>3
<1>4. n - k \in T
  OBVIOUS
<1>5. \E x \in T : \A y \in T : x >= y
  BY <1>3, <1>4
<1>6. Max(T) \in T /\ \A y \in T : Max(T) >= y
  BY <1>5 DEF Max
<1> QED  BY <1>6

(* A transitive order without cycles has a maximal element in every finite *)
(* set that is not empty.                                                  *)
LEMMA FiniteMaximal ==
    ASSUME NEW S, IsFiniteSet(S), S # {}, NEW above,
           \A x \in S : <<x, x>> \notin above,
           \A x, y, z \in S : <<x, y>> \in above /\ <<y, z>> \in above => <<x, z>> \in above
    PROVE  \E x \in S : \A y \in S : <<y, x>> \notin above
<1> DEFINE HasTop(U) == \E x \in U : \A y \in U : <<y, x>> \notin above
           T == {n \in Nat : \E U \in SUBSET S : U # {} /\ Cardinality(U) = n /\ ~ HasTop(U)}
<1>1. CASE T = {}
  <2>1. Cardinality(S) \in Nat
    BY FS_CardinalityType
  <2>2. HasTop(S)
    BY <1>1, <2>1
  <2> QED  BY <2>2
<1>2. CASE T # {}
  <2>1. PICK n \in T : \A m \in T : n <= m
    <3> HIDE DEF HasTop
    <3>1. T \in SUBSET Nat
      OBVIOUS
    <3> HIDE DEF T
    <3> QED  BY <1>2, <3>1, LeastNumber
  <2>2. PICK U \in SUBSET S : U # {} /\ Cardinality(U) = n /\ ~ HasTop(U)
    OBVIOUS
  <2>3. PICK x \in U : TRUE
    BY <2>2
  <2>4. PICK y \in U : <<y, x>> \in above
    BY <2>2, <2>3
  <2>5. IsFiniteSet(U) /\ IsFiniteSet(U \ {x}) /\ Cardinality(U \ {x}) = Cardinality(U) - 1
    BY FS_Subset, FS_RemoveElement
  <2>6. Cardinality(U \ {x}) \notin T
    <3>1. Cardinality(U \ {x}) < n /\ n \in Nat
      BY <2>2, <2>5
    <3>2. Cardinality(U \ {x}) \in Nat
      BY <2>5, FS_CardinalityType
    <3> HIDE DEF T
    <3> QED  BY <2>1, <3>1, <3>2
  <2>7. y \in U \ {x}
    BY <2>4
  <2>8. HasTop(U \ {x})
    <3>1. Cardinality(U \ {x}) \in Nat
      BY <2>5, FS_CardinalityType
    <3>2. U \ {x} \in SUBSET S /\ U \ {x} # {}
      BY <2>7
    <3> HIDE DEF HasTop
    <3> QED  BY <2>6, <3>1, <3>2
  <2>9. PICK m \in U \ {x} : \A z \in U \ {x} : <<z, m>> \notin above
    BY <2>8
  <2>10. <<x, m>> \notin above
    BY <2>4, <2>7, <2>9
  <2>11. HasTop(U)
    BY <2>9, <2>10
  <2> QED  BY <2>2, <2>11
<1> QED  BY <1>1, <1>2

-----------------------------------------------------------------------------
(* How many of a set of places are not after one of them.                  *)
Rank(places, p) == Cardinality({o \in places : o <= p})

(* A place has a rank, and the first and the last have the extremes.       *)
LEMMA RankInRange ==
    ASSUME NEW n \in Nat, NEW places \in SUBSET (1..n), NEW p \in places
    PROVE  /\ IsFiniteSet(places) /\ Cardinality(places) \in Nat
           /\ Rank(places, p) \in 1..Cardinality(places)
<1> DEFINE low == {o \in places : o <= p}
<1>1. IsFiniteSet(places) /\ Cardinality(places) \in Nat
  <2>1. IsFiniteSet(1..n)
    BY FS_Interval
  <2> QED  BY <2>1, FS_Subset, FS_CardinalityType
<1>2. low \in SUBSET places /\ p \in low
  OBVIOUS
<1> HIDE DEF low
<1>3. IsFiniteSet(low) /\ Cardinality(low) \in Nat /\ Cardinality(low) <= Cardinality(places)
      /\ Cardinality(low) # 0
  BY <1>1, <1>2, FS_Subset, FS_CardinalityType, FS_EmptySet
<1> QED  BY <1>1, <1>3 DEF Rank, low

(* Later places have higher ranks.                                         *)
LEMMA RankGrows ==
    ASSUME NEW n \in Nat, NEW places \in SUBSET (1..n), NEW p \in places, NEW q \in places, p < q
    PROVE  Rank(places, p) < Rank(places, q)
<1> DEFINE low(x) == {o \in places : o <= x}
<1>1. low(p) \in SUBSET low(q) /\ q \in low(q) /\ q \notin low(p)
  <2>1. \A o \in places : o \in Nat
    OBVIOUS
  <2>2. \A o \in places : (o <= p => o <= q) /\ q <= q /\ ~ (q <= p)
    BY <2>1
  <2> QED  BY <2>2
<1>2. IsFiniteSet(low(q)) /\ IsFiniteSet(low(p))
  <2>1. low(q) \in SUBSET places /\ low(p) \in SUBSET places
    OBVIOUS
  <2> HIDE DEF low
  <2> QED  BY <2>1, RankInRange, FS_Subset
<1> HIDE DEF low
<1>3. Cardinality(low(p)) \in Nat /\ Cardinality(low(q)) \in Nat
      /\ Cardinality(low(p)) <= Cardinality(low(q)) /\ Cardinality(low(q)) # Cardinality(low(p))
  BY <1>1, <1>2, FS_Subset, FS_CardinalityType
<1>4. Cardinality(low(p)) < Cardinality(low(q))
  BY <1>3
<1> QED  BY <1>4 DEF Rank, low

LEMMA RankOfFirst ==
    ASSUME NEW n \in Nat, NEW places \in SUBSET (1..n), NEW p \in places, Rank(places, p) = 1,
           NEW o \in places
    PROVE  p <= o
<1> SUFFICES ASSUME o < p  PROVE FALSE
  OBVIOUS
<1>1. Rank(places, o) < 1
  BY RankGrows
<1>2. Rank(places, o) \in 1..Cardinality(places) /\ Cardinality(places) \in Nat
  BY RankInRange
<1> QED  BY <1>1, <1>2

LEMMA RankOfLast ==
    ASSUME NEW n \in Nat, NEW places \in SUBSET (1..n), NEW p \in places,
           \A o \in places : o <= p
    PROVE  Rank(places, p) = Cardinality(places)
<1>1. {o \in places : o <= p} = places
  OBVIOUS
<1> QED  BY <1>1 DEF Rank

(* Every rank has a place: the one of the rank before, and so all ranks.   *)
LEMMA RankBefore ==
    ASSUME NEW n \in Nat, NEW places \in SUBSET (1..n), NEW p \in places, Rank(places, p) > 1
    PROVE  \E q \in places : q < p /\ Rank(places, q) = Rank(places, p) - 1
<1> DEFINE low == {o \in places : o <= p}
           less == low \ {p}
<1>1. IsFiniteSet(low) /\ p \in low
  <2>1. low \in SUBSET places /\ p \in low
    OBVIOUS
  <2> HIDE DEF low
  <2> QED  BY <2>1, RankInRange, FS_Subset
<1>2. IsFiniteSet(less) /\ Cardinality(less) = Rank(places, p) - 1
  <2>1. Cardinality(low) = Rank(places, p)
    BY DEF Rank
  <2> HIDE DEF low
  <2> QED  BY <1>1, <2>1, FS_RemoveElement
<1>3. less # {}
  <2>1. Cardinality(less) # 0
    BY <1>2, RankInRange
  <2> HIDE DEF less
  <2> QED  BY <2>1, FS_EmptySet
<1>4. less \in SUBSET (0..n)
  <2>1. less \subseteq places
    OBVIOUS
  <2>2. 1..n \subseteq 0..n
    OBVIOUS
  <2> HIDE DEF less
  <2> QED  BY <2>1, <2>2
<1> HIDE DEF less
<1>5. Max(less) \in less /\ \A m \in less : m <= Max(less)
  BY <1>3, <1>4, MaxOf
<1>6. PICK q \in less : \A m \in less : m <= q
  BY <1>5
<1>7. q \in places /\ q < p /\ {o \in places : o <= q} = less
  <2>1. \A o \in places : o \in Nat
    OBVIOUS
  <2>2. \A o \in places : (o <= p /\ o # p) <=> o < p
    BY <2>1
  <2>3. less = {o \in places : o < p}
    BY <2>2 DEF less
  <2>4. \A o \in places : o <= q => o < p
    BY <1>6, <2>1, <2>3
  <2>5. q \in places /\ q < p
    BY <1>6, <2>3
  <2>6. \A o \in places : o < p => o <= q
    BY <1>6, <2>3
  <2> QED  BY <2>3, <2>4, <2>5, <2>6
<1> QED  BY <1>2, <1>7 DEF Rank

LEMMA RankReached ==
    ASSUME NEW n \in Nat, NEW places \in SUBSET (1..n), NEW i \in 1..Cardinality(places)
    PROVE  \E p \in places : Rank(places, p) = i
<1> DEFINE c == Cardinality(places)
           Missing(k) == \A p \in places : Rank(places, p) # c - k
           T == {k \in 0..c - 1 : Missing(k)}
<1>1. IsFiniteSet(places) /\ c \in Nat /\ places # {} /\ c > 0
  <2>1. IsFiniteSet(1..n)
    BY FS_Interval
  <2>2. IsFiniteSet(places) /\ c \in Nat
    BY <2>1, FS_Subset, FS_CardinalityType
  <2>3. c # 0
    BY <2>2
  <2> QED  BY <2>2, <2>3, FS_EmptySet
<1>2. ~ Missing(0)
  <2>1. places \in SUBSET (0..n)
    OBVIOUS
  <2>2. PICK m \in places : \A o \in places : o <= m
    BY <1>1, <2>1, MaxOf
  <2>3. Rank(places, m) = c
    BY <2>2, RankOfLast
  <2> QED  BY <1>1, <2>3
<1>3. ASSUME NEW k \in 1..c - 1, ~ Missing(k - 1)  PROVE ~ Missing(k)
  <2>1. PICK p \in places : Rank(places, p) = c - (k - 1)
    BY <1>3
  <2>2. Rank(places, p) > 1 /\ Rank(places, p) - 1 = c - k
    BY <1>1, <2>1
  <2>3. PICK q \in places : Rank(places, q) = Rank(places, p) - 1
    BY <2>2, RankBefore
  <2> QED  BY <2>2, <2>3
<1> HIDE DEF Missing
<1>4. T = {}
  <2> SUFFICES ASSUME T # {} PROVE FALSE
    OBVIOUS
  <2>1. T \in SUBSET Nat
    BY <1>1
  <2> HIDE DEF T
  <2>2. PICK k \in T : \A m \in T : k <= m
    BY <2>1, LeastNumber
  <2> USE DEF T
  <2>3. k # 0 /\ k - 1 \in 0..c - 1 /\ k - 1 \notin T /\ k \in 1..c - 1
    BY <1>1, <1>2, <2>2
  <2> QED  BY <1>3, <2>2, <2>3
<1>5. c - i \in 0..c - 1 /\ c - (c - i) = i
  BY <1>1
<1>6. ~ Missing(c - i)
  BY <1>4, <1>5
<1> QED  BY <1>5, <1>6 DEF Missing

(* The places in an increasing sequence rank as they follow one another.   *)
LEMMA IncreasingRanks ==
    ASSUME NEW n \in Nat, NEW k \in Nat, NEW f \in [1..k -> 1..n],
           \A i \in 2..k : f[i - 1] < f[i]
    PROVE  LET places == {f[i] : i \in 1..k}
           IN  Cardinality(places) = k /\ \A i \in 1..k : Rank(places, f[i]) = i
<1> DEFINE Late(j) == \E i \in 1..j - 1 : ~ (f[i] < f[j])
           T == {j \in 1..k : Late(j)}
<1>1. T = {}
  <2> SUFFICES ASSUME T # {} PROVE FALSE
    OBVIOUS
  <2>1. T \in SUBSET Nat
    OBVIOUS
  <2> HIDE DEF T
  <2>2. PICK j \in T : \A m \in T : j <= m
    BY <2>1, LeastNumber
  <2>3. j \in 1..k /\ Late(j)
    BY DEF T
  <2>4. PICK i \in 1..j - 1 : ~ (f[i] < f[j])
    BY <2>3
  <2>5. j - 1 \in 1..k /\ j - 1 < j /\ j \in 2..k
    BY <2>3, <2>4
  <2>6. ~ Late(j - 1)
    BY <2>2, <2>5 DEF T
  <2>7. i # j - 1
    BY <2>4, <2>5
  <2>8. f[i] < f[j - 1]
    BY <2>4, <2>6, <2>7, <2>5
  <2>9. f[j - 1] < f[j] /\ f[i] \in Nat /\ f[j] \in Nat /\ f[j - 1] \in Nat
    <3>1. i \in 1..k /\ j \in 1..k /\ j - 1 \in 1..k
      BY <2>3, <2>4, <2>5
    <3>2. f[j - 1] < f[j]
      BY <2>5
    <3> QED  BY <3>1, <3>2
  <2> QED  BY <2>4, <2>8, <2>9
<1>2. \A i, j \in 1..k : i < j => f[i] < f[j]
  <2> SUFFICES ASSUME NEW i \in 1..k, NEW j \in 1..k, i < j PROVE f[i] < f[j]
    OBVIOUS
  <2>1. ~ Late(j)
    BY <1>1
  <2>2. i \in 1..j - 1
    OBVIOUS
  <2> QED  BY <2>1, <2>2
<1> HIDE DEF Late, T
<1> DEFINE places == {f[i] : i \in 1..k}
<1>3. ASSUME NEW m \in 0..k PROVE Cardinality({f[j] : j \in 1..m}) = m
  <2> DEFINE U == {f[j] : j \in 1..m}
             g == [j \in 1..m |-> f[j]]
  <2>1. \A j \in 1..m : j \in 1..k
    OBVIOUS
  <2>2. \A i, j \in 1..m : g[i] = g[j] => i = j
    <3> SUFFICES ASSUME NEW i \in 1..m, NEW j \in 1..m, f[i] = f[j] PROVE i = j
      OBVIOUS
    <3>1. i \in 1..k /\ j \in 1..k /\ f[i] \in Nat
      BY <2>1
    <3>2. ~ (i < j) /\ ~ (j < i)
      BY <1>2, <3>1
    <3> QED  BY <3>1, <3>2
  <2>3. g \in [1..m -> U] /\ \A t \in U : \E s \in 1..m : g[s] = t
    OBVIOUS
  <2> HIDE DEF g, U
  <2>4. g \in Surjection(1..m, U) /\ g \in Injection(1..m, U)
    BY <2>2, <2>3 DEF Surjection, Injection, IsInjective
  <2>5. IsFiniteSet(1..m) /\ Cardinality(1..m) = m
    BY FS_Interval
  <2>6. Cardinality(U) = Cardinality(1..m)
    BY <2>4, <2>5, FS_Surjection
  <2> QED  BY <2>5, <2>6 DEF U
<1>4. ASSUME NEW i \in 1..k PROVE {o \in places : o <= f[i]} = {f[j] : j \in 1..i}
  <2>1. ASSUME NEW o \in places, o <= f[i] PROVE o \in {f[j] : j \in 1..i}
    <3>1. PICK j \in 1..k : o = f[j]
      OBVIOUS
    <3>2. ~ (i < j)
      BY <1>2, <2>1, <3>1
    <3>3. j \in 1..i
      BY <3>2
    <3> QED  BY <3>1, <3>3
  <2>2. ASSUME NEW j \in 1..i PROVE f[j] \in places /\ f[j] <= f[i]
    <3>1. j \in 1..k /\ (j = i \/ j < i)
      OBVIOUS
    <3>2. f[j] \in Nat /\ f[i] \in Nat
      BY <3>1
    <3> QED  BY <1>2, <3>1, <3>2
  <2> QED  BY <2>1, <2>2
<1>5. \A i \in 1..k : Rank(places, f[i]) = i
  <2> SUFFICES ASSUME NEW i \in 1..k PROVE Rank(places, f[i]) = i
    OBVIOUS
  <2>1. i \in 0..k
    OBVIOUS
  <2> HIDE DEF places
  <2> QED  BY <1>3, <1>4, <2>1 DEF Rank
<1>6. Cardinality(places) = k
  BY <1>3
<1> QED  BY <1>5, <1>6

-----------------------------------------------------------------------------
(* Where the i-th character is found after the place of the one before.    *)
Later(short, long, i, last) == {p \in last + 1..Len(long) : long[p] = short[i]}
FoundAt(short, long, i, last) ==
    IF Later(short, long, i, last) = {} THEN Len(long) + 1 ELSE Min(Later(short, long, i, last))

IsPlaces(g, short, long) ==
    g = [i \in 0..Len(short) |->
            IF i = 0 THEN 0
            ELSE LET last == g[i - 1]
                     later == {p \in last + 1..Len(long) : long[p] = short[i]}
                 IN  IF later = {} THEN Len(long) + 1 ELSE Min(later)]

LEMMA LaterIsNat ==
    ASSUME NEW short, NEW long, Len(long) \in Nat, NEW i, NEW last \in Nat
    PROVE  Later(short, long, i, last) \in SUBSET (last + 1..Len(long))
           /\ Later(short, long, i, last) \in SUBSET Nat
<1>1. Later(short, long, i, last) \subseteq last + 1..Len(long)
  BY DEF Later
<1>2. last + 1..Len(long) \subseteq Nat
  OBVIOUS
<1> QED  BY <1>1, <1>2

(* A character is found in the text or past its end.                       *)
LEMMA FoundAtIsNat ==
    ASSUME NEW short, NEW long, Len(long) \in Nat, NEW i, NEW last \in Nat
    PROVE  FoundAt(short, long, i, last) \in Nat
<1>1. CASE Later(short, long, i, last) = {}
  BY <1>1 DEF FoundAt
<1>2. CASE Later(short, long, i, last) # {}
  <2>1. Min(Later(short, long, i, last)) \in Nat
    BY <1>2, LaterIsNat, MinOf
  <2> QED  BY <1>2, <2>1 DEF FoundAt
<1> QED  BY <1>1, <1>2

(* The recursion that defines Places has a solution.                       *)
LEMMA PlacesAre ==
    ASSUME NEW short, NEW long, Len(short) \in Nat, Len(long) \in Nat
    PROVE  /\ Places(short, long) \in [0..Len(short) -> Nat]
           /\ Places(short, long)[0] = 0
           /\ \A i \in 1..Len(short) :
                 Places(short, long)[i] = FoundAt(short, long, i, Places(short, long)[i - 1])
<1> DEFINE k == Len(short)
           step == [x \in (1..k) \X Nat |-> FoundAt(short, long, x[1], x[2])]
<1>1. IsStep(step, k, Nat)
  BY FoundAtIsNat DEF IsStep
<1>2. \A i \in 1..k, last \in Nat : step[<<i, last>>] = FoundAt(short, long, i, last)
  OBVIOUS
<1> HIDE DEF step
<1>3. PICK g : Solves(g, k, Nat, 0, step)
  BY <1>1, RecursionOnInterval
<1>4. \A i \in 1..k : g[i] = FoundAt(short, long, i, g[i - 1])
  <2> SUFFICES ASSUME NEW i \in 1..k PROVE g[i] = FoundAt(short, long, i, g[i - 1])
    OBVIOUS
  <2>1. i - 1 \in 0..k
    OBVIOUS
  <2>2. g[i - 1] \in Nat
    BY <1>3, <2>1 DEF Solves
  <2> QED  BY <1>2, <1>3, <2>2 DEF Solves
<1>5. IsPlaces(g, short, long)
  <2>1. \A i \in 0..k : g[i] = IF i = 0 THEN 0 ELSE FoundAt(short, long, i, g[i - 1])
    <3> SUFFICES ASSUME NEW i \in 0..k, i # 0 PROVE g[i] = FoundAt(short, long, i, g[i - 1])
      BY <1>3 DEF Solves
    <3>1. i \in 1..k
      OBVIOUS
    <3> QED  BY <1>4, <3>1
  <2>2. g = [i \in 0..k |-> IF i = 0 THEN 0 ELSE FoundAt(short, long, i, g[i - 1])]
    BY <1>3, <2>1 DEF Solves
  <2> QED  BY <2>2, Zenon DEF IsPlaces, FoundAt, Later
<1>6. Places(short, long) = CHOOSE h : IsPlaces(h, short, long)
  BY Zenon DEF Places, IsPlaces
<1>7. IsPlaces(Places(short, long), short, long)
  BY <1>5, <1>6
<1> DEFINE P == Places(short, long)
<1>8. P = [i \in 0..k |-> IF i = 0 THEN 0 ELSE FoundAt(short, long, i, P[i - 1])]
  BY <1>7, Zenon DEF IsPlaces, FoundAt, Later
<1> HIDE DEF P
<1>9. P[0] = 0
  BY <1>8
<1>10. \A i \in 1..k : P[i] = FoundAt(short, long, i, P[i - 1])
  <2> SUFFICES ASSUME NEW i \in 1..k PROVE P[i] = FoundAt(short, long, i, P[i - 1])
    OBVIOUS
  <2>1. i \in 0..k /\ i # 0
    OBVIOUS
  <2> QED  BY <1>8, <2>1
<1>11. P \in [0..k -> Nat]
  <2> DEFINE T == {i \in 0..k : P[i] \notin Nat}
  <2>1. T = {}
    <3> SUFFICES ASSUME T # {} PROVE FALSE
      OBVIOUS
    <3>1. T \in SUBSET Nat
      OBVIOUS
    <3> HIDE DEF T
    <3>2. PICK i \in T : \A m \in T : i <= m
      BY <3>1, LeastNumber
    <3> USE DEF T
    <3>3. i # 0 /\ i \in 1..k /\ i - 1 \in 0..k /\ i - 1 \notin T
      BY <1>9, <3>2
    <3>4. P[i - 1] \in Nat
      BY <3>3
    <3> QED  BY <1>10, <3>3, <3>4, FoundAtIsNat
  <2>2. \A i \in 0..k : P[i] \in Nat
    BY <2>1
  <2>3. DOMAIN P = 0..k /\ P = [i \in 0..k |-> P[i]]
    BY <1>8
  <2> QED  BY <2>2, <2>3
<1> QED  BY <1>9, <1>10, <1>11 DEF P

(* A place that is found holds the character and is after the one before;  *)
(* what is not found leaves the later ones not found.                      *)
LEMMA PlacesFound ==
    ASSUME NEW short, NEW long, Len(short) \in Nat, Len(long) \in Nat, NEW i \in 1..Len(short),
           Places(short, long)[i] <= Len(long)
    PROVE  /\ Places(short, long)[i] \in 1..Len(long)
           /\ Places(short, long)[i - 1] < Places(short, long)[i]
           /\ long[Places(short, long)[i]] = short[i]
<1> DEFINE P == Places(short, long)
           later == Later(short, long, i, P[i - 1])
<1>1. i - 1 \in 0..Len(short) /\ P[i - 1] \in Nat /\ P[i] = FoundAt(short, long, i, P[i - 1])
  <2>1. i - 1 \in 0..Len(short)
    OBVIOUS
  <2> QED  BY <2>1, PlacesAre
<1> HIDE DEF P
<1>2. later # {}
  BY <1>1 DEF FoundAt, P
<1>3. P[i] \in later
  BY <1>1, <1>2, LaterIsNat, MinOf DEF FoundAt
<1>4. P[i] \in P[i - 1] + 1..Len(long) /\ long[P[i]] = short[i]
  BY <1>3 DEF Later
<1>5. P[i] \in 1..Len(long) /\ P[i - 1] < P[i]
  BY <1>1, <1>4
<1> QED  BY <1>4, <1>5 DEF P

(* A subsequence has all its characters found in the text.                 *)
LEMMA AllFound ==
    ASSUME NEW short, NEW long, Len(short) \in Nat, Len(long) \in Nat, is_subsequence(short, long),
           NEW i \in 0..Len(short)
    PROVE  Places(short, long)[i] <= Len(long)
<1> DEFINE P == Places(short, long)
           k == Len(short)
           T == {m \in 0..k : ~ (P[k - m] <= Len(long))}
<1>1. P[k] <= Len(long)
  BY DEF is_subsequence
<1>2. \A m \in 0..k : P[m] \in Nat
  BY PlacesAre
<1>3. P[0] = 0 /\ \A m \in 1..k : P[m] <= Len(long) => P[m - 1] < P[m]
  BY PlacesAre, PlacesFound
<1> HIDE DEF P
<1>4. T = {}
  <2> SUFFICES ASSUME T # {} PROVE FALSE
    OBVIOUS
  <2>1. T \in SUBSET Nat
    OBVIOUS
  <2> HIDE DEF T
  <2>2. PICK m \in T : \A o \in T : m <= o
    BY <2>1, LeastNumber
  <2>3. m \in 0..k /\ ~ (P[k - m] <= Len(long))
    BY DEF T
  <2>4. m # 0
    <3>1. k - 0 = k
      OBVIOUS
    <3> QED  BY <1>1, <2>3, <3>1
  <2>5. m - 1 \in 0..k /\ m - 1 \notin T /\ k - (m - 1) \in 1..k /\ k - (m - 1) - 1 = k - m
    BY <2>2, <2>3, <2>4
  <2>6. P[k - (m - 1)] <= Len(long)
    BY <2>5 DEF T
  <2>7. P[k - m] < P[k - (m - 1)]
    BY <1>3, <2>5, <2>6
  <2>8. k - m \in 0..k /\ k - (m - 1) \in 0..k
    BY <2>3, <2>5
  <2>9. P[k - m] \in Nat /\ P[k - (m - 1)] \in Nat
    BY <1>2, <2>8
  <2> QED  BY <2>3, <2>6, <2>7, <2>9
<1>5. k - i \in 0..k /\ k - (k - i) = i
  OBVIOUS
<1>6. ~ ~ (P[k - (k - i)] <= Len(long))
  BY <1>4, <1>5
<1> QED  BY <1>5, <1>6 DEF P

-----------------------------------------------------------------------------
LEMMA SequenceFacts ==
    ASSUME NEW C, NEW s \in Seq(C)
    PROVE  Len(s) \in Nat /\ DOMAIN s = 1..Len(s)
OBVIOUS

(* A way to find a text in another, by the ranks of its places.            *)
LEMMA EmbeddingIs ==
    ASSUME NEW C, NEW short \in Seq(C), NEW long \in Seq(C), NEW places
    PROVE  places \in Embeddings(short, long) <=>
             /\ places \in SUBSET (1..Len(long))
             /\ Cardinality(places) = Len(short)
             /\ \A p \in places : long[p] = short[Rank(places, p)]
BY SequenceFacts DEF Embeddings, Rank

(* The greedy search is never behind another way to find the characters.   *)
LEMMA GreedyIsFirst ==
    ASSUME NEW C, NEW short \in Seq(C), NEW long \in Seq(C),
           NEW places \in Embeddings(short, long), NEW p \in places
    PROVE  Places(short, long)[Rank(places, p)] <= p
<1> DEFINE P == Places(short, long)
           k == Len(short)
           Behind(i) == \E q \in places : Rank(places, q) = i /\ ~ (P[i] <= q)
           T == {i \in 1..k : Behind(i)}
<1>1. /\ k \in Nat /\ Len(long) \in Nat
      /\ places \in SUBSET (1..Len(long)) /\ Cardinality(places) = k
      /\ \A q \in places : long[q] = short[Rank(places, q)]
  BY SequenceFacts, EmbeddingIs
<1>2. \A q \in places : Rank(places, q) \in 1..k
  BY <1>1, RankInRange
<1>3. /\ P[0] = 0 /\ \A i \in 0..k : P[i] \in Nat
      /\ \A i \in 1..k : P[i] = FoundAt(short, long, i, P[i - 1])
  BY <1>1, PlacesAre
<1> HIDE DEF P
<1>4. T = {}
  <2> SUFFICES ASSUME T # {} PROVE FALSE
    OBVIOUS
  <2>1. T \in SUBSET Nat
    OBVIOUS
  <2> HIDE DEF T
  <2>2. PICK i \in T : \A m \in T : i <= m
    BY <2>1, LeastNumber
  <2>3. i \in 1..k /\ Behind(i)
    BY DEF T
  <2>4. PICK q \in places : Rank(places, q) = i /\ ~ (P[i] <= q)
    BY <2>3
  <2>5. P[i - 1] < q
    <3>1. CASE i = 1
      BY <1>1, <1>3, <3>1
    <3>2. CASE i # 1
      <4>1. Rank(places, q) > 1
        BY <2>3, <2>4, <3>2
      <4>2. PICK o \in places : o < q /\ Rank(places, o) = i - 1
        BY <1>1, <2>4, <4>1, RankBefore
      <4>3. i - 1 \in 1..k /\ ~ (i <= i - 1)
        BY <2>3, <3>2
      <4>4. ~ Behind(i - 1)
        BY <2>2, <4>3 DEF T
      <4>5. P[i - 1] <= o
        BY <4>2, <4>4
      <4>6. i - 1 \in 0..k
        BY <4>3
      <4>7. P[i - 1] \in Nat /\ o \in Nat /\ q \in Nat
        BY <1>1, <1>3, <4>6
      <4> QED  BY <4>2, <4>5, <4>7
    <3> QED  BY <3>1, <3>2
  <2>6. i - 1 \in 0..k /\ P[i - 1] \in Nat
    <3>1. i - 1 \in 0..k
      BY <2>3
    <3> QED  BY <1>3, <3>1
  <2>7. q \in Later(short, long, i, P[i - 1])
    <3>1. q \in P[i - 1] + 1..Len(long)
      BY <1>1, <2>5, <2>6
    <3> QED  BY <1>1, <2>4, <3>1 DEF Later
  <2>8. Min(Later(short, long, i, P[i - 1])) <= q
    BY <1>1, <2>6, <2>7, LaterIsNat, MinOf
  <2> QED  BY <1>3, <2>3, <2>4, <2>7, <2>8 DEF FoundAt
<1>5. ~ Behind(Rank(places, p))
  BY <1>2, <1>4
<1> QED  BY <1>5 DEF P

(* Looking for each character after the one before misses no embedding.    *)
LEMMA EmbeddedIsSubsequence ==
    ASSUME NEW C, NEW short \in Seq(C), NEW long \in Seq(C), Embeddings(short, long) # {}
    PROVE  is_subsequence(short, long)
<1>1. PICK places \in Embeddings(short, long) : TRUE
  OBVIOUS
<1>2. /\ Len(short) \in Nat /\ Len(long) \in Nat
      /\ places \in SUBSET (1..Len(long)) /\ Cardinality(places) = Len(short)
  BY SequenceFacts, EmbeddingIs
<1>3. Places(short, long)[0] = 0 /\ Places(short, long) \in [0..Len(short) -> Nat]
  BY <1>2, PlacesAre
<1>4. CASE Len(short) = 0
  BY <1>2, <1>3, <1>4 DEF is_subsequence
<1>5. CASE Len(short) # 0
  <2>1. Len(short) \in 1..Cardinality(places)
    BY <1>2, <1>5
  <2>2. PICK p \in places : Rank(places, p) = Len(short)
    BY <1>2, <2>1, RankReached
  <2>3. Places(short, long)[Len(short)] <= p
    BY <2>2, GreedyIsFirst
  <2>4. p \in 1..Len(long) /\ Len(short) \in 0..Len(short)
    BY <1>2
  <2>5. Places(short, long)[Len(short)] \in Nat
    BY <1>3, <2>4
  <2>6. Places(short, long)[Len(short)] <= Len(long)
    BY <1>2, <2>3, <2>4, <2>5
  <2> QED  BY <2>6 DEF is_subsequence
<1> QED  BY <1>4, <1>5

(* An increasing sequence of the characters' places is one of the ways.    *)
LEMMA IncreasingIsEmbedding ==
    ASSUME NEW C, NEW short \in Seq(C), NEW long \in Seq(C),
           NEW f \in [1..Len(short) -> 1..Len(long)],
           \A i \in 2..Len(short) : f[i - 1] < f[i],
           \A i \in 1..Len(short) : long[f[i]] = short[i]
    PROVE  LET places == {f[i] : i \in 1..Len(short)}
           IN  places \in Embeddings(short, long) /\ \A i \in 1..Len(short) : Rank(places, f[i]) = i
<1> DEFINE places == {f[i] : i \in 1..Len(short)}
<1>1. Len(short) \in Nat /\ Len(long) \in Nat
  BY SequenceFacts
<1>2. Cardinality(places) = Len(short) /\ \A i \in 1..Len(short) : Rank(places, f[i]) = i
  BY <1>1, IncreasingRanks
<1>3. places \in SUBSET (1..Len(long))
  OBVIOUS
<1>4. \A p \in places : \E i \in 1..Len(short) : p = f[i]
  OBVIOUS
<1> HIDE DEF places
<1>5. \A p \in places : long[p] = short[Rank(places, p)]
  BY <1>2, <1>4
<1>6. places \in Embeddings(short, long)
  BY <1>2, <1>3, <1>5, EmbeddingIs
<1> QED  BY <1>2, <1>6 DEF places

(* What is found so is an embedding.                                       *)
LEMMA SubsequenceIsEmbedded ==
    ASSUME NEW C, NEW short \in Seq(C), NEW long \in Seq(C), is_subsequence(short, long)
    PROVE  LET P == Places(short, long)
               places == {P[i] : i \in 1..Len(short)}
           IN  places \in Embeddings(short, long) /\ \A i \in 1..Len(short) : Rank(places, P[i]) = i
<1> DEFINE P == Places(short, long)
           f == [i \in 1..Len(short) |-> P[i]]
<1>1. Len(short) \in Nat /\ Len(long) \in Nat
  BY SequenceFacts
<1>2. \A i \in 1..Len(short) : P[i] \in 1..Len(long) /\ P[i - 1] < P[i] /\ long[P[i]] = short[i]
  <2> SUFFICES ASSUME NEW i \in 1..Len(short)
               PROVE  P[i] \in 1..Len(long) /\ P[i - 1] < P[i] /\ long[P[i]] = short[i]
    OBVIOUS
  <2>1. i \in 0..Len(short)
    BY <1>1
  <2>2. P[i] <= Len(long)
    BY <1>1, <2>1, AllFound
  <2> QED  BY <1>1, <2>2, PlacesFound
<1> HIDE DEF P
<1>3. f \in [1..Len(short) -> 1..Len(long)] /\ \A i \in 1..Len(short) : f[i] = P[i]
  BY <1>2
<1>4. \A i \in 2..Len(short) : f[i - 1] < f[i]
  <2> SUFFICES ASSUME NEW i \in 2..Len(short) PROVE f[i - 1] < f[i]
    OBVIOUS
  <2>1. i - 1 \in 1..Len(short) /\ i \in 1..Len(short)
    BY <1>1
  <2> QED  BY <1>2, <1>3, <2>1
<1>5. \A i \in 1..Len(short) : long[f[i]] = short[i]
  BY <1>2, <1>3
<1>6. {f[i] : i \in 1..Len(short)} = {P[i] : i \in 1..Len(short)}
  BY <1>3
<1> HIDE DEF f
<1>7. LET places == {f[i] : i \in 1..Len(short)}
      IN  places \in Embeddings(short, long) /\ \A i \in 1..Len(short) : Rank(places, f[i]) = i
  BY <1>3, <1>4, <1>5, IncreasingIsEmbedding
<1> QED  BY <1>3, <1>6, <1>7 DEF P

-----------------------------------------------------------------------------
(* Where the i-th character may be before the place of the one after it.   *)
Earlier(short, long, i, next) == {p \in 1..next - 1 : long[p] = short[i]}

IsBack(g, short, long, end) ==
    g = [i \in 1..Len(short) + 1 |->
            IF i > Len(short) THEN end + 1
            ELSE LET next == g[i + 1]
                 IN  Max({p \in 1..next - 1 : long[p] = short[i]})]

SearchesBack(g, short, long, end) ==
    /\ g[Len(short) + 1] = end + 1
    /\ \A i \in 1..Len(short) :
          g[i + 1] \in 1..end + 1 /\ Earlier(short, long, i, g[i + 1]) # {}
             => g[i] = Max(Earlier(short, long, i, g[i + 1]))

(* Searched for backwards from where some way to find the characters ends, *)
(* each is found, and no earlier than in any such way.                     *)
LEMMA BackKeepsUp ==
    ASSUME NEW C, NEW short \in Seq(C), NEW long \in Seq(C), NEW end \in 0..Len(long),
           NEW places \in Embeddings(short, long), \A p \in places : p <= end,
           NEW g, SearchesBack(g, short, long, end)
    PROVE  /\ \A i \in 1..Len(short) :
                 /\ g[i] = Max(Earlier(short, long, i, g[i + 1]))
                 /\ g[i] \in 1..end /\ g[i] < g[i + 1] /\ long[g[i]] = short[i]
           /\ \A p \in places : p <= g[Rank(places, p)]
<1> DEFINE k == Len(short)
           Bound(i) == g[i] \in 1..end + 1 /\ \A p \in places : Rank(places, p) < i => p < g[i]
           T == {m \in 0..k : ~ Bound(k + 1 - m)}
<1>1. /\ k \in Nat /\ Len(long) \in Nat /\ end \in Nat /\ end <= Len(long)
      /\ places \in SUBSET (1..Len(long)) /\ Cardinality(places) = k
      /\ \A q \in places : long[q] = short[Rank(places, q)]
  BY SequenceFacts, EmbeddingIs
<1>2. \A q \in places : Rank(places, q) \in 1..k
  BY <1>1, RankInRange
<1> USE DEF SearchesBack
<1>3. Bound(k + 1)
  <2>1. \A p \in places : p \in Nat /\ p <= end
    BY <1>1
  <2> QED  BY <1>1, <2>1
<1>4. ASSUME NEW i \in 1..k, Bound(i + 1)
      PROVE  /\ Bound(i) /\ g[i] = Max(Earlier(short, long, i, g[i + 1]))
             /\ g[i] \in 1..end /\ g[i] < g[i + 1] /\ long[g[i]] = short[i]
             /\ \A p \in places : Rank(places, p) = i => p <= g[i]
  <2> DEFINE earlier == Earlier(short, long, i, g[i + 1])
  <2>1. g[i + 1] \in 1..end + 1
    BY <1>4
  <2>2. ASSUME NEW p \in places, Rank(places, p) = i  PROVE p \in earlier
    <3>1. p < g[i + 1] /\ p \in 1..Len(long) /\ long[p] = short[i]
      BY <1>1, <1>4, <2>2
    <3>2. p \in 1..g[i + 1] - 1
      BY <2>1, <3>1, <1>1
    <3> QED  BY <3>1, <3>2 DEF Earlier
  <2>3. PICK p \in places : Rank(places, p) = i
    BY <1>1, RankReached
  <2>4. earlier # {}
    BY <2>2, <2>3
  <2>5. g[i] = Max(earlier)
    BY <2>1, <2>4
  <2>6. earlier \in SUBSET (0..end)
    <3>1. earlier \subseteq 1..g[i + 1] - 1
      BY DEF Earlier
    <3>2. 1..g[i + 1] - 1 \subseteq 0..end
      BY <1>1, <2>1
    <3> QED  BY <3>1, <3>2
  <2> HIDE DEF earlier
  <2>7. g[i] \in earlier /\ \A m \in earlier : m <= g[i]
    BY <1>1, <2>4, <2>5, <2>6, MaxOf
  <2>8. g[i] \in 1..g[i + 1] - 1 /\ long[g[i]] = short[i]
    BY <2>7 DEF earlier, Earlier
  <2>9. g[i] \in 1..end /\ g[i] < g[i + 1] /\ g[i] \in 1..end + 1
    <3> DEFINE a == g[i]
               b == g[i + 1]
    <3>1. a \in 1..b - 1 /\ b \in 1..end + 1 /\ end \in Nat
      BY <1>1, <2>1, <2>8
    <3> HIDE DEF a, b
    <3>2. a \in 1..end /\ a < b /\ a \in 1..end + 1
      BY <3>1
    <3> QED  BY <3>2 DEF a, b
  <2>10. \A q \in places : Rank(places, q) = i => q <= g[i]
    BY <2>2, <2>7
  <2>11. ASSUME NEW q \in places, Rank(places, q) < i  PROVE q < g[i]
    <3>1. Rank(places, q) \in Nat /\ Rank(places, p) \in Nat /\ p \in Nat /\ q \in Nat
      BY <1>1, <1>2
    <3>2. ~ (p < q)
      <4> SUFFICES ASSUME p < q PROVE FALSE
        OBVIOUS
      <4>1. Rank(places, p) < Rank(places, q)
        BY <1>1, RankGrows
      <4> QED  BY <2>3, <2>11, <3>1, <4>1
    <3>3. q # p
      BY <2>3, <2>11, <3>1
    <3>4. p <= g[i]
      BY <2>3, <2>10
    <3> QED  BY <2>9, <3>1, <3>2, <3>3, <3>4
  <2> QED  BY <2>5, <2>8, <2>9, <2>10, <2>11 DEF earlier
<1> HIDE DEF Bound
<1>5. T = {}
  <2> SUFFICES ASSUME T # {} PROVE FALSE
    OBVIOUS
  <2>1. T \in SUBSET Nat
    OBVIOUS
  <2> HIDE DEF T
  <2>2. PICK m \in T : \A o \in T : m <= o
    BY <2>1, LeastNumber
  <2>3. m \in 0..k /\ ~ Bound(k + 1 - m)
    BY DEF T
  <2>4. m # 0
    <3>1. k + 1 - 0 = k + 1
      BY <1>1
    <3> QED  BY <1>3, <2>3, <3>1
  <2>5. m - 1 \in 0..k /\ ~ (m <= m - 1) /\ k + 1 - m \in 1..k /\ (k + 1 - m) + 1 = k + 1 - (m - 1)
    BY <1>1, <2>3, <2>4
  <2>6. Bound(k + 1 - (m - 1))
    BY <2>2, <2>5 DEF T
  <2> QED  BY <1>4, <2>3, <2>5, <2>6
<1>6. \A i \in 1..k : Bound(i + 1)
  <2> SUFFICES ASSUME NEW i \in 1..k PROVE Bound(i + 1)
    OBVIOUS
  <2>1. k - i \in 0..k /\ k + 1 - (k - i) = i + 1
    BY <1>1
  <2> QED  BY <1>5, <2>1
<1>7. \A p \in places : p <= g[Rank(places, p)]
  BY <1>2, <1>4, <1>6
<1> QED  BY <1>4, <1>6, <1>7

(* The recursion that searches backwards has a solution.                   *)
LEMMA BackIs ==
    ASSUME NEW C, NEW short \in Seq(C), NEW long \in Seq(C), NEW end \in 0..Len(long),
           NEW places \in Embeddings(short, long), \A p \in places : p <= end
    PROVE  \E g : IsBack(g, short, long, end)
<1> DEFINE k == Len(short)
           precedes(i, next) == LET earlier == Earlier(short, long, i, next)
                              IN  IF earlier = {} THEN 0 ELSE Max(earlier)
           step == [x \in (1..k) \X (0..end + 1) |-> precedes(k + 1 - x[1], x[2])]
<1>1. k \in Nat /\ Len(long) \in Nat /\ end \in Nat /\ end <= Len(long)
  BY SequenceFacts
<1>2. ASSUME NEW i, NEW next \in 0..end + 1  PROVE precedes(i, next) \in 0..end + 1
  <2>1. Earlier(short, long, i, next) \in SUBSET (0..end + 1)
    <3>1. Earlier(short, long, i, next) \subseteq 1..next - 1
      BY DEF Earlier
    <3>2. 1..next - 1 \subseteq 0..end + 1
      BY <1>1
    <3> QED  BY <3>1, <3>2
  <2>2. CASE Earlier(short, long, i, next) = {}
    BY <1>1, <2>2
  <2>3. CASE Earlier(short, long, i, next) # {}
    <3>1. end + 1 \in Nat
      BY <1>1
    <3>2. Max(Earlier(short, long, i, next)) \in Earlier(short, long, i, next)
      BY <2>1, <2>3, <3>1, MaxOf
    <3> QED  BY <2>1, <2>3, <3>2
  <2> QED  BY <2>2, <2>3
<1> HIDE DEF precedes
<1>3. IsStep(step, k, 0..end + 1)
  BY <1>2 DEF IsStep
<1>4. \A j \in 1..k, next \in 0..end + 1 : step[<<j, next>>] = precedes(k + 1 - j, next)
  OBVIOUS
<1> HIDE DEF step
<1>5. end + 1 \in 0..end + 1
  BY <1>1
<1>6. PICK h : Solves(h, k, 0..end + 1, end + 1, step)
  BY <1>1, <1>3, <1>5, RecursionOnInterval
<1> DEFINE g == [i \in 1..k + 1 |-> h[k + 1 - i]]
<1>7. g[k + 1] = end + 1
  BY <1>1, <1>6 DEF Solves
<1>8. ASSUME NEW i \in 1..k  PROVE g[i + 1] \in 0..end + 1 /\ g[i] = precedes(i, g[i + 1])
  <2> DEFINE j == k + 1 - i
  <2>1. j \in 1..k /\ j - 1 \in 0..k /\ k + 1 - j = i /\ k + 1 - (i + 1) = j - 1
        /\ i \in 1..k + 1 /\ i + 1 \in 1..k + 1
    BY <1>1
  <2>2. g[i] = h[j] /\ g[i + 1] = h[j - 1]
    BY <2>1
  <2>3. h[j] = step[<<j, h[j - 1]>>] /\ h[j - 1] \in 0..end + 1
    BY <1>6, <2>1 DEF Solves
  <2> HIDE DEF g, j
  <2> QED  BY <1>4, <2>1, <2>2, <2>3
<1>9. DOMAIN g = 1..k + 1 /\ g = [i \in 1..k + 1 |-> g[i]]
  OBVIOUS
<1> HIDE DEF g
<1>10. \A i \in 1..k : g[i + 1] \in 1..end + 1 /\ Earlier(short, long, i, g[i + 1]) # {}
                          => g[i] = Max(Earlier(short, long, i, g[i + 1]))
  BY <1>8 DEF precedes
<1>11. \A i \in 1..k : g[i] = Max(Earlier(short, long, i, g[i + 1]))
  <2>1. SearchesBack(g, short, long, end)
    BY <1>7, <1>10 DEF SearchesBack
  <2> QED  BY <2>1, BackKeepsUp
<1>12. \A i \in 1..k + 1 : g[i] = IF i > k THEN end + 1 ELSE Max(Earlier(short, long, i, g[i + 1]))
  <2> SUFFICES ASSUME NEW i \in 1..k + 1
               PROVE  g[i] = IF i > k THEN end + 1 ELSE Max(Earlier(short, long, i, g[i + 1]))
    OBVIOUS
  <2>1. CASE i = k + 1
    BY <1>1, <1>7, <2>1
  <2>2. CASE i # k + 1
    <3>1. i \in 1..k /\ ~ (i > k)
      BY <1>1, <2>2
    <3> QED  BY <1>11, <3>1
  <2> QED  BY <2>1, <2>2
<1>13. g = [i \in 1..k + 1 |-> IF i > k THEN end + 1 ELSE Max(Earlier(short, long, i, g[i + 1]))]
  BY <1>9, <1>12
<1>14. IsBack(g, short, long, end)
  BY <1>13, Zenon DEF IsBack, Earlier
<1> QED  BY <1>14

(* The ends of a set of places.                                            *)
LEMMA MinIsFirst ==
    ASSUME NEW n \in Nat, NEW places \in SUBSET (1..n), NEW p \in places, Rank(places, p) = 1
    PROVE  Min(places) = p
<1>1. places \in SUBSET Nat /\ places # {}
  OBVIOUS
<1>2. Min(places) \in places /\ Min(places) <= p
  BY <1>1, MinOf
<1>3. p <= Min(places)
  BY <1>2, RankOfFirst
<1>4. \A o \in places : o \in Nat
  OBVIOUS
<1>5. Min(places) \in Nat /\ p \in Nat
  BY <1>2, <1>4
<1> QED  BY <1>2, <1>3, <1>5

LEMMA MaxIsLast ==
    ASSUME NEW n \in Nat, NEW places \in SUBSET (1..n), NEW p \in places,
           Rank(places, p) = Cardinality(places)
    PROVE  Max(places) = p
<1>1. places \in SUBSET (0..n) /\ places # {}
  OBVIOUS
<1>2. Max(places) \in places /\ p <= Max(places)
  BY <1>1, MaxOf
<1>3. ~ (p < Max(places))
  <2> SUFFICES ASSUME p < Max(places) PROVE FALSE
    OBVIOUS
  <2>1. Rank(places, p) < Rank(places, Max(places))
    BY <1>2, RankGrows
  <2>2. Rank(places, Max(places)) \in 1..Cardinality(places) /\ Cardinality(places) \in Nat
    BY <1>2, RankInRange
  <2> QED  BY <2>1, <2>2
<1>4. \A o \in places : o \in Nat
  OBVIOUS
<1>5. p \in Nat /\ Max(places) \in Nat
  BY <1>2, <1>4
<1> QED  BY <1>2, <1>3, <1>5

(* _subsequence_span: of all the ways to find the characters it returns    *)
(* the one that starts last among those that end first.                    *)
LEMMA SpanIsTightest ==
    ASSUME NEW C, NEW short \in Seq(C), NEW long \in Seq(C), Len(short) >= 1,
           is_subsequence(short, long)
    PROVE  /\ subsequence_span(short, long) = Tightest(short, long)
           /\ subsequence_span(short, long).first \in 1..Len(long)
           /\ subsequence_span(short, long).last \in 1..Len(long)
           /\ subsequence_span(short, long).first <= subsequence_span(short, long).last
<1> DEFINE k == Len(short)
           P == Places(short, long)
           end == P[k]
           first == {P[i] : i \in 1..k}
           found == Embeddings(short, long)
<1>1. k \in Nat /\ Len(long) \in Nat /\ k \in 1..k
  BY SequenceFacts
<1>2. first \in found /\ \A i \in 1..k : Rank(first, P[i]) = i
  BY SubsequenceIsEmbedded
<1>3. first \in SUBSET (1..Len(long)) /\ Cardinality(first) = k
  BY <1>2, EmbeddingIs
<1>4. end \in first /\ end \in 1..Len(long)
  BY <1>1, <1>3
<1> HIDE DEF end, first, P, found
<1>5. Max(first) = end
  BY <1>1, <1>2, <1>3, <1>4, MaxIsLast DEF end
<1>6. ASSUME NEW places \in found
      PROVE  /\ places \in SUBSET (1..Len(long)) /\ Cardinality(places) = k
             /\ \E p \in places : Rank(places, p) = 1 /\ Min(places) = p
             /\ \E p \in places : Rank(places, p) = k /\ Max(places) = p /\ end <= p
  <2>1. places \in SUBSET (1..Len(long)) /\ Cardinality(places) = k
    BY EmbeddingIs DEF found
  <2>2. 1 \in 1..Cardinality(places) /\ k \in 1..Cardinality(places)
    BY <1>1, <2>1
  <2>3. PICK p \in places : Rank(places, p) = 1
    BY <1>1, <2>1, <2>2, RankReached
  <2>4. PICK q \in places : Rank(places, q) = k
    BY <1>1, <2>1, <2>2, RankReached
  <2>5. end <= q
    BY <2>4, GreedyIsFirst DEF end, found, P
  <2>6. Min(places) = p
    BY <1>1, <2>1, <2>3, MinIsFirst
  <2>7. Max(places) = q
    BY <1>1, <2>1, <2>4, MaxIsLast
  <2> QED  BY <2>1, <2>3, <2>4, <2>5, <2>6, <2>7
<1>7. Min({Max(places) : places \in found}) = end
  <2> DEFINE ends == {Max(places) : places \in found}
  <2>1. end \in ends
    BY <1>2, <1>5
  <2>2. \A m \in ends : m \in Nat /\ end <= m
    BY <1>1, <1>6
  <2> HIDE DEF ends
  <2>3. Min(ends) \in ends /\ Min(ends) <= end
    BY <2>1, <2>2, MinOf
  <2>4. Min(ends) = end
    BY <1>4, <2>2, <2>3
  <2> QED  BY <2>4 DEF ends
<1>8. \A p \in first : p <= end
  <2>1. first \in SUBSET (0..Len(long)) /\ first # {}
    BY <1>3, <1>4
  <2> QED  BY <1>1, <1>5, <2>1, MaxOf
<1> DEFINE back == CHOOSE h : IsBack(h, short, long, end)
<1>9. IsBack(back, short, long, end)
  <2>1. end \in 0..Len(long)
    BY <1>1, <1>4
  <2> QED  BY <1>2, <1>8, <2>1, BackIs DEF found
<1>10. subsequence_span(short, long) = [first |-> back[1], last |-> end]
  BY Zenon DEF subsequence_span, IsBack, end, P
<1> HIDE DEF back
<1>11. back = [i \in 1..k + 1 |-> IF i > k THEN end + 1 ELSE Max(Earlier(short, long, i, back[i + 1]))]
  BY <1>9, Zenon DEF IsBack, Earlier
<1>12. back[k + 1] = end + 1 /\ \A i \in 1..k : back[i] = Max(Earlier(short, long, i, back[i + 1]))
  <2>1. k + 1 \in 1..k + 1 /\ k + 1 > k
    BY <1>1
  <2>2. \A i \in 1..k : i \in 1..k + 1 /\ ~ (i > k)
    BY <1>1
  <2> QED  BY <1>11, <2>1, <2>2
<1>13. ASSUME NEW places \in found, \A p \in places : p <= end
       PROVE  /\ \A i \in 1..k : back[i] \in 1..end /\ back[i] < back[i + 1] /\ long[back[i]] = short[i]
              /\ \A p \in places : p <= back[Rank(places, p)]
  <2>1. end \in 0..Len(long)
    BY <1>1, <1>4
  <2>2. SearchesBack(back, short, long, end)
    BY <1>12 DEF SearchesBack
  <2> QED  BY <1>13, <2>1, <2>2, BackKeepsUp DEF found
<1>14. \A i \in 1..k : back[i] \in 1..end /\ back[i] < back[i + 1] /\ long[back[i]] = short[i]
  BY <1>2, <1>8, <1>13
<1>15. back[k] = end
  <2>1. end <= back[Rank(first, end)]
    BY <1>2, <1>4, <1>8, <1>13
  <2>2. Rank(first, end) = k
    BY <1>1, <1>2 DEF end
  <2>3. back[k] \in 1..end
    BY <1>1, <1>14
  <2> QED  BY <1>4, <2>1, <2>2, <2>3
<1> DEFINE f == [i \in 1..k |-> back[i]]
           last == {f[i] : i \in 1..k}
<1>16. f \in [1..k -> 1..Len(long)] /\ \A i \in 1..k : f[i] = back[i]
  <2>1. 1..end \subseteq 1..Len(long)
    BY <1>1, <1>4
  <2> QED  BY <1>14, <2>1
<1>17. \A i \in 2..k : f[i - 1] < f[i]
  <2> SUFFICES ASSUME NEW i \in 2..k PROVE f[i - 1] < f[i]
    OBVIOUS
  <2>1. i - 1 \in 1..k /\ i \in 1..k /\ (i - 1) + 1 = i
    BY <1>1
  <2> HIDE DEF f
  <2> QED  BY <1>14, <1>16, <2>1
<1>18. \A i \in 1..k : long[f[i]] = short[i]
  BY <1>14, <1>16
<1> HIDE DEF f
<1>19. last \in found /\ \A i \in 1..k : Rank(last, f[i]) = i
  BY <1>16, <1>17, <1>18, IncreasingIsEmbedding DEF found
<1>20. /\ last \in SUBSET (1..Len(long)) /\ Cardinality(last) = k
       /\ f[1] \in last /\ f[k] \in last /\ Rank(last, f[1]) = 1 /\ Rank(last, f[k]) = k
       /\ f[1] = back[1] /\ f[k] = end
  <2>1. 1 \in 1..k
    BY <1>1
  <2>2. last \in SUBSET (1..Len(long)) /\ Cardinality(last) = k
    BY <1>19, <1>6
  <2> QED  BY <1>1, <1>15, <1>16, <1>19, <2>1, <2>2
<1> HIDE DEF last
<1>21. Min(last) = back[1] /\ Max(last) = end
  BY <1>1, <1>20, MinIsFirst, MaxIsLast
<1> DEFINE starts == {Min(places) : places \in {o \in found : Max(o) = end}}
<1>22. back[1] \in starts
  BY <1>19, <1>21
<1>23. ASSUME NEW places \in found, Max(places) = end
       PROVE  Min(places) <= back[1] /\ Min(places) \in 1..Len(long)
  <2>1. places \in SUBSET (1..Len(long)) /\ places # {}
    BY <1>6
  <2>2. places \in SUBSET (0..Len(long))
    BY <2>1
  <2>3. \A p \in places : p <= end
    BY <1>1, <1>23, <2>1, <2>2, MaxOf
  <2>4. PICK p \in places : Rank(places, p) = 1 /\ Min(places) = p
    BY <1>6
  <2>5. p <= back[1]
    BY <1>13, <2>3, <2>4
  <2> QED  BY <2>1, <2>4, <2>5
<1>24. starts \in SUBSET (0..Len(long)) /\ \A m \in starts : m <= back[1]
  BY <1>1, <1>23
<1> HIDE DEF starts
<1>25. Max(starts) = back[1]
  <2>1. Max(starts) \in starts /\ back[1] <= Max(starts)
    BY <1>1, <1>22, <1>24, MaxOf
  <2>2. \A m \in starts : m \in Nat
    BY <1>24
  <2>3. Max(starts) <= back[1] /\ Max(starts) \in Nat
    BY <1>24, <2>1, <2>2
  <2>4. back[1] \in Nat
    BY <1>22, <2>2
  <2> QED  BY <2>1, <2>3, <2>4
<1>26. Tightest(short, long) = [first |-> back[1], last |-> end]
  BY <1>7, <1>25, Zenon DEF Tightest, starts, found
<1>27. back[1] \in 1..Len(long) /\ back[1] <= end
  <2>1. 1 \in 1..k
    BY <1>1
  <2>2. back[1] \in 1..end
    BY <1>14, <2>1
  <2> QED  BY <1>1, <1>4, <2>2
<1> QED  BY <1>4, <1>10, <1>26, <1>27

-----------------------------------------------------------------------------
IsFlatten(g, seqs) ==
    g = [i \in 1..Len(seqs) |-> IF i = 1 THEN seqs[i] ELSE g[i - 1] \o seqs[i]]

(* The recursion that defines FlattenSeq has a solution.                   *)
LEMMA FlattenIs ==
    ASSUME NEW C, NEW seqs \in Seq(Seq(C))
    PROVE  /\ FlattenSeq(seqs) \in Seq(C)
           /\ Len(seqs) = 1 => FlattenSeq(seqs) = seqs[1]
<1> DEFINE n == Len(seqs)
<1>1. n \in Nat /\ \A i \in 1..n : seqs[i] \in Seq(C)
  OBVIOUS
<1>2. CASE n = 0
  <2>1. FlattenSeq(seqs) = seqs
    BY <1>2, Zenon DEF FlattenSeq
  <2>2. seqs = <<>>
    BY <1>2
  <2>3. <<>> \in Seq(C)
    OBVIOUS
  <2> QED  BY <1>2, <2>1, <2>2, <2>3
<1>3. CASE n # 0
  <2> DEFINE step == [x \in (1..n - 1) \X Seq(C) |-> x[2] \o seqs[x[1] + 1]]
  <2>1. IsStep(step, n - 1, Seq(C))
    <3> SUFFICES ASSUME NEW x \in (1..n - 1) \X Seq(C) PROVE x[2] \o seqs[x[1] + 1] \in Seq(C)
      BY DEF IsStep
    <3>1. x[1] + 1 \in 1..n /\ x[2] \in Seq(C)
      BY <1>1
    <3>2. seqs[x[1] + 1] \in Seq(C)
      BY <1>1, <3>1
    <3> QED  BY <3>1, <3>2
  <2>2. \A j \in 1..n - 1, x \in Seq(C) : step[<<j, x>>] = x \o seqs[j + 1]
    OBVIOUS
  <2> HIDE DEF step
  <2>3. n - 1 \in Nat /\ seqs[1] \in Seq(C)
    BY <1>1, <1>3
  <2>4. PICK h : Solves(h, n - 1, Seq(C), seqs[1], step)
    BY <2>1, <2>3, RecursionOnInterval
  <2> DEFINE g == [i \in 1..n |-> h[i - 1]]
  <2>5. \A i \in 1..n : g[i] = IF i = 1 THEN seqs[i] ELSE g[i - 1] \o seqs[i]
    <3> SUFFICES ASSUME NEW i \in 1..n
                 PROVE  g[i] = IF i = 1 THEN seqs[i] ELSE g[i - 1] \o seqs[i]
      OBVIOUS
    <3>1. CASE i = 1
      BY <2>4, <3>1 DEF Solves
    <3>2. CASE i # 1
      <4>1. i - 1 \in 1..n - 1 /\ i - 1 \in 1..n /\ (i - 1) - 1 \in 0..n - 1 /\ (i - 1) + 1 = i
        BY <1>1, <3>2
      <4>2. h[i - 1] = step[<<i - 1, h[(i - 1) - 1]>>] /\ h[(i - 1) - 1] \in Seq(C)
        BY <2>4, <4>1 DEF Solves
      <4>3. h[i - 1] = h[(i - 1) - 1] \o seqs[i]
        BY <2>2, <4>1, <4>2
      <4>4. g[i] = h[i - 1] /\ g[i - 1] = h[(i - 1) - 1]
        BY <4>1
      <4> QED  BY <3>2, <4>3, <4>4
    <3> QED  BY <3>1, <3>2
  <2>6. g = [i \in 1..n |-> g[i]]
    OBVIOUS
  <2> HIDE DEF g
  <2>7. IsFlatten(g, seqs)
    BY <2>5, <2>6 DEF IsFlatten
  <2> DEFINE flatten == CHOOSE f : IsFlatten(f, seqs)
  <2>8. IsFlatten(flatten, seqs)
    BY <2>7
  <2>9. FlattenSeq(seqs) = flatten[n]
    BY <1>3, Zenon DEF FlattenSeq, IsFlatten
  <2> HIDE DEF flatten
  <2>10. \A i \in 1..n : flatten[i] = IF i = 1 THEN seqs[i] ELSE flatten[i - 1] \o seqs[i]
    BY <2>8 DEF IsFlatten
  <2> DEFINE T == {i \in 1..n : flatten[i] \notin Seq(C)}
  <2>11. T = {}
    <3> SUFFICES ASSUME T # {} PROVE FALSE
      OBVIOUS
    <3>1. T \in SUBSET Nat
      OBVIOUS
    <3> HIDE DEF T
    <3>2. PICK i \in T : \A m \in T : i <= m
      BY <3>1, LeastNumber
    <3>3. i \in 1..n /\ flatten[i] \notin Seq(C)
      BY DEF T
    <3>4. i # 1
      BY <1>1, <2>3, <2>10, <3>3
    <3>5. i - 1 \in 1..n /\ ~ (i <= i - 1)
      BY <3>3, <3>4
    <3>6. flatten[i - 1] \in Seq(C)
      BY <3>2, <3>5 DEF T
    <3>7. flatten[i] = flatten[i - 1] \o seqs[i] /\ seqs[i] \in Seq(C)
      BY <1>1, <2>10, <3>3, <3>4
    <3> QED  BY <3>3, <3>6, <3>7
  <2>12. n \in 1..n
    BY <1>1, <1>3
  <2>13. flatten[n] \in Seq(C)
    BY <2>11, <2>12
  <2>14. n = 1 => flatten[n] = seqs[1]
    BY <2>10, <2>12
  <2> QED  BY <2>9, <2>13, <2>14
<1> QED  BY <1>2, <1>3

(* A function on an interval is a sequence.                                *)
LEMMA SequenceOf ==
    ASSUME NEW n \in Nat, NEW W, NEW f \in [1..n -> W]
    PROVE  f \in Seq(W) /\ Len(f) = n
OBVIOUS

(* A text as one string of characters, and a text of one word.             *)
LEMMA SeparatedIs ==
    ASSUME NEW C, NEW text \in Seq(Seq(C)), NEW space \in C
    PROVE  LET chars == FlattenSeq([i \in DOMAIN text |-> IF i = 1 THEN text[i] ELSE <<space>> \o text[i]])
           IN  chars \in Seq(C) /\ (Len(text) = 1 => chars = text[1])
<1> DEFINE seqs == [i \in DOMAIN text |-> IF i = 1 THEN text[i] ELSE <<space>> \o text[i]]
<1>1. Len(text) \in Nat /\ DOMAIN text = 1..Len(text) /\ \A i \in 1..Len(text) : text[i] \in Seq(C)
  OBVIOUS
<1>2. <<space>> \in Seq(C)
  OBVIOUS
<1>3. \A i \in 1..Len(text) : (IF i = 1 THEN text[i] ELSE <<space>> \o text[i]) \in Seq(C)
  BY <1>1, <1>2
<1>4. seqs \in [1..Len(text) -> Seq(C)]
  BY <1>1, <1>3
<1>5. Len(text) = 1 => seqs[1] = text[1]
  BY <1>1
<1> HIDE DEF seqs
<1>6. seqs \in Seq(Seq(C)) /\ Len(seqs) = Len(text)
  BY <1>1, <1>4, SequenceOf, Zenon
<1>7. FlattenSeq(seqs) \in Seq(C) /\ (Len(seqs) = 1 => FlattenSeq(seqs) = seqs[1])
  BY <1>6, FlattenIs
<1> QED  BY <1>5, <1>6, <1>7 DEF seqs

LEMMA WordsOfMore ==
    ASSUME NEW C, NEW D, C \subseteq D, NEW text \in Seq(Seq(C))
    PROVE  text \in Seq(Seq(D))
<1>1. \A w \in Seq(C) : w \in Seq(D)
  OBVIOUS
<1> DEFINE A == Seq(C)
           B == Seq(D)
<1>2. A \subseteq B /\ text \in Seq(A)
  BY <1>1
<1> HIDE DEF A, B
<1>3. text \in Seq(B)
  BY <1>2
<1> QED  BY <1>3 DEF B

(* The characters of a text, and the space between two words.              *)
Char == STRING \union {" "}

LEMMA CharsAre ==
    ASSUME NEW text \in Seq(Seq(STRING))
    PROVE  /\ Chars(text) \in Seq(Char)
           /\ Len(text) = 1 => Chars(text) = text[1]
<1> DEFINE space == " "
<1>1. space \in Char /\ STRING \subseteq Char
  BY Zenon DEF Char
<1>2. Chars(text) = FlattenSeq([i \in DOMAIN text |-> IF i = 1 THEN text[i] ELSE <<space>> \o text[i]])
  BY Zenon DEF Chars
<1> HIDE DEF space
<1>3. text \in Seq(Seq(Char))
  BY <1>1, WordsOfMore
<1> QED  BY <1>1, <1>2, <1>3, SeparatedIs, Zenon

(* Leaving words or suffixes out of a text leaves a text.                  *)
LEMMA WithoutIs ==
    ASSUME NEW words, NEW text \in Seq(Seq(STRING))
    PROVE  Without(words, text) \in Seq(Seq(STRING))
<1> DEFINE seqs == [i \in DOMAIN text |-> IF text[i] \in words THEN <<>> ELSE <<text[i]>>]
<1>1. Len(text) \in Nat /\ DOMAIN text = 1..Len(text) /\ \A i \in 1..Len(text) : text[i] \in Seq(STRING)
  OBVIOUS
<1> DEFINE W == Seq(STRING)
<1>2. \A i \in 1..Len(text) : text[i] \in W
  BY <1>1
<1>3. text \in Seq(W)
  OBVIOUS
<1> HIDE DEF W
<1>4. \A i \in 1..Len(text) : (IF text[i] \in words THEN <<>> ELSE <<text[i]>>) \in Seq(W)
  BY <1>2
<1>5. seqs \in [1..Len(text) -> Seq(W)]
  BY <1>1, <1>4
<1> HIDE DEF seqs
<1>6. seqs \in Seq(Seq(W))
  <2> DEFINE A == Seq(W)
  <2>1. seqs \in [1..Len(text) -> A] /\ Len(text) \in Nat
    BY <1>1, <1>5
  <2> HIDE DEF A
  <2>2. seqs \in Seq(A)
    BY <2>1, SequenceOf, Zenon
  <2> QED  BY <2>2 DEF A
<1>7. FlattenSeq(seqs) \in Seq(W)
  BY <1>6, FlattenIs
<1>8. Without(words, text) = FlattenSeq(seqs)
  BY Zenon DEF Without, seqs
<1> QED  BY <1>7, <1>8 DEF W

-----------------------------------------------------------------------------
LEMMA WordIs ==
    ASSUME NEW chars \in Seq(STRING)
    PROVE  /\ Word(chars) \in Seq(Seq(STRING))
           /\ Word(chars) = <<>> \/ Len(Word(chars)) = 1
<1> DEFINE W == Seq(STRING)
<1>1. chars \in W
  OBVIOUS
<1> HIDE DEF W
<1>2. <<>> \in Seq(W) /\ <<chars>> \in Seq(W) /\ Len(<<chars>>) = 1
  BY <1>1
<1> QED  BY <1>2 DEF Word, W

LEMMA PrefixIs ==
    ASSUME NEW C, NEW chars \in Seq(C), NEW m \in Int, m <= Len(chars)
    PROVE  SubSeq(chars, 1, m) \in Seq(C)
OBVIOUS

LEMMA LegalSuffixLengths == \A s \in LegalSuffixes : Len(s) \in 0..6
BY DEF LegalSuffixes, Shares, Limited, Company

LEMMA WithoutLegalSuffixIs ==
    ASSUME NEW chars \in Seq(STRING)
    PROVE  WithoutLegalSuffix(chars) \in Seq(STRING)
<1> DEFINE found == {Len(s) : s \in {t \in LegalSuffixes : IsSuffix(t, chars)}}
<1>1. found \union {0} \in SUBSET (0..6) /\ 0 \in found \union {0}
  <2>1. \A s \in {t \in LegalSuffixes : IsSuffix(t, chars)} : Len(s) \in 0..6
    BY LegalSuffixLengths
  <2>2. found \subseteq 0..6
    BY <2>1
  <2>3. 0 \in 0..6
    OBVIOUS
  <2> HIDE DEF found
  <2> QED  BY <2>2, <2>3
<1> HIDE DEF found
<1>2. Max(found \union {0}) \in 0..6
  BY <1>1, MaxOf
<1>3. Len(chars) - Max(found \union {0}) \in Int /\ Len(chars) - Max(found \union {0}) <= Len(chars)
  BY <1>2
<1>4. SubSeq(chars, 1, Len(chars) - Max(found \union {0})) \in Seq(STRING)
  BY <1>3, PrefixIs
<1> QED  BY <1>4 DEF WithoutLegalSuffix, found

LEMMA WithoutGenericTailIs ==
    ASSUME NEW chars \in Seq(STRING)
    PROVE  WithoutGenericTail(chars) \in Seq(STRING)
<1> DEFINE tails == {k \in 1..Len(chars) + 1 : GenericFrom(chars, k)}
<1>1. Len(chars) \in Nat
  OBVIOUS
<1>2. GenericFrom(chars, Len(chars) + 1)
  <2>1. Len(chars) - (Len(chars) + 1) + 1 = 0 /\ 0 % 2 = 0 /\ (0 \div 2) - 1 = -1
    BY <1>1
  <2>2. 0..-1 = {}
    OBVIOUS
  <2> QED  BY <2>1, <2>2 DEF GenericFrom
<1>3. tails \in SUBSET Nat /\ tails # {}
  BY <1>1, <1>2
<1>4. \A k \in tails : k \in 1..Len(chars) + 1
  OBVIOUS
<1> HIDE DEF tails
<1>5. Min(tails) \in 1..Len(chars) + 1
  BY <1>3, <1>4, MinOf
<1>6. Min(tails) - 1 \in Int /\ Min(tails) - 1 <= Len(chars)
  BY <1>1, <1>5
<1>7. SubSeq(chars, 1, Min(tails) - 1) \in Seq(STRING)
  BY <1>6, PrefixIs
<1> QED  BY <1>7 DEF WithoutGenericTail, tails

(* What a text is, with all that is left out of it by name_variants.       *)
LEMMA TextIs ==
    ASSUME NEW text \in Text
    PROVE  /\ text \in Seq(Seq(STRING)) /\ Len(text) \in Nat /\ DOMAIN text = 1..Len(text)
           /\ isascii(text) \/ Len(text) = 1
           /\ isascii(text) \in BOOLEAN
<1>1. text \in Seq(Seq(STRING)) /\ (isascii(text) \/ Len(text) = 1)
  BY Zenon DEF Text
<1>2. isascii(text) \in BOOLEAN
  BY DEF isascii
<1> HIDE DEF isascii
<1> QED  BY <1>1, <1>2

(* The variants of a text of one script are texts of that script.          *)
LEMMA VariantsAre ==
    ASSUME NEW full \in Text, NEW v \in name_variants(full)
    PROVE  /\ v \in Seq(Seq(STRING)) /\ v # <<>>
           /\ ~ isascii(full) => Len(v) = 1
<1>1. /\ full \in Seq(Seq(STRING)) /\ (isascii(full) \/ Len(full) = 1)
  BY TextIs
<1>2. Legal(full) \in Seq(Seq(STRING)) /\ (~ isascii(full) => Legal(full) = <<>> \/ Len(Legal(full)) = 1)
  <2>1. CASE isascii(full)
    <3>1. Legal(full) = Without(EN_LEGAL_WORDS, full)
      BY <2>1, Zenon DEF Legal
    <3> QED  BY <1>1, <2>1, <3>1, WithoutIs
  <2>2. CASE ~ isascii(full)
    <3>1. Legal(full) = Word(WithoutLegalSuffix(full[1]))
      BY <2>2, Zenon DEF Legal
    <3>2. full[1] \in Seq(STRING)
      <4>1. 1 \in 1..Len(full)
        BY <1>1, <2>2
      <4> QED  BY <1>1, <4>1
    <3> QED  BY <3>1, <3>2, WithoutLegalSuffixIs, WordIs
  <2> QED  BY <2>1, <2>2
<1>3. Generic(full) \in Seq(Seq(STRING)) /\ (~ isascii(full) => Generic(full) = <<>> \/ Len(Generic(full)) = 1)
  <2>1. CASE isascii(full)
    <3>1. Generic(full) = Without(EN_GENERIC_WORDS, Legal(full))
      BY <2>1, Zenon DEF Generic
    <3> QED  BY <1>2, <2>1, <3>1, WithoutIs
  <2>2. CASE ~ isascii(full)
    <3>1. Generic(full) = Word(WithoutGenericTail(Chars(Legal(full))))
      BY <2>2, Zenon DEF Generic
    <3>2. Chars(Legal(full)) \in Seq(STRING)
      <4>1. CASE Legal(full) = <<>>
        <5>1. Chars(<<>>) = <<>>
          <6> DEFINE none == [i \in {} |-> IF i = 1 THEN <<>>[i] ELSE <<" ">> \o <<>>[i]]
          <6>1. DOMAIN <<>> = {}
            OBVIOUS
          <6>2. Chars(<<>>) = FlattenSeq(none)
            BY <6>1, Zenon DEF Chars
          <6>3. none = <<>>
            <7>1. \A f : f = [i \in {} |-> f[i]] => f = <<>>
              OBVIOUS
            <7> QED  BY <7>1, Zenon
          <6> HIDE DEF none
          <6>4. FlattenSeq(<<>>) = <<>>
            <7>1. Len(<<>>) = 0
              OBVIOUS
            <7> QED  BY <7>1, Zenon DEF FlattenSeq
          <6> QED  BY <6>2, <6>3, <6>4
        <5>2. <<>> \in Seq(STRING)
          OBVIOUS
        <5> QED  BY <4>1, <5>1, <5>2
      <4>2. CASE Len(Legal(full)) = 1
        <5>1. Chars(Legal(full)) = Legal(full)[1]
          BY <1>2, <4>2, CharsAre
        <5>2. 1 \in 1..Len(Legal(full))
          BY <4>2
        <5> QED  BY <1>2, <5>1, <5>2
      <4> QED  BY <1>2, <2>2, <4>1, <4>2
    <3> QED  BY <3>1, <3>2, WithoutGenericTailIs, WordIs
  <2> QED  BY <2>1, <2>2
<1>4. (v = full \/ v = Legal(full) \/ v = Generic(full)) /\ v # <<>>
  BY Zenon DEF name_variants
<1>5. v \in Seq(Seq(STRING))
  BY <1>1, <1>2, <1>3, <1>4
<1>6. ~ isascii(full) => Len(v) = 1
  BY <1>1, <1>2, <1>3, <1>4
<1> QED  BY <1>4, <1>5, <1>6

(* A name has at most three variants.                                      *)
LEMMA VariantsFinite == \A full : IsFiniteSet(name_variants(full))
<1> SUFFICES ASSUME NEW full PROVE IsFiniteSet(name_variants(full))
  OBVIOUS
<1>1. IsFiniteSet({full}) /\ IsFiniteSet({full} \union {Legal(full)})
      /\ IsFiniteSet(({full} \union {Legal(full)}) \union {Generic(full)})
  BY FS_Singleton, FS_AddElement
<1>2. name_variants(full) \subseteq ({full} \union {Legal(full)}) \union {Generic(full)}
  BY DEF name_variants
<1> QED  BY <1>1, <1>2, FS_Subset

-----------------------------------------------------------------------------
(* A list as parsed: finitely many stocks, named by normalized texts.      *)
NamedByTexts(entries) ==
    /\ IsFiniteSet(DOMAIN entries)
    /\ \A code \in DOMAIN entries :
          entries[code].zh.text \in Text /\ entries[code].en.text \in Text

LEMMA NoNameIsText == NoName.text \in Text
<1>1. NoName.text = <<>>
  BY DEF NoName
<1>2. <<>> \in Seq(Seq(STRING)) /\ isascii(<<>>)
  BY DEF isascii
<1> QED  BY <1>1, <1>2 DEF Text

(* What is parsed from three published documents is such a list, and so    *)
(* is the list shown, with the index built from it.                        *)
LEMMA ParsedIsNamed ==
    ASSUME NEW docs \in [Document -> 1..Len(Publication)]
    PROVE  NamedByTexts(ListOf(docs))
<1> DEFINE first == Publication[docs.en]
           second == Publication[docs.zh]
           third == Publication[docs.securities]
           list == ListOf(docs)
<1>1. list = parse_hk_stock_list(first.en, second.zh, third.equities)
  BY DEF ListOf
<1>2. docs.en \in 1..Len(Publication) /\ docs.zh \in 1..Len(Publication)
      /\ docs.securities \in 1..Len(Publication)
  BY DEF Document
<1>3. /\ third.equities \subseteq Code
      /\ \A code \in DOMAIN first.en : first.en[code].text \in Text
      /\ \A code \in DOMAIN second.zh : second.zh[code].text \in Text
  BY <1>2, PublicationAssumption
<1> HIDE DEF list, first, second, third
<1>4. DOMAIN list \subseteq Code
      /\ \A code \in DOMAIN list :
            list[code] = [zh |-> NameIn(second.zh, code), en |-> NameIn(first.en, code)]
  BY <1>1, <1>3 DEF parse_hk_stock_list
<1>5. IsFiniteSet(DOMAIN list)
  BY <1>4, FS_Subset, PublicationAssumption
<1>6. \A code : NameIn(second.zh, code).text \in Text /\ NameIn(first.en, code).text \in Text
  BY <1>3, NoNameIsText DEF NameIn
<1>7. \A code \in DOMAIN list : list[code].zh.text \in Text /\ list[code].en.text \in Text
  BY <1>4, <1>6
<1> QED  BY <1>5, <1>7 DEF NamedByTexts, list

LEMMA LoadedList ==
    ASSUME IInv, OrderInv, Loaded
    PROVE  cache.indexed = cache.entries /\ NamedByTexts(cache.entries)
<1>1. cache = Cache(cache.creator, ListOf(read[loader])) /\ InOrder(read[loader]) /\ loader \in Refresh
  BY DEF IInv, ShowsLoader, OrderInv, TypeOK
<1>2. cache.indexed = cache.entries /\ cache.entries = ListOf(read[loader])
  BY <1>1 DEF Cache
<1>3. read[loader] \in [Document -> 1..Len(Publication)]
  <2>1. read[loader] \in [Document -> 0..published] /\ published \in 1..Len(Publication)
    BY <1>1 DEF IInv, TypeOK
  <2>2. \A d \in Document : read[loader][d] \in 1..Len(Publication)
    BY <1>1, <2>1, StockListAssumption DEF InOrder, Document
  <2> QED  BY <2>1, <2>2
<1> QED  BY <1>2, <1>3, ParsedIsNamed

-----------------------------------------------------------------------------
(* The names a stock is listed under.                                      *)
LEMMA FullNamesAreTexts ==
    ASSUME NEW entries, NamedByTexts(entries), NEW code \in DOMAIN entries,
           NEW full \in FullNames(entries[code])
    PROVE  full \in Text /\ full # <<>>
BY DEF FullNames, NamedByTexts, normalize

(* The names of the index are the variants of the full names of the list.  *)
LEMMA NamesOfIndex ==
    ASSUME NEW entries
    PROVE  build_name_index(entries).names =
             UNION {{[stock_code |-> code, variants |-> name_variants(full), latin |-> isascii(full)] :
                        full \in FullNames(entries[code])} : code \in DOMAIN entries}
BY Zenon DEF build_name_index, NameEntries, FullNames

LEMMA NameOfIndex ==
    ASSUME NEW entries, NEW e
    PROVE  e \in build_name_index(entries).names <=>
             \E code \in DOMAIN entries : \E full \in FullNames(entries[code]) :
                e = [stock_code |-> code, variants |-> name_variants(full), latin |-> isascii(full)]
BY NamesOfIndex

(* The exact hits of a search are the stocks that share a variant.         *)
LEMMA ExactCodesAre ==
    ASSUME NEW entries, NEW full
    PROVE  ExactCodes(build_name_index(entries), full) =
             {code \in DOMAIN entries : ShareAVariant(entries[code], full)}
<1> DEFINE names == build_name_index(entries).names
           exact == ExactCodes(build_name_index(entries), full)
<1>1. exact = {e.stock_code : e \in {n \in names : n.variants \intersect name_variants(full) # {}}}
  BY DEF ExactCodes
<1>2. ASSUME NEW e \in names, e.variants \intersect name_variants(full) # {}
      PROVE  e.stock_code \in DOMAIN entries /\ ShareAVariant(entries[e.stock_code], full)
  <2>1. PICK code \in DOMAIN entries : \E own \in FullNames(entries[code]) :
           e = [stock_code |-> code, variants |-> name_variants(own), latin |-> isascii(own)]
    BY NameOfIndex
  <2>3. PICK own \in FullNames(entries[code]) :
           e = [stock_code |-> code, variants |-> name_variants(own), latin |-> isascii(own)]
    BY <2>1
  <2>2. e.stock_code = code /\ e.variants = name_variants(own)
    BY <2>3
  <2> QED  BY <1>2, <2>2, Zenon DEF ShareAVariant
<1>3. ASSUME NEW code \in DOMAIN entries, ShareAVariant(entries[code], full)
      PROVE  code \in exact
  <2>1. PICK own \in FullNames(entries[code]) : name_variants(own) \intersect name_variants(full) # {}
    BY <1>3, Zenon DEF ShareAVariant
  <2> DEFINE e == [stock_code |-> code, variants |-> name_variants(own), latin |-> isascii(own)]
  <2>2. e \in names
    BY NameOfIndex
  <2>3. e.stock_code = code /\ e.variants = name_variants(own)
    OBVIOUS
  <2> HIDE DEF e, names, exact
  <2> QED  BY <1>1, <2>1, <2>2, <2>3
<1> HIDE DEF names, exact
<1>4. exact \subseteq {code \in DOMAIN entries : ShareAVariant(entries[code], full)}
  BY <1>1, <1>2
<1> QED  BY <1>3, <1>4 DEF exact

(* Whatever a search finds is on the list.                                 *)
LEMMA CodesAreListed ==
    ASSUME NEW entries, NEW full
    PROVE  Codes(build_name_index(entries), full) \subseteq DOMAIN entries
<1> DEFINE index == build_name_index(entries)
<1>1. \A e \in index.names : e.stock_code \in DOMAIN entries
  BY NameOfIndex
<1>2. scoring_pool(index, full) \subseteq index.names
  <2>1. index.names_by_latin_prefix =
          [p \in UNION {Prefixes3(e.variants) : e \in {n \in index.names : n.latin}} |->
                {e \in {n \in index.names : n.latin} : p \in Prefixes3(e.variants)}]
    BY Zenon DEF build_name_index
  <2> HIDE DEF index
  <2>2. \A p \in DOMAIN index.names_by_latin_prefix : index.names_by_latin_prefix[p] \subseteq index.names
    BY <2>1
  <2> QED  BY <2>2, Zenon DEF scoring_pool
<1>3. best_scoring_codes(scoring_pool(index, full), full) \subseteq DOMAIN entries
  <2> HIDE DEF index
  <2>1. \A pool : pool \subseteq index.names => best_scoring_codes(pool, full) \subseteq DOMAIN entries
    BY <1>1, Zenon DEF best_scoring_codes
  <2> QED  BY <1>2, <2>1
<1>4. ExactCodes(index, full) \subseteq DOMAIN entries
  BY ExactCodesAre
<1> QED  BY <1>3, <1>4 DEF Codes

(* A search finds one stock of the list or none.                           *)
LEMMA SearchFindsOne ==
    ASSUME NEW entries, IsFiniteSet(DOMAIN entries), NEW full
    PROVE  \/ search(build_name_index(entries), full) = {}
           \/ \E code \in DOMAIN entries : search(build_name_index(entries), full) = {code}
<1> DEFINE codes == Codes(build_name_index(entries), full)
<1>1. codes \subseteq DOMAIN entries
  BY CodesAreListed
<1>2. search(build_name_index(entries), full) = IF Cardinality(codes) = 1 THEN codes ELSE {}
  BY DEF search
<1> HIDE DEF codes
<1>3. IsFiniteSet(codes)
  BY <1>1, FS_Subset
<1>4. Cardinality(codes) = 1 => \E code \in codes : codes = {code}
  BY <1>3, FS_Singleton
<1> QED  BY <1>1, <1>2, <1>4

(* A listed name finds its stock unless a variant is shared.               *)
LEMMA ListedNameSearched ==
    ASSUME NEW entries, IsFiniteSet(DOMAIN entries), NEW code \in DOMAIN entries,
           NEW full \in FullNames(entries[code])
    PROVE  search(build_name_index(entries), full) =
             IF \E other \in DOMAIN entries \ {code} : ShareAVariant(entries[other], full)
             THEN {} ELSE {code}
<1> DEFINE index == build_name_index(entries)
           exact == ExactCodes(index, full)
<1>1. exact = {c \in DOMAIN entries : ShareAVariant(entries[c], full)}
  BY ExactCodesAre
<1>2. ShareAVariant(entries[code], full)
  <2>1. full \in name_variants(full)
    BY Zenon DEF name_variants, FullNames
  <2> QED  BY <2>1 DEF ShareAVariant
<1>3. search(index, full) = IF Cardinality(exact) = 1 THEN exact ELSE {}
  BY <1>1, <1>2 DEF search, Codes
<1> HIDE DEF exact, index
<1>4. IsFiniteSet(exact) /\ code \in exact
  BY <1>1, <1>2, FS_Subset
<1>5. Cardinality(exact) = 1 <=> exact = {code}
  BY <1>4, FS_Singleton
<1>6. exact = {code} <=> ~ \E other \in DOMAIN entries \ {code} : ShareAVariant(entries[other], full)
  BY <1>1, <1>4
<1> QED  BY <1>3, <1>5, <1>6 DEF index

(* A listed name is looked up as its own stock, or as nobody when another  *)
(* stock shares one of its variants, however many lists are loaded by      *)
(* whatever refreshes (lookup_stock, _build_name_index).                   *)
THEOREM ListedNamesFound == Spec => []ListedNamesAreFound
<1>1. Init => OrderInv
  BY DEF Init, OrderInv, Loaded, NoCache, Cache
<1>2. IInv /\ OrderInv => ListedNamesAreFound
  <2> SUFFICES ASSUME IInv, OrderInv, Quiet PROVE
        \A code \in DOMAIN List.entries : \A full \in FullNames(List.entries[code]) :
          search(List.index, full) =
             IF \E other \in DOMAIN List.entries \ {code} : ShareAVariant(List.entries[other], full)
             THEN {} ELSE {code}
    BY Zenon DEF ListedNamesAreFound
  <2>1. List.entries = cache.entries /\ List.index = build_name_index(cache.entries)
        /\ IsFiniteSet(DOMAIN cache.entries)
    BY LoadedList DEF List, Quiet, NamedByTexts
  <2> QED  BY <2>1, ListedNameSearched
<1> QED  BY <1>1, <1>2, OrderInductive, Invariance, PTL DEF Spec

-----------------------------------------------------------------------------
(* What holds at the start of an interval and is kept from each number to  *)
(* the next holds of all of it.                                            *)
LEMMA IntervalInduction ==
    ASSUME NEW n \in Nat, NEW T, 0 \in T, \A i \in 1..n : i - 1 \in T => i \in T
    PROVE  0..n \subseteq T
<1> DEFINE U == {i \in 0..n : i \notin T}
<1> SUFFICES ASSUME U # {} PROVE FALSE
  OBVIOUS
<1>1. U \in SUBSET Nat
  OBVIOUS
<1> HIDE DEF U
<1>2. PICK k \in U : \A m \in U : k <= m
  BY <1>1, LeastNumber
<1>3. k # 0 /\ k \in 1..n /\ k - 1 \in 0..n /\ k - 1 \notin U /\ k \notin T
  BY <1>2 DEF U
<1> QED  BY <1>3 DEF U

(* A list with its own index, as an analysis takes it.                     *)
Indexed(list) ==
    IsFiniteSet(DOMAIN list.entries) /\ list.index = build_name_index(list.entries)

(* The verification finds one stock of the list or none.                   *)
LEMMA VerifiesOne ==
    ASSUME NEW list, Indexed(list), NEW extracted, NEW printed
    PROVE  \/ verify_entity(list, extracted, printed) = {}
           \/ \E code \in DOMAIN list.entries : verify_entity(list, extracted, printed) = {code}
<1> DEFINE stock == {extracted.stock_code} \intersect DOMAIN list.entries
           found == search(list.index, extracted.company_name)
           sure == \E code \in stock :
              name_matches_stock(list.index, extracted.company_name, code) \/ code \in printed
<1>1. verify_entity(list, extracted, printed) = IF sure THEN stock ELSE found
  BY Zenon DEF verify_entity
<1>2. found = {} \/ \E code \in DOMAIN list.entries : found = {code}
  BY SearchFindsOne DEF Indexed
<1>3. stock = {} \/ \E code \in DOMAIN list.entries : stock = {code}
  OBVIOUS
<1> HIDE DEF found, stock, sure
<1> QED  BY <1>1, <1>2, <1>3

(* A set of one stock as a sequence.                                       *)
LEMMA SequenceOfOne ==
    ASSUME NEW c
    PROVE  SetToSeq({c}) = <<c>>
<1> DEFINE f == [i \in 1..1 |-> c]
<1>1. Cardinality({c}) = 1
  BY FS_Singleton
<1>2. f \in [1..1 -> {c}] /\ IsInjective(f)
  BY DEF IsInjective
<1>3. \A g \in [1..1 -> {c}] : g = <<c>>
  OBVIOUS
<1>4. SetToSeq({c}) = CHOOSE g \in [1..1 -> {c}] : IsInjective(g)
  BY <1>1, Zenon DEF SetToSeq
<1> HIDE DEF f
<1>5. SetToSeq({c}) \in [1..1 -> {c}]
  BY <1>2, <1>4, Zenon
<1> QED  BY <1>3, <1>5

-----------------------------------------------------------------------------
(* The outcome of an answer, no stock of which is verified twice.          *)
Outcome(D, X) ==
    {out \in [verified : Seq(D), unverified : Seq(X), dropped : Seq(D)] : IsInjective(out.verified)}
Handled(out) == Len(out.verified) + Len(out.unverified) + Len(out.dropped)

(* A new stock keeps the verified ones different.                          *)
LEMMA VerifiedOnce ==
    ASSUME NEW D, NEW s \in Seq(D), IsInjective(s), NEW c, c \notin ToSet(s)
    PROVE  IsInjective(Append(s, c))
<1> SUFFICES ASSUME NEW a \in 1..Len(s) + 1, NEW b \in 1..Len(s) + 1,
                    Append(s, c)[a] = Append(s, c)[b]
             PROVE  a = b
  BY DEF IsInjective
<1>1. \A i \in 1..Len(s) : Append(s, c)[i] = s[i] /\ s[i] # c
  BY DEF ToSet
<1>2. Append(s, c)[Len(s) + 1] = c
  OBVIOUS
<1>3. \A i, j \in 1..Len(s) : s[i] = s[j] => i = j
  BY DEF IsInjective
<1> QED  BY <1>1, <1>2, <1>3

(* Each entity is counted in one of the three sequences.                   *)
LEMMA EntityAdded ==
    ASSUME NEW list, Indexed(list), NEW printed, NEW X, NEW extracted \in X,
           NEW out \in Outcome(DOMAIN list.entries, X)
    PROVE  /\ AddEntity(list, printed, out, extracted) \in Outcome(DOMAIN list.entries, X)
           /\ Handled(AddEntity(list, printed, out, extracted)) = Handled(out) + 1
<1> DEFINE D == DOMAIN list.entries
           stock == verify_entity(list, extracted, printed)
           new == AddEntity(list, printed, out, extracted)
<1>1. /\ out.verified \in Seq(D) /\ out.unverified \in Seq(X) /\ out.dropped \in Seq(D)
      /\ IsInjective(out.verified)
      /\ out \in [verified : Seq(D), unverified : Seq(X), dropped : Seq(D)]
  BY DEF Outcome
<1>2. stock = {} \/ \E code \in D : stock = {code}
  BY VerifiesOne
<1>3. new = IF stock = {} THEN [out EXCEPT !.unverified = Append(@, extracted)]
            ELSE IF stock \subseteq ToSet(out.verified) THEN [out EXCEPT !.dropped = @ \o SetToSeq(stock)]
            ELSE [out EXCEPT !.verified = @ \o SetToSeq(stock)]
  BY Zenon DEF AddEntity
<1> HIDE DEF D, stock, new
<1>4. CASE stock = {}
  <2>1. new = [out EXCEPT !.unverified = Append(@, extracted)]
    BY <1>3, <1>4
  <2>2. new.verified = out.verified /\ new.unverified = Append(out.unverified, extracted)
        /\ new.dropped = out.dropped /\ new \in [verified : Seq(D), unverified : Seq(X), dropped : Seq(D)]
    <3> DEFINE more == Append(out.unverified, extracted)
    <3>1. more \in Seq(X)
      BY <1>1
    <3>2. new = [out EXCEPT !.unverified = more]
      BY <2>1
    <3> HIDE DEF more
    <3>3. new.verified = out.verified /\ new.unverified = more /\ new.dropped = out.dropped
          /\ new = [verified |-> out.verified, unverified |-> more, dropped |-> out.dropped]
      BY <1>1, <3>2
    <3> QED  BY <1>1, <3>1, <3>3 DEF more
  <2>3. Len(new.unverified) = Len(out.unverified) + 1
    BY <1>1, <2>2
  <2>4. new \in Outcome(D, X)
    BY <1>1, <2>2 DEF Outcome
  <2> QED  BY <1>1, <2>2, <2>3, <2>4 DEF Handled, D, new
<1>5. CASE stock # {} /\ stock \subseteq ToSet(out.verified)
  <2>1. PICK code \in D : stock = {code}
    BY <1>2, <1>5
  <2> DEFINE more == Append(out.dropped, code)
  <2>7. more \in Seq(D) /\ out.dropped \o <<code>> = more
    BY <1>1, <2>1
  <2>2. new = [out EXCEPT !.dropped = @ \o <<code>>]
    BY <1>3, <1>5, <2>1, SequenceOfOne
  <2>3. new.verified = out.verified /\ new.unverified = out.unverified
        /\ new.dropped = Append(out.dropped, code)
        /\ new \in [verified : Seq(D), unverified : Seq(X), dropped : Seq(D)]
    <3>1. new = [out EXCEPT !.dropped = more]
      BY <2>2, <2>7
    <3> HIDE DEF more
    <3>2. new.verified = out.verified /\ new.dropped = more /\ new.unverified = out.unverified
          /\ new = [verified |-> out.verified, unverified |-> out.unverified, dropped |-> more]
      BY <1>1, <3>1
    <3> QED  BY <1>1, <2>7, <3>2 DEF more
  <2>4. Len(new.dropped) = Len(out.dropped) + 1
    BY <1>1, <2>3
  <2>5. new \in Outcome(D, X)
    BY <1>1, <2>3 DEF Outcome
  <2> QED  BY <1>1, <2>3, <2>4, <2>5 DEF Handled, D, new
<1>6. CASE stock # {} /\ ~ (stock \subseteq ToSet(out.verified))
  <2>1. PICK code \in D : stock = {code}
    BY <1>2, <1>6
  <2> DEFINE more == Append(out.verified, code)
  <2>7. more \in Seq(D) /\ out.verified \o <<code>> = more
    BY <1>1, <2>1
  <2>2. new = [out EXCEPT !.verified = @ \o <<code>>]
    BY <1>3, <1>6, <2>1, SequenceOfOne
  <2>3. new.verified = Append(out.verified, code) /\ new.unverified = out.unverified
        /\ new.dropped = out.dropped
        /\ new \in [verified : Seq(D), unverified : Seq(X), dropped : Seq(D)]
    <3>1. new = [out EXCEPT !.verified = more]
      BY <2>2, <2>7
    <3> HIDE DEF more
    <3>2. new.verified = more /\ new.dropped = out.dropped /\ new.unverified = out.unverified
          /\ new = [verified |-> more, unverified |-> out.unverified, dropped |-> out.dropped]
      BY <1>1, <3>1
    <3> QED  BY <1>1, <2>7, <3>2 DEF more
  <2>4. Len(new.verified) = Len(out.verified) + 1
    BY <1>1, <2>3
  <2>5. IsInjective(new.verified)
    BY <1>1, <1>6, <2>1, <2>3, VerifiedOnce
  <2>6. new \in Outcome(D, X)
    BY <2>3, <2>5 DEF Outcome
  <2> QED  BY <1>1, <2>3, <2>4, <2>6 DEF Handled, D, new
<1> QED  BY <1>4, <1>5, <1>6

(* A fold over the places of a sequence, from the first to the last.       *)
IsFold(h, n, base, step) ==
    h = [s \in SUBSET (1..n) |-> IF s = {} THEN base ELSE step[<<Max(s), h[s \ {Max(s)}]>>]]

(* It exists: for each set of places, a recursion over the interval that   *)
(* leaves out the others.                                                  *)
LEMMA FoldExists ==
    ASSUME NEW n \in Nat, NEW S, NEW base \in S, NEW step, IsStep(step, n, S)
    PROVE  \E h : IsFold(h, n, base, step) /\ h \in [SUBSET (1..n) -> S]
<1> DEFINE P == SUBSET (1..n)
           F == [P -> S]
           first == [s \in P |-> base]
           next == [x \in (1..n) \X F |-> [s \in P |-> IF x[1] \in s THEN step[<<x[1], x[2][s]>>] ELSE x[2][s]]]
<1>1. IsStep(next, n, F)
  <2> SUFFICES ASSUME NEW i \in 1..n, NEW f \in F
               PROVE  [s \in P |-> IF i \in s THEN step[<<i, f[s]>>] ELSE f[s]] \in F
    BY DEF IsStep
  <2> QED  BY DEF IsStep
<1>2. first \in F
  OBVIOUS
<1>3. PICK g : Solves(g, n, F, first, next)
  <2> HIDE DEF F, first, next
  <2> QED  BY <1>1, <1>2, RecursionOnInterval
<1>4. /\ \A s \in P : g[0][s] = base
      /\ \A i \in 0..n : g[i] \in F
  BY <1>3 DEF Solves
<1>5. ASSUME NEW i \in 1..n, NEW s \in P
      PROVE  g[i][s] = IF i \in s THEN step[<<i, g[i - 1][s]>>] ELSE g[i - 1][s]
  <2>1. g[i] = next[<<i, g[i - 1]>>] /\ g[i - 1] \in F
    <3>1. i - 1 \in 0..n
      OBVIOUS
    <3> HIDE DEF F, next
    <3> QED  BY <1>3, <1>4, <3>1 DEF Solves
  <2>2. next[<<i, g[i - 1]>>] = [t \in P |-> IF i \in t THEN step[<<i, g[i - 1][t]>>] ELSE g[i - 1][t]]
    <3> DEFINE prior == g[i - 1]
    <3> HIDE DEF prior, F
    <3>1. <<i, prior>> \in (1..n) \X F
      BY <2>1 DEF prior
    <3> QED  BY <3>1 DEF prior
  <2> QED  BY <2>1, <2>2
<1> DEFINE h == [s \in P |-> g[n][s]]
<1>6. ASSUME NEW s \in P, s # {}
      PROVE  Max(s) \in 1..n /\ s \ {Max(s)} \in P /\ h[s] = step[<<Max(s), h[s \ {Max(s)}]>>]
  <2> DEFINE x == Max(s)
             r == s \ {x}
             T == {i \in 0..n : IF i < x THEN g[i][r] = g[i][s]
                                ELSE g[i][s] = g[x][s] /\ g[i][r] = g[x - 1][s]}
  <2>1. x \in s /\ \A m \in s : m <= x
    <3>1. s \in SUBSET (0..n)
      OBVIOUS
    <3> QED  BY <1>6, <3>1, MaxOf
  <2> HIDE DEF x
  <2>2. x \in 1..n /\ r \in P /\ x - 1 \in 0..n
    BY <2>1
  <2>3. 0 \in T
    BY <1>4, <2>2
  <2>4. ASSUME NEW i \in 1..n, i - 1 \in T PROVE i \in T
    <3>1. g[i][s] = (IF i \in s THEN step[<<i, g[i - 1][s]>>] ELSE g[i - 1][s])
          /\ g[i][r] = IF i \in r THEN step[<<i, g[i - 1][r]>>] ELSE g[i - 1][r]
      <4> HIDE DEF r
      <4> QED  BY <1>5, <2>2
    <3>2. CASE i < x
      <4>1. i - 1 < x /\ (i \in r <=> i \in s) /\ i \in 0..n
        BY <2>2, <3>2
      <4>2. g[i - 1][r] = g[i - 1][s]
        BY <2>4, <4>1
      <4>3. g[i][r] = g[i][s]
        BY <3>1, <4>1, <4>2
      <4> QED  BY <3>2, <4>1, <4>3
    <3>3. CASE i = x
      <4>1. i - 1 < x /\ i \notin r /\ i \in 0..n /\ ~ (i < x)
        BY <2>2, <3>3
      <4>2. g[i - 1][r] = g[i - 1][s]
        BY <2>4, <4>1
      <4> QED  BY <3>1, <3>3, <4>1, <4>2
    <3>4. CASE i > x
      <4>1. ~ (i - 1 < x) /\ i \notin s /\ i \notin r /\ i \in 0..n /\ ~ (i < x)
        BY <2>1, <2>2, <3>4
      <4>2. g[i - 1][s] = g[x][s] /\ g[i - 1][r] = g[x - 1][s]
        BY <2>4, <4>1
      <4> QED  BY <3>1, <4>1, <4>2
    <3> QED  BY <2>2, <3>2, <3>3, <3>4
  <2>5. n \in T
    <3>1. n \in 0..n
      OBVIOUS
    <3> HIDE DEF T
    <3> QED  BY <2>3, <2>4, <3>1, IntervalInduction
  <2>6. g[n][s] = g[x][s] /\ g[n][r] = g[x - 1][s]
    <3>1. ~ (n < x)
      BY <2>2
    <3> QED  BY <2>5, <3>1
  <2>7. g[x][s] = step[<<x, g[x - 1][s]>>]
    BY <1>5, <2>1, <2>2
  <2> QED  BY <2>2, <2>6, <2>7 DEF x
<1>7. h[{}] = base
  <2> DEFINE T == {i \in 0..n : g[i][{}] = base}
  <2>1. {} \in P /\ 0 \in T
    BY <1>4
  <2>2. ASSUME NEW i \in 1..n, i - 1 \in T PROVE i \in T
    <3>1. g[i][{}] = g[i - 1][{}]
      BY <1>5, <2>1
    <3> QED  BY <2>2, <3>1
  <2>3. n \in T
    <3>1. n \in 0..n
      OBVIOUS
    <3> HIDE DEF T
    <3> QED  BY <2>1, <2>2, <3>1, IntervalInduction
  <2> QED  BY <2>1, <2>3
<1>8. h \in [P -> S]
  BY <1>4
<1>9. h = [s \in P |-> h[s]]
  OBVIOUS
<1> HIDE DEF h
<1>10. h = [s \in P |-> IF s = {} THEN base ELSE step[<<Max(s), h[s \ {Max(s)}]>>]]
  BY <1>6, <1>7, <1>9
<1> QED  BY <1>8, <1>10 DEF IsFold

(* The outcome for a whole answer of the model.                            *)
LEMMA AnswerProcessed ==
    ASSUME NEW list, Indexed(list), NEW items, items \in Seq(ToSet(items)), NEW printed
    PROVE  LET out == llm_process(list, items, printed)
           IN  Handled(out) = Len(items) /\ \E X : out \in Outcome(DOMAIN list.entries, X)
<1> DEFINE k == Len(items)
           D == DOMAIN list.entries
           X == ToSet(items)
           S == Outcome(D, X)
           none == [verified |-> <<>>, unverified |-> <<>>, dropped |-> <<>>]
           step == [x \in (1..k) \X S |-> AddEntity(list, printed, x[2], items[x[1]])]
           Body(h) == [s \in SUBSET DOMAIN items |->
                         IF s = {} THEN none
                         ELSE AddEntity(list, printed, h[s \ {Max(s)}], items[Max(s)])]
           out == CHOOSE h : h = Body(h)
<1>0. k \in Nat /\ DOMAIN items = 1..k
  OBVIOUS
<1>1. none \in S /\ Handled(none) = 0
  <2>1. <<>> \in Seq(D) /\ <<>> \in Seq(X) /\ Len(<<>>) = 0
    OBVIOUS
  <2>2. IsInjective(<<>>)
    BY DEF IsInjective
  <2>3. none.verified = <<>> /\ none.unverified = <<>> /\ none.dropped = <<>>
    OBVIOUS
  <2> QED  BY <2>1, <2>2, <2>3 DEF Outcome, Handled
<1>2. \A i \in 1..k, o \in S :
         /\ AddEntity(list, printed, o, items[i]) \in S
         /\ Handled(AddEntity(list, printed, o, items[i])) = Handled(o) + 1
  <2>1. \A i \in 1..k : items[i] \in X
    BY <1>0 DEF ToSet
  <2> HIDE DEF X
  <2> QED  BY <2>1, EntityAdded
<1>3. llm_process(list, items, printed) = out[DOMAIN items]
  BY Zenon DEF llm_process, FoldLeft, MapThenFoldSet
<1> HIDE DEF S, none
<1>4. IsStep(step, k, S)
  BY <1>2 DEF IsStep
<1>5. \A i \in 1..k, o \in S : step[<<i, o>>] = AddEntity(list, printed, o, items[i])
  OBVIOUS
<1> HIDE DEF step, k
<1>6. PICK h : IsFold(h, k, none, step) /\ h \in [SUBSET (1..k) -> S]
  BY <1>0, <1>1, <1>4, FoldExists
<1>7. h = Body(h)
  <2>1. ASSUME NEW s \in SUBSET (1..k), s # {}
        PROVE  step[<<Max(s), h[s \ {Max(s)}]>>] = AddEntity(list, printed, h[s \ {Max(s)}], items[Max(s)])
    <3>1. Max(s) \in s
      <4>1. s \in SUBSET (0..k)
        BY <1>0
      <4> QED  BY <1>0, <2>1, <4>1, MaxOf
    <3>2. h[s \ {Max(s)}] \in S
      BY <1>6
    <3> QED  BY <1>5, <3>1, <3>2
  <2>2. h = [s \in SUBSET (1..k) |-> IF s = {} THEN none ELSE step[<<Max(s), h[s \ {Max(s)}]>>]]
    BY <1>6 DEF IsFold
  <2> QED  BY <1>0, <2>1, <2>2
<1>8. out = Body(out)
  <2> HIDE DEF Body
  <2> QED  BY <1>7, Zenon
<1> HIDE DEF out
<1>9. /\ out[1..0] = none
      /\ \A i \in 1..k : out[1..i] = AddEntity(list, printed, out[1..i - 1], items[i])
  <2>1. out[1..0] = none
    <3>1. 1..0 = {} /\ {} \in SUBSET DOMAIN items
      OBVIOUS
    <3> QED  BY <1>8, <3>1
  <2>2. ASSUME NEW i \in 1..k
        PROVE  out[1..i] = AddEntity(list, printed, out[1..i - 1], items[i])
    <3> DEFINE s == 1..i
    <3>1. s \in SUBSET (1..k) /\ s # {} /\ i \in Nat /\ i \in s
      <4>1. k \in Nat /\ i \in Nat /\ 1 <= i /\ i <= k
        BY <1>0
      <4>2. i \in 1..i
        BY <4>1
      <4>3. \A m \in 1..i : m \in 1..k
        BY <4>1
      <4> QED  BY <4>1, <4>2, <4>3
    <3>2. Max(s) = i
      <4>1. s \in SUBSET (0..i) /\ \A m \in s : m <= i
        OBVIOUS
      <4>2. Max(s) \in s /\ \A m \in s : m <= Max(s)
        <5> HIDE DEF s
        <5> QED  BY <3>1, <4>1, MaxOf
      <4> QED  BY <3>1, <4>2
    <3>3. s \ {i} = 1..i - 1
      BY <3>1
    <3> HIDE DEF s
    <3>4. out[s] = AddEntity(list, printed, out[s \ {Max(s)}], items[Max(s)])
      BY <1>0, <1>8, <3>1
    <3> QED  BY <3>2, <3>3, <3>4 DEF s
  <2> QED  BY <2>1, <2>2
<1> DEFINE T == {i \in 0..k : out[1..i] \in S /\ Handled(out[1..i]) = i}
<1>12. 0 \in T
  BY <1>0, <1>1, <1>9
<1>13. ASSUME NEW i \in 1..k, i - 1 \in T  PROVE i \in T
  <2>1. i - 1 + 1 = i /\ i \in 0..k
    BY <1>0
  <2> QED  BY <1>2, <1>9, <1>13, <2>1
<1>14. k \in T
  <2>1. k \in 0..k
    BY <1>0
  <2> HIDE DEF T
  <2> QED  BY <1>0, <1>12, <1>13, <2>1, IntervalInduction
<1>15. llm_process(list, items, printed) = out[1..k]
  BY <1>0, <1>3
<1> QED  BY <1>14, <1>15 DEF S, k

(* Each company of the model's answer is counted once, and no stock is     *)
(* verified twice, whatever the model writes (llm_process, verify_entity). *)
THEOREM StocksGetOneEvent == Spec => []EachStockOnce
<1>1. Init => OrderInv
  BY DEF Init, OrderInv, Loaded, NoCache, Cache
<1>2. IInv /\ OrderInv => EachStockOnce
  <2> SUFFICES ASSUME IInv, OrderInv, Quiet PROVE EachStockOnce
    BY DEF EachStockOnce
  <2>1. Indexed(List)
    <3>1. List.entries = cache.entries /\ List.index = build_name_index(cache.indexed)
      BY DEF List
    <3> QED  BY <3>1, LoadedList DEF Quiet, Indexed, NamedByTexts
  <2>2. ASSUME NEW items \in Output, NEW printed \in Printed
        PROVE  LET out == llm_process(List, items, printed)
               IN  /\ Len(out.verified) + Len(out.unverified) + Len(out.dropped) = Len(items)
                   /\ IsInjective(out.verified)
                   /\ ToSet(out.verified) \subseteq DOMAIN List.entries
    <3> DEFINE out == llm_process(List, items, printed)
    <3>1. PICK X : out \in Outcome(DOMAIN List.entries, X)
      BY <2>1, SearchAssumption, AnswerProcessed
    <3>2. Handled(out) = Len(items)
      BY <2>1, SearchAssumption, AnswerProcessed
    <3> HIDE DEF out
    <3>3. out.verified \in Seq(DOMAIN List.entries) /\ IsInjective(out.verified)
      BY <3>1 DEF Outcome
    <3>4. ToSet(out.verified) \subseteq DOMAIN List.entries
      <4> DEFINE D == DOMAIN List.entries
                 s == out.verified
      <4>1. s \in Seq(D)
        BY <3>3
      <4> HIDE DEF D, s
      <4>2. ToSet(s) \subseteq D
        BY <4>1 DEF ToSet
      <4> QED  BY <4>2 DEF D, s
    <3> QED  BY <3>2, <3>3, <3>4 DEF Handled, out
  <2> QED  BY <2>2, Zenon DEF EachStockOnce
<1> QED  BY <1>1, <1>2, OrderInductive, Invariance, PTL DEF Spec

-----------------------------------------------------------------------------
LEMMA ShareIsInt ==
    ASSUME NEW part \in Int, NEW whole \in Int, whole > 0
    PROVE  Share(part, whole) \in Int
BY DEF Share, Scale

(* What a score is: how it was come by, and then, for a Chinese name that  *)
(* holds the query, four numbers, for the others two.                      *)
IsScore(s) == s \in Seq(Int) /\ Len(s) = (IF s[1] = 5 THEN 5 ELSE 3)

(* All words are hit just when as many are hit as there are.               *)
LEMMA HitsAre ==
    ASSUME NEW C, NEW words \in Seq(C), NEW others
    PROVE  /\ latin_word_hits(words, others) = Cardinality(Hits(words, others))
           /\ Hits(words, others) = DOMAIN words <=> latin_word_hits(words, others) = Len(words)
<1> DEFINE H == Hits(words, others)
<1>1. latin_word_hits(words, others) = Cardinality(H)
  BY DEF latin_word_hits, Hits, LATIN_PREFIX_LEN
<1>2. H \subseteq DOMAIN words /\ DOMAIN words = 1..Len(words) /\ Len(words) \in Nat
  BY DEF Hits
<1> HIDE DEF H
<1>3. IsFiniteSet(1..Len(words)) /\ Cardinality(1..Len(words)) = Len(words)
  <2> DEFINE k == Len(words)
  <2>1. k \in Nat
    BY <1>2
  <2> HIDE DEF k
  <2>2. IsFiniteSet(1..k) /\ Cardinality(1..k) = k
    BY <2>1, FS_Interval
  <2> QED  BY <2>2 DEF k
<1>4. H = DOMAIN words <=> Cardinality(H) = Len(words)
  BY <1>2, <1>3, FS_Subset
<1> QED  BY <1>1, <1>4 DEF H

(* English names score as measured, and by a tuple of three numbers.       *)
LEMMA LatinAsMeasured ==
    ASSUME NEW C, NEW q \in Seq(C), NEW n \in Seq(C)
    PROVE  LatinScore(q, n) = LatinKey(q, n)
<1> DEFINE name_hits == latin_word_hits(n, q)
           query_hits == latin_word_hits(q, n)
<1>1. Hits(n, q) = DOMAIN n <=> name_hits = Len(n)
  BY HitsAre
<1>2. Hits(q, n) = DOMAIN q <=> query_hits = Len(q)
  BY HitsAre
<1>3. LatinScore(q, n) =
        IF name_hits = Len(n) /\ Letters(n) >= LATIN_PREFIX_LEN
        THEN <<4, Share(name_hits, Len(q)), Len(n)>>
        ELSE IF query_hits = Len(q) THEN <<3, Share(query_hits, Len(n)), - Length(n)>> ELSE NoScore
  BY Zenon DEF LatinScore
<1>4. LATIN_PREFIX_LEN = 3
  BY DEF LATIN_PREFIX_LEN
<1> HIDE DEF name_hits, query_hits
<1>5. CASE name_hits = Len(n) /\ Letters(n) >= 3
  BY <1>1, <1>3, <1>4, <1>5, Zenon DEF LatinKey
<1>6. CASE ~ (name_hits = Len(n) /\ Letters(n) >= 3) /\ query_hits = Len(q)
  BY <1>1, <1>2, <1>3, <1>4, <1>6, Zenon DEF LatinKey
<1>7. CASE ~ (name_hits = Len(n) /\ Letters(n) >= 3) /\ query_hits # Len(q)
  BY <1>1, <1>2, <1>3, <1>4, <1>7, Zenon DEF LatinKey
<1> QED  BY <1>5, <1>6, <1>7

LEMMA LatinIsScore ==
    ASSUME NEW q \in Seq(Seq(STRING)), NEW n \in Seq(Seq(STRING)), Len(q) >= 1, Len(n) >= 1,
           LatinKey(q, n) # NoScore
    PROVE  IsScore(LatinKey(q, n))
<1>1. Len(q) \in Nat /\ Len(n) \in Nat
  OBVIOUS
<1>2. Share(Len(n), Len(q)) \in Int /\ Share(Len(q), Len(n)) \in Int
  BY <1>1, ShareIsInt
<1>3. Length(n) \in Nat
  <2>1. Chars(n) \in Seq(Char)
    BY CharsAre
  <2> HIDE DEF Char
  <2> QED  BY <2>1 DEF Length
<1>4. \A a, b \in Int : IsScore(<<4, a, b>>) /\ IsScore(<<3, a, b>>)
  BY DEF IsScore
<1>5. - Length(n) \in Int /\ Len(n) \in Int
  BY <1>1, <1>3
<1>6. LatinKey(q, n) \in {<<4, Share(Len(n), Len(q)), Len(n)>>, <<3, Share(Len(q), Len(n)), - Length(n)>>, NoScore}
  BY Zenon DEF LatinKey
<1> QED  BY <1>2, <1>4, <1>5, <1>6

-----------------------------------------------------------------------------
(* Chinese names score as measured unless they are the same.               *)
LEMMA ChineseAsMeasured ==
    ASSUME NEW C, NEW q \in Seq(C), NEW n \in Seq(C), q # n
    PROVE  ChineseScore(q, n) = ChineseKey(q, n)
<1> DEFINE tight == Tightest(q, n)
           held == <<5, Share(Len(q), tight.last - tight.first + 1),
                     IF tight.first = 1 THEN 1 ELSE 0, Share(Len(q), Len(n)), - Len(n)>>
           holds == <<4, Share(Len(n), Len(q)), Len(n)>>
<1>1. Len(q) \in Nat /\ Len(n) \in Nat
  OBVIOUS
<1>2. Embeddings(q, n) # {} => Len(q) <= Len(n)
  <2> SUFFICES ASSUME NEW places \in Embeddings(q, n) PROVE Len(q) <= Len(n)
    OBVIOUS
  <2>1. places \in SUBSET (1..Len(n)) /\ Cardinality(places) = Len(q)
    BY EmbeddingIs
  <2> DEFINE k == Len(n)
             m == Len(q)
  <2>2. k \in Nat /\ m \in Nat /\ places \in SUBSET (1..k) /\ Cardinality(places) = m
    BY <1>1, <2>1
  <2> HIDE DEF k, m
  <2>3. IsFiniteSet(1..k) /\ Cardinality(1..k) = k
    BY <2>2, FS_Interval
  <2>4. Cardinality(places) <= k
    BY <2>2, <2>3, FS_Subset
  <2> QED  BY <2>2, <2>4 DEF k, m
<1>3. is_subsequence(q, n) <=> Len(q) <= Len(n) /\ Embeddings(q, n) # {}
  BY <1>2, EmbeddedIsSubsequence, SubsequenceIsEmbedded
<1>4. is_subsequence(n, q) <=> Embeddings(n, q) # {}
  BY EmbeddedIsSubsequence, SubsequenceIsEmbedded
<1>5. Len(q) >= 2 /\ is_subsequence(q, n) => subsequence_span(q, n) = tight
  BY <1>1, SpanIsTightest
<1>6. ChineseKey(q, n) =
        IF Len(q) < 2 THEN NoScore
        ELSE IF Len(q) <= Len(n) /\ Embeddings(q, n) # {} THEN held
        ELSE IF Len(n) \in 3..Len(q) - 1 /\ Embeddings(n, q) # {} THEN holds ELSE NoScore
  BY Zenon DEF ChineseKey
<1>7. ChineseScore(q, n) =
        IF Len(q) < 2 THEN NoScore
        ELSE IF is_subsequence(q, n)
        THEN LET span == subsequence_span(q, n)
             IN  <<5, Share(Len(q), span.last - span.first + 1),
                   IF span.first = 1 THEN 1 ELSE 0, Share(Len(q), Len(n)), - Len(n)>>
        ELSE IF Len(n) \in 3..Len(q) - 1 /\ is_subsequence(n, q) THEN holds ELSE NoScore
  BY Zenon DEF ChineseScore, CJK_MIN_QUERY_LEN
<1>8. Len(q) >= 2 /\ is_subsequence(q, n) => ChineseScore(q, n) = held
  <2> SUFFICES ASSUME Len(q) >= 2, is_subsequence(q, n) PROVE ChineseScore(q, n) = held
    OBVIOUS
  <2>1. ~ (Len(q) < 2)
    BY <1>1
  <2> HIDE DEF tight
  <2> QED  BY <1>5, <1>7, <2>1, Zenon
<1> HIDE DEF tight, held, holds
<1>9. CASE Len(q) < 2
  BY <1>6, <1>7, <1>9, Zenon
<1>10. CASE Len(q) >= 2 /\ is_subsequence(q, n)
  <2>1. ~ (Len(q) < 2)
    BY <1>1, <1>10
  <2> QED  BY <1>3, <1>6, <1>8, <1>10, <2>1, Zenon
<1>11. CASE Len(q) >= 2 /\ ~ is_subsequence(q, n)
  <2>1. ~ (Len(q) < 2)
    BY <1>1, <1>11
  <2> QED  BY <1>3, <1>4, <1>6, <1>7, <1>11, <2>1, Zenon
<1> QED  BY <1>1, <1>9, <1>10, <1>11

(* The score of a Chinese name is a tuple of three or five numbers.        *)
LEMMA ChineseIsScore ==
    ASSUME NEW C, NEW q \in Seq(C), NEW n \in Seq(C), q # n, ChineseKey(q, n) # NoScore
    PROVE  IsScore(ChineseKey(q, n))
<1> DEFINE span == Tightest(q, n)
           part == Share(Len(q), span.last - span.first + 1)
           starts == IF span.first = 1 THEN 1 ELSE 0
           held == <<5, part, starts, Share(Len(q), Len(n)), - Len(n)>>
           holds == <<4, Share(Len(n), Len(q)), Len(n)>>
<1>1. Len(q) \in Nat /\ Len(n) \in Nat
  OBVIOUS
<1>2. \/ ~ (Len(q) < 2) /\ Embeddings(q, n) # {} /\ ChineseKey(q, n) = held
      \/ ~ (Len(q) < 2) /\ ChineseKey(q, n) = holds
  BY Zenon DEF ChineseKey
<1>3. \A a, b, c, d \in Int : IsScore(<<4, a, b>>) /\ IsScore(<<5, a, b, c, d>>)
  BY DEF IsScore
<1>4. CASE ~ (Len(q) < 2) /\ Embeddings(q, n) # {} /\ ChineseKey(q, n) = held
  <2>1. Len(q) >= 1 /\ Len(q) \in Int
    BY <1>1, <1>4
  <2>2. is_subsequence(q, n)
    BY <1>4, EmbeddedIsSubsequence
  <2>3. /\ span.first \in 1..Len(n) /\ span.last \in 1..Len(n) /\ span.first <= span.last
    BY <2>1, <2>2, SpanIsTightest
  <2> HIDE DEF span
  <2>4. span.last - span.first + 1 \in Int /\ span.last - span.first + 1 > 0 /\ Len(n) \in Int /\ Len(n) > 0
    BY <1>1, <2>3
  <2>5. part \in Int /\ Share(Len(q), Len(n)) \in Int
    BY <2>1, <2>4, ShareIsInt
  <2>6. starts \in Int /\ - Len(n) \in Int
    BY <1>1
  <2> HIDE DEF part, starts
  <2> QED  BY <1>3, <1>4, <2>5, <2>6
<1>5. CASE ~ (Len(q) < 2) /\ ChineseKey(q, n) = holds
  <2>1. Len(q) > 0 /\ Len(q) \in Int /\ Len(n) \in Int
    BY <1>1, <1>5
  <2>2. Share(Len(n), Len(q)) \in Int
    BY <2>1, ShareIsInt
  <2> QED  BY <1>3, <1>5, <2>1, <2>2
<1> QED  BY <1>2, <1>4, <1>5

-----------------------------------------------------------------------------
(* Scores are compared from the left: a strict total order.                *)
LEMMA ScoreIndices ==
    ASSUME NEW s, IsScore(s)
    PROVE  /\ Len(s) \in Nat /\ DOMAIN s = 1..Len(s) /\ 1 \in DOMAIN s
           /\ \A i \in 1..Len(s) : s[i] \in Int
<1>1. s \in Seq(Int) /\ (Len(s) = 5 \/ Len(s) = 3)
  BY DEF IsScore
<1> QED  BY <1>1

LEMMA HigherIsIrreflexive == ASSUME NEW s, IsScore(s)  PROVE ~ Higher(s, s)
<1> SUFFICES ASSUME NEW i \in DOMAIN s, s[i] > s[i]  PROVE FALSE
  BY DEF Higher
<1>1. s[i] \in Int
  BY ScoreIndices
<1> QED  BY <1>1

LEMMA HigherIsTransitive ==
    ASSUME NEW s, NEW t, NEW u, IsScore(s), IsScore(t), IsScore(u), Higher(s, t), Higher(t, u)
    PROVE  Higher(s, u)
<1>1. PICK i \in DOMAIN s \intersect DOMAIN t : s[i] > t[i] /\ \A j \in 1..i - 1 : s[j] = t[j]
  BY DEF Higher
<1>2. PICK k \in DOMAIN t \intersect DOMAIN u : t[k] > u[k] /\ \A j \in 1..k - 1 : t[j] = u[j]
  BY DEF Higher
<1>3. /\ Len(s) \in Nat /\ Len(t) \in Nat /\ Len(u) \in Nat
      /\ DOMAIN s = 1..Len(s) /\ DOMAIN t = 1..Len(t) /\ DOMAIN u = 1..Len(u)
      /\ i \in 1..Len(s) /\ i \in 1..Len(t) /\ k \in 1..Len(t) /\ k \in 1..Len(u)
  BY <1>1, <1>2, ScoreIndices
<1>4. \A j \in 1..Len(s) : s[j] \in Int
  BY ScoreIndices
<1>5. \A j \in 1..Len(t) : t[j] \in Int
  BY ScoreIndices
<1>6. \A j \in 1..Len(u) : u[j] \in Int
  BY ScoreIndices
<1>7. CASE i < k
  <2>1. i \in 1..k - 1 /\ i \in 1..Len(u) /\ \A j \in 1..i - 1 : j \in 1..k - 1
    BY <1>3, <1>7
  <2>2. t[i] = u[i] /\ s[i] > u[i] /\ \A j \in 1..i - 1 : s[j] = u[j]
    BY <1>1, <1>2, <2>1
  <2> QED  BY <1>3, <2>1, <2>2 DEF Higher
<1>8. CASE k < i
  <2>1. k \in 1..i - 1 /\ k \in 1..Len(s) /\ \A j \in 1..k - 1 : j \in 1..i - 1
    BY <1>3, <1>8
  <2>2. s[k] = t[k] /\ s[k] > u[k] /\ \A j \in 1..k - 1 : s[j] = u[j]
    BY <1>1, <1>2, <2>1
  <2> QED  BY <1>3, <2>1, <2>2 DEF Higher
<1>9. CASE i = k
  <2>1. s[i] \in Int /\ t[i] \in Int /\ u[i] \in Int
    BY <1>3, <1>4, <1>5, <1>6, <1>9
  <2>2. s[i] > u[i] /\ \A j \in 1..i - 1 : s[j] = u[j]
    BY <1>1, <1>2, <1>9, <2>1
  <2> QED  BY <1>3, <1>9, <2>2 DEF Higher
<1> QED  BY <1>3, <1>7, <1>8, <1>9

LEMMA HigherIsTotal ==
    ASSUME NEW s, NEW t, IsScore(s), IsScore(t), s # t
    PROVE  Higher(s, t) \/ Higher(t, s)
<1>1. /\ Len(s) \in Nat /\ DOMAIN s = 1..Len(s) /\ 1 \in DOMAIN s
      /\ Len(t) \in Nat /\ DOMAIN t = 1..Len(t) /\ 1 \in DOMAIN t
  BY ScoreIndices
<1>2. \A j \in 1..Len(s) : s[j] \in Int
  BY ScoreIndices
<1>3. \A j \in 1..Len(t) : t[j] \in Int
  BY ScoreIndices
<1>4. ASSUME NEW i \in 1..Len(s), i \in 1..Len(t), s[i] # t[i], \A j \in 1..i - 1 : s[j] = t[j]
      PROVE  Higher(s, t) \/ Higher(t, s)
  <2>1. s[i] \in Int /\ t[i] \in Int
    BY <1>2, <1>3, <1>4
  <2>2. s[i] > t[i] \/ t[i] > s[i]
    BY <1>4, <2>1
  <2> QED  BY <1>1, <1>4, <2>2 DEF Higher
<1>5. CASE s[1] # t[1]
  <2>1. 1 \in 1..Len(s) /\ 1 \in 1..Len(t) /\ \A j \in 1..1 - 1 : s[j] = t[j]
    BY <1>1
  <2> QED  BY <1>4, <1>5, <2>1
<1>6. CASE s[1] = t[1]
  <2>1. Len(s) = Len(t)
    BY <1>6 DEF IsScore
  <2> DEFINE T == {i \in 1..Len(s) : s[i] # t[i]}
  <2>2. T # {}
    <3> SUFFICES ASSUME \A i \in 1..Len(s) : s[i] = t[i] PROVE FALSE
      OBVIOUS
    <3>1. s = [i \in 1..Len(s) |-> s[i]] /\ t = [i \in 1..Len(t) |-> t[i]]
      BY <1>1 DEF IsScore
    <3> QED  BY <2>1, <3>1
  <2>3. T \in SUBSET Nat
    BY <1>1
  <2> HIDE DEF T
  <2>4. PICK i \in T : \A m \in T : i <= m
    BY <2>2, <2>3, LeastNumber
  <2>5. i \in 1..Len(s) /\ s[i] # t[i]
    BY <2>4 DEF T
  <2>6. \A j \in 1..i - 1 : s[j] = t[j]
    <3> SUFFICES ASSUME NEW j \in 1..i - 1, s[j] # t[j] PROVE FALSE
      OBVIOUS
    <3>1. j \in 1..Len(s) /\ j < i /\ j \in Nat /\ i \in Nat
      BY <1>1, <2>5
    <3>2. j \in T
      BY <3>1 DEF T
    <3>3. i <= j
      BY <2>4, <3>2
    <3> QED  BY <3>1, <3>3
  <2> QED  BY <1>4, <2>1, <2>5, <2>6
<1> QED  BY <1>5, <1>6

(* A finite set of scores has one that every other is below.               *)
LEMMA HighestIs ==
    ASSUME NEW S, IsFiniteSet(S), S # {}, \A s \in S : IsScore(s)
    PROVE  Highest(S) \in S /\ \A t \in S : t # Highest(S) => Higher(Highest(S), t) /\ ~ Higher(t, Highest(S))
<1> DEFINE above == {x \in S \X S : Higher(x[1], x[2])}
<1>1. \A x, y \in S : <<x, y>> \in above <=> Higher(x, y)
  OBVIOUS
<1> HIDE DEF above
<1>2. \A x \in S : <<x, x>> \notin above
  BY <1>1, HigherIsIrreflexive
<1>3. \A x, y, z \in S : <<x, y>> \in above /\ <<y, z>> \in above => <<x, z>> \in above
  BY <1>1, HigherIsTransitive
<1>4. \E x \in S : \A y \in S : <<y, x>> \notin above
  BY <1>2, <1>3, FiniteMaximal
<1>5. \E x \in S : \A y \in S : ~ Higher(y, x)
  BY <1>1, <1>4
<1>6. Highest(S) \in S /\ \A t \in S : ~ Higher(t, Highest(S))
  BY <1>5, Zenon DEF Highest
<1> QED  BY <1>6, HigherIsTotal

-----------------------------------------------------------------------------
(* The codes with the best score are those that have the top score of all. *)
LEMMA BestIsTied ==
    ASSUME NEW keyed, NEW K, \A e \in keyed : K[e] # {} /\ IsFiniteSet(K[e]) /\ \A s \in K[e] : IsScore(s),
           keyed # {}, IsFiniteSet(UNION {K[e] : e \in keyed})
    PROVE  \A m \in keyed : (\A o \in keyed : ~ Higher(Highest(K[o]), Highest(K[m])))
                               <=> Highest(UNION {K[e] : e \in keyed}) \in K[m]
<1> DEFINE U == UNION {K[e] : e \in keyed}
           top == Highest(U)
<1>1. U # {} /\ \A s \in U : IsScore(s)
  OBVIOUS
<1>2. \A e \in keyed : K[e] \subseteq U
  OBVIOUS
<1>8. \A s \in U : \E e \in keyed : s \in K[e]
  OBVIOUS
<1> HIDE DEF U
<1>3. top \in U /\ \A t \in U : t # top => Higher(top, t) /\ ~ Higher(t, top)
  BY <1>1, HighestIs DEF U
<1>4. ~ Higher(top, top)
  BY <1>1, <1>3, HigherIsIrreflexive
<1> HIDE DEF top
<1>5. ASSUME NEW e \in keyed
      PROVE  /\ Highest(K[e]) \in K[e] /\ Highest(K[e]) \in U
             /\ top \in K[e] => Highest(K[e]) = top
  <2>1. Highest(K[e]) \in K[e] /\ \A t \in K[e] : t # Highest(K[e]) => Higher(Highest(K[e]), t)
    BY HighestIs
  <2>2. Highest(K[e]) \in U
    BY <1>2, <2>1
  <2>3. ASSUME top \in K[e], Highest(K[e]) # top PROVE FALSE
    <3>1. Higher(Highest(K[e]), top)
      BY <2>1, <2>3
    <3> QED  BY <1>3, <2>2, <2>3, <3>1
  <2> QED  BY <2>1, <2>2, <2>3
<1>6. ASSUME NEW m \in keyed, top \in K[m], NEW o \in keyed
      PROVE  ~ Higher(Highest(K[o]), Highest(K[m]))
  <2>1. Highest(K[m]) = top /\ Highest(K[o]) \in U
    BY <1>5, <1>6
  <2> QED  BY <1>3, <1>4, <2>1
<1>7. ASSUME NEW m \in keyed, \A o \in keyed : ~ Higher(Highest(K[o]), Highest(K[m]))
      PROVE  top \in K[m]
  <2>1. PICK e \in keyed : top \in K[e]
    BY <1>3, <1>8
  <2>2. Highest(K[e]) = top
    BY <1>5, <2>1
  <2>3. Highest(K[m]) = top
    BY <1>3, <1>5, <1>7, <2>2
  <2> QED  BY <1>5, <2>3
<1> QED  BY <1>6, <1>7 DEF top, U

-----------------------------------------------------------------------------
(* A text that reads as one script whatever is left out of it.             *)
OfOneScript(full) == full \in Text /\ ~ OfTwoScripts(full)

(* The variants of such a text are of the same script.                     *)
LEMMA VariantOfOneScript ==
    ASSUME NEW full, OfOneScript(full), NEW v \in name_variants(full)
    PROVE  /\ v \in Seq(Seq(STRING)) /\ Len(v) >= 1 /\ Len(v) \in Nat
           /\ isascii(v) = isascii(full)
           /\ ~ isascii(full) => Len(v) = 1
<1>1. v \in Seq(Seq(STRING)) /\ v # <<>> /\ (~ isascii(full) => Len(v) = 1)
  BY VariantsAre DEF OfOneScript
<1>2. isascii(v) = isascii(full)
  BY Zenon DEF OfOneScript, OfTwoScripts
<1> DEFINE W == Seq(STRING)
<1>3. v \in Seq(W) /\ v # <<>>
  BY <1>1
<1> HIDE DEF W
<1>4. Len(v) >= 1 /\ Len(v) \in Nat
  BY <1>3
<1> QED  BY <1>1, <1>2, <1>4

(* How a variant of the query scores against one of a listed name.         *)
KeyOf(query, q, n) == IF isascii(query) THEN LatinKey(q, n) ELSE ChineseKey(Chars(q), Chars(n))

(* One variant of a name against another, and all those of a name.         *)
LEMMA ScoreAsMeasured ==
    ASSUME NEW query, OfOneScript(query), NEW own, OfOneScript(own), isascii(own) = isascii(query),
           NEW q \in name_variants(query), NEW n \in name_variants(own), q # n
    PROVE  /\ score(q, n) = KeyOf(query, q, n)
           /\ KeyOf(query, q, n) # NoScore => IsScore(KeyOf(query, q, n))
<1>1. /\ q \in Seq(Seq(STRING)) /\ Len(q) >= 1 /\ Len(q) \in Nat /\ isascii(q) = isascii(query)
      /\ ~ isascii(query) => Len(q) = 1
  BY VariantOfOneScript
<1>2. /\ n \in Seq(Seq(STRING)) /\ Len(n) >= 1 /\ Len(n) \in Nat /\ isascii(n) = isascii(query)
      /\ ~ isascii(query) => Len(n) = 1
  BY VariantOfOneScript
<1>3. score(q, n) = IF isascii(query) THEN LatinScore(q, n) ELSE ChineseScore(Chars(q), Chars(n))
  BY <1>1, <1>2, Zenon DEF score
<1>4. CASE isascii(query)
  <2>1. LatinScore(q, n) = LatinKey(q, n)
    <3> DEFINE W == Seq(STRING)
    <3>1. q \in Seq(W) /\ n \in Seq(W)
      BY <1>1, <1>2
    <3> HIDE DEF W
    <3> QED  BY <3>1, LatinAsMeasured
  <2>2. LatinKey(q, n) # NoScore => IsScore(LatinKey(q, n))
    BY <1>1, <1>2, LatinIsScore
  <2> QED  BY <1>3, <1>4, <2>1, <2>2, Zenon DEF KeyOf
<1>5. CASE ~ isascii(query)
  <2> DEFINE x == Chars(q)
             y == Chars(n)
  <2>1. x \in Seq(Char) /\ y \in Seq(Char) /\ x = q[1] /\ y = n[1]
    BY <1>1, <1>2, <1>5, CharsAre
  <2>2. x # y
    <3> DEFINE W == Seq(STRING)
    <3>1. q \in Seq(W) /\ n \in Seq(W) /\ Len(q) = 1 /\ Len(n) = 1 /\ q # n
      BY <1>1, <1>2, <1>5
    <3> HIDE DEF W
    <3>2. q[1] # n[1]
      BY <3>1
    <3> QED  BY <2>1, <3>2
  <2> HIDE DEF x, y, Char
  <2>3. ChineseScore(x, y) = ChineseKey(x, y)
    BY <2>1, <2>2, ChineseAsMeasured
  <2>4. ChineseKey(x, y) # NoScore => IsScore(ChineseKey(x, y))
    BY <2>1, <2>2, ChineseIsScore
  <2> QED  BY <1>3, <1>5, <2>3, <2>4, Zenon DEF KeyOf, x, y
<1> QED  BY <1>4, <1>5

LEMMA ScoresAreKeys ==
    ASSUME NEW query, OfOneScript(query), NEW own, OfOneScript(own), NEW e,
           e = [stock_code |-> e.stock_code, variants |-> name_variants(own), latin |-> isascii(own)],
           e.latin = isascii(query), e.variants \intersect name_variants(query) = {}
    PROVE  /\ Scores(e, query) = Keys(e, query)
           /\ \A s \in Keys(e, query) : IsScore(s)
           /\ IsFiniteSet(Keys(e, query))
<1> DEFINE Q == name_variants(query)
           V == name_variants(own)
<1>1. e.variants = V /\ isascii(own) = isascii(query)
  <2> DEFINE b == isascii(own)
  <2>1. e = [stock_code |-> e.stock_code, variants |-> V, latin |-> b]
    OBVIOUS
  <2> HIDE DEF V, b
  <2>2. e.variants = V /\ e.latin = b
    BY <2>1
  <2> QED  BY <2>2 DEF b
<1>2. \A q \in Q, n \in V : /\ score(q, n) = KeyOf(query, q, n)
                            /\ KeyOf(query, q, n) # NoScore => IsScore(KeyOf(query, q, n))
  <2> SUFFICES ASSUME NEW q \in Q, NEW n \in V
               PROVE  /\ score(q, n) = KeyOf(query, q, n)
                      /\ KeyOf(query, q, n) # NoScore => IsScore(KeyOf(query, q, n))
    OBVIOUS
  <2>1. q # n
    BY <1>1
  <2> QED  BY <1>1, <2>1, ScoreAsMeasured
<1>3. Scores(e, query) = {score(q, n) : q \in Q, n \in V} \ {NoScore}
  BY <1>1 DEF Scores
<1>4. Keys(e, query) = {KeyOf(query, q, n) : q \in Q, n \in V} \ {NoScore}
  <2>1. Keys(e, query) = {KeyOf(query, q, n) : q \in Q, n \in e.variants} \ {NoScore}
    BY DEF Keys, KeyOf
  <2> QED  BY <1>1, <2>1
<1>5. IsFiniteSet(Q) /\ IsFiniteSet(V)
  BY VariantsFinite
<1> HIDE DEF Q, V
<1>6. {score(q, n) : q \in Q, n \in V} = {KeyOf(query, q, n) : q \in Q, n \in V}
  BY <1>2
<1>7. \A s \in Keys(e, query) : IsScore(s)
  BY <1>2, <1>4
<1>8. IsFiniteSet(Keys(e, query))
  <2> DEFINE all == {KeyOf(query, q, n) : q \in Q, n \in V}
             f == [x \in Q \X V |-> KeyOf(query, x[1], x[2])]
  <2>1. f \in Surjection(Q \X V, all)
    <3>1. \A x \in Q \X V : f[x] \in all
      OBVIOUS
    <3>2. \A k \in all : \E x \in Q \X V : f[x] = k
      <4> SUFFICES ASSUME NEW q \in Q, NEW n \in V PROVE \E x \in Q \X V : f[x] = KeyOf(query, q, n)
        OBVIOUS
      <4>1. <<q, n>> \in Q \X V /\ f[<<q, n>>] = KeyOf(query, q, n)
        OBVIOUS
      <4> QED  BY <4>1
    <3>3. f \in [Q \X V -> all]
      BY <3>1
    <3> HIDE DEF f, all
    <3> QED  BY <3>2, <3>3 DEF Surjection
  <2>2. IsFiniteSet(Q \X V)
    BY <1>5, FS_Product
  <2> HIDE DEF f, all
  <2>3. IsFiniteSet(all)
    BY <2>1, <2>2, FS_Surjection
  <2>4. Keys(e, query) \in SUBSET all
    BY <1>4 DEF all
  <2> QED  BY <2>3, <2>4, FS_Subset
<1>9. Scores(e, query) = Keys(e, query)
  <2> DEFINE A == {score(q, n) : q \in Q, n \in V}
             B == {KeyOf(query, q, n) : q \in Q, n \in V}
  <2>1. Scores(e, query) = A \ {NoScore} /\ Keys(e, query) = B \ {NoScore} /\ A = B
    BY <1>3, <1>4, <1>6
  <2> HIDE DEF A, B
  <2> QED  BY <2>1
<1> QED  BY <1>7, <1>8, <1>9, Zenon

-----------------------------------------------------------------------------
(* The names the index offers are the candidates of the same script.       *)
LEMMA PoolIsCandidates ==
    ASSUME NEW entries, NEW full
    PROVE  LET index == build_name_index(entries)
           IN  scoring_pool(index, full) = Candidates(index.names, full)
<1> DEFINE index == build_name_index(entries)
           names == index.names
           latin == {e \in names : e.latin}
           by == index.names_by_latin_prefix
           P == Prefixes3(name_variants(full))
<1>1. by = [p \in UNION {Prefixes3(e.variants) : e \in latin} |->
                {e \in latin : p \in Prefixes3(e.variants)}]
  BY Zenon DEF build_name_index
<1>2. \A e \in names : e.latin \in BOOLEAN
  <2> SUFFICES ASSUME NEW e \in names PROVE e.latin \in BOOLEAN
    OBVIOUS
  <2>1. PICK code \in DOMAIN entries : \E own \in FullNames(entries[code]) :
           e = [stock_code |-> code, variants |-> name_variants(own), latin |-> isascii(own)]
    BY NameOfIndex
  <2>2. PICK own \in FullNames(entries[code]) :
           e = [stock_code |-> code, variants |-> name_variants(own), latin |-> isascii(own)]
    BY <2>1
  <2>3. isascii(own) \in BOOLEAN
    BY Zenon DEF isascii
  <2>4. e.latin = isascii(own)
    BY <2>2
  <2> QED  BY <2>3, <2>4
<1>3. scoring_pool(index, full) =
        IF isascii(full) THEN UNION {by[p] : p \in P \intersect DOMAIN by} ELSE {e \in names : ~ e.latin}
  BY Zenon DEF scoring_pool
<1>4. Candidates(names, full) =
        {e \in names : e.latin = isascii(full) /\ (e.latin => Prefixes3(e.variants) \intersect P # {})}
  BY Zenon DEF Candidates
<1>5. isascii(full) \in BOOLEAN
  BY Zenon DEF isascii
<1> HIDE DEF index, names, by, P
<1>6. CASE isascii(full)
  <2>1. \A p \in DOMAIN by : by[p] = {e \in latin : p \in Prefixes3(e.variants)}
    BY <1>1
  <2>2. \A e : e \in UNION {by[p] : p \in P \intersect DOMAIN by} <=>
                 e \in latin /\ Prefixes3(e.variants) \intersect P # {}
    <3>1. \A e \in latin : Prefixes3(e.variants) \subseteq DOMAIN by
      BY <1>1
    <3> QED  BY <2>1, <3>1
  <2>3. \A e : e \in Candidates(names, full) <=> e \in latin /\ Prefixes3(e.variants) \intersect P # {}
    BY <1>2, <1>4, <1>6, Zenon
  <2> QED  BY <1>3, <1>6, <2>2, <2>3 DEF names, index
<1>7. CASE ~ isascii(full)
  <2>1. \A e \in names : e.latin = isascii(full) <=> ~ e.latin
    BY <1>2, <1>5, <1>7
  <2>2. Candidates(names, full) = {e \in names : ~ e.latin}
    BY <1>4, <2>1
  <2> QED  BY <1>3, <1>7, <2>2 DEF names, index
<1> QED  BY <1>6, <1>7

(* A finite list has a finite index.                                       *)
LEMMA NamesFinite ==
    ASSUME NEW entries, NamedByTexts(entries)
    PROVE  IsFiniteSet(build_name_index(entries).names)
<1> DEFINE Own(code) == {[stock_code |-> code, variants |-> name_variants(full), latin |-> isascii(full)] :
                            full \in FullNames(entries[code])}
           D == DOMAIN entries
           all == {Own(code) : code \in D}
           names == build_name_index(entries).names
<1>1. names = UNION all
  BY NamesOfIndex
<1>2. ASSUME NEW code \in D  PROVE IsFiniteSet(Own(code))
  <2> DEFINE a == normalize(entries[code].zh)
             b == normalize(entries[code].en)
             Name(full) == [stock_code |-> code, variants |-> name_variants(full), latin |-> isascii(full)]
             two == {Name(a), Name(b)}
  <2>1. Own(code) \in SUBSET two
    BY Zenon DEF FullNames
  <2> HIDE DEF a, b, Name
  <2>2. IsFiniteSet(two)
    <3>1. IsFiniteSet({Name(a)}) /\ IsFiniteSet({Name(b)})
      BY FS_Singleton
    <3>2. IsFiniteSet({Name(a)} \cup {Name(b)})
      BY <3>1, FS_Union
    <3>3. two = {Name(a)} \cup {Name(b)}
      OBVIOUS
    <3> QED  BY <3>2, <3>3
  <2> HIDE DEF two
  <2> QED  BY <2>1, <2>2, FS_Subset
<1>3. IsFiniteSet(all)
  <2> DEFINE f == [code \in D |-> Own(code)]
  <2>1. f \in Surjection(D, all)
    <3> HIDE DEF Own
    <3> QED  BY DEF Surjection
  <2>2. IsFiniteSet(D)
    BY DEF NamedByTexts
  <2> HIDE DEF f, all, D
  <2> QED  BY <2>1, <2>2, FS_Surjection
<1>4. \A T \in all : IsFiniteSet(T)
  BY <1>2
<1> HIDE DEF all, names
<1> QED  BY <1>1, <1>3, <1>4, FS_UNION DEF names

-----------------------------------------------------------------------------
(* A list all of whose names are of one script each.                       *)
EachOfOneScript(entries) ==
    \A code \in DOMAIN entries : \A full \in FullNames(entries[code]) : OfOneScript(full)

(* The scores of a candidate when no variant of it is the query's.         *)
LEMMA CandidateScores ==
    ASSUME NEW entries, EachOfOneScript(entries), NEW query, OfOneScript(query),
           ExactCodes(build_name_index(entries), query) = {},
           NEW e \in Candidates(build_name_index(entries).names, query)
    PROVE  /\ Scores(e, query) = Keys(e, query)
           /\ \A s \in Keys(e, query) : IsScore(s)
           /\ IsFiniteSet(Keys(e, query))
<1> DEFINE names == build_name_index(entries).names
<1>1. e \in names /\ e.latin = isascii(query)
  BY Zenon DEF Candidates
<1>2. PICK code \in DOMAIN entries : \E own \in FullNames(entries[code]) :
         e = [stock_code |-> code, variants |-> name_variants(own), latin |-> isascii(own)]
  BY <1>1, NameOfIndex
<1>3. PICK own \in FullNames(entries[code]) :
         e = [stock_code |-> code, variants |-> name_variants(own), latin |-> isascii(own)]
  BY <1>2
<1>4. e.stock_code = code
  BY <1>3
<1>5. OfOneScript(own)
  BY Zenon DEF EachOfOneScript
<1>6. e.variants \intersect name_variants(query) = {}
  <2> SUFFICES ASSUME e.variants \intersect name_variants(query) # {} PROVE FALSE
    OBVIOUS
  <2>1. e \in {n \in names : n.variants \intersect name_variants(query) # {}}
    BY <1>1
  <2>2. e.stock_code \in ExactCodes(build_name_index(entries), query)
    BY <2>1, Zenon DEF ExactCodes
  <2> QED  BY <2>2
<1>7. e = [stock_code |-> e.stock_code, variants |-> name_variants(own), latin |-> isascii(own)]
  BY <1>3, <1>4, Zenon
<1> HIDE DEF names
<1> QED  BY <1>1, <1>5, <1>6, <1>7, ScoresAreKeys

(* The names with the best score of their own are those that have the top  *)
(* key of all.                                                             *)
LEMMA BestAsMeasured ==
    ASSUME NEW entries, NamedByTexts(entries), EachOfOneScript(entries),
           NEW query, OfOneScript(query),
           ExactCodes(build_name_index(entries), query) = {}
    PROVE  LET C == Candidates(build_name_index(entries).names, query)
               keyed == {e \in C : Keys(e, query) # {}}
               top == Highest(UNION {Keys(e, query) : e \in keyed})
           IN  best_scoring_codes(C, query) =
                 IF keyed = {} THEN {} ELSE {e.stock_code : e \in {k \in keyed : top \in Keys(k, query)}}
<1> DEFINE C == Candidates(build_name_index(entries).names, query)
           keyed == {e \in C : Keys(e, query) # {}}
           K == [e \in C |-> Keys(e, query)]
           U == UNION {Keys(e, query) : e \in keyed}
           top == Highest(U)
           matching == {e \in C : Scores(e, query) # {}}
           winners == {m \in matching : \A o \in matching :
                          ~ Higher(Highest(Scores(o, query)), Highest(Scores(m, query)))}
<1>1. \A e \in C : /\ Scores(e, query) = Keys(e, query)
                   /\ \A s \in Keys(e, query) : IsScore(s)
                   /\ IsFiniteSet(Keys(e, query))
  BY CandidateScores
<1>2. IsFiniteSet(C)
  <2>1. C \in SUBSET build_name_index(entries).names
    BY Zenon DEF Candidates
  <2> HIDE DEF C
  <2> QED  BY <2>1, NamesFinite, FS_Subset
<1>3. best_scoring_codes(C, query) = {e.stock_code : e \in winners}
  BY Zenon DEF best_scoring_codes
<1> HIDE DEF C
<1>4. \A e \in C : K[e] = Keys(e, query)
  OBVIOUS
<1>5. keyed \subseteq C /\ \A e \in keyed : K[e] # {} /\ IsFiniteSet(K[e]) /\ \A s \in K[e] : IsScore(s)
  BY <1>1, <1>4
<1>6. matching = keyed
  BY <1>1
<1>7. {Keys(e, query) : e \in keyed} = {K[e] : e \in keyed}
  BY <1>4
<1>8. IsFiniteSet(UNION {K[e] : e \in keyed})
  <2> DEFINE all == {K[e] : e \in keyed}
             f == [e \in keyed |-> K[e]]
  <2>1. IsFiniteSet(keyed)
    BY <1>2, <1>5, FS_Subset
  <2>2. \A T \in all : IsFiniteSet(T)
    BY <1>5
  <2>3. f \in Surjection(keyed, all)
    <3> HIDE DEF keyed, K
    <3> QED  BY DEF Surjection
  <2> HIDE DEF all, f, keyed
  <2>4. IsFiniteSet(all)
    BY <2>1, <2>3, FS_Surjection
  <2>5. IsFiniteSet(UNION all)
    BY <2>2, <2>4, FS_UNION
  <2> QED  BY <2>5 DEF all
<1>9. U = UNION {K[e] : e \in keyed}
  BY <1>7
<1>10. \A m \in keyed, o \in keyed : Scores(m, query) = K[m] /\ Scores(o, query) = K[o]
  BY <1>1, <1>4, <1>5
<1> HIDE DEF K, keyed, U, matching
<1>11. ASSUME keyed # {}
       PROVE  \A m \in keyed : (\A o \in keyed : ~ Higher(Highest(K[o]), Highest(K[m]))) <=> top \in K[m]
  BY <1>5, <1>8, <1>9, <1>11, BestIsTied
<1>12. CASE keyed = {}
  <2>1. winners = {}
    BY <1>6, <1>12
  <2>2. {e.stock_code : e \in winners} = {}
    BY <2>1
  <2> QED  BY <1>3, <1>12, <2>2 DEF C, keyed
<1>13. CASE keyed # {}
  <2>1. \A m \in keyed : m \in winners <=> top \in K[m]
    BY <1>6, <1>10, <1>11, <1>13
  <2>2. winners \subseteq keyed
    BY <1>6
  <2>3. \A k \in keyed : K[k] = Keys(k, query)
    BY <1>4, <1>5
  <2> HIDE DEF winners, top
  <2>4. winners = {k \in keyed : top \in Keys(k, query)}
    BY <2>1, <2>2, <2>3
  <2> DEFINE tied == {e.stock_code : e \in {k \in keyed : top \in Keys(k, query)}}
  <2>5. best_scoring_codes(C, query) = tied
    BY <1>3, <2>4
  <2> HIDE DEF tied
  <2> QED  BY <1>13, <2>5 DEF tied, top, U, keyed, C
<1> QED  BY <1>12, <1>13

(* A search answers as measured.                                           *)
LEMMA SearchedAsMeasured ==
    ASSUME NEW entries, NamedByTexts(entries), EachOfOneScript(entries),
           NEW query, OfOneScript(query)
    PROVE  search(build_name_index(entries), query) = Answer(build_name_index(entries).names, query)
<1> DEFINE index == build_name_index(entries)
           exact == ExactCodes(index, query)
           C == Candidates(index.names, query)
           keyed == {e \in C : Keys(e, query) # {}}
           top == Highest(UNION {Keys(e, query) : e \in keyed})
           tied == {e.stock_code : e \in {k \in keyed : top \in Keys(k, query)}}
           best == best_scoring_codes(C, query)
<1>1. scoring_pool(index, query) = C
  BY PoolIsCandidates
<1>2. exact = {} => best = IF keyed = {} THEN {} ELSE tied
  BY BestAsMeasured
<1>3. Answer(index.names, query) =
        IF exact # {} THEN (IF Cardinality(exact) = 1 THEN exact ELSE {})
        ELSE IF keyed # {} /\ Cardinality(tied) = 1 THEN tied ELSE {}
  BY Zenon DEF Answer, ExactCodes
<1>4. Codes(index, query) = IF exact # {} THEN exact ELSE best
  BY <1>1, Zenon DEF Codes
<1>5. search(index, query) = IF Cardinality(Codes(index, query)) = 1 THEN Codes(index, query) ELSE {}
  BY Zenon DEF search
<1> HIDE DEF index, exact, keyed, tied, best
<1>6. CASE exact # {}
  BY <1>3, <1>4, <1>5, <1>6, Zenon DEF index
<1>7. CASE exact = {} /\ keyed = {}
  <2>1. Codes(index, query) = {}
    BY <1>2, <1>4, <1>7, Zenon
  <2> QED  BY <1>3, <1>5, <1>7, <2>1, Zenon DEF index
<1>8. CASE exact = {} /\ keyed # {}
  <2>1. Codes(index, query) = tied
    BY <1>2, <1>4, <1>8, Zenon
  <2> QED  BY <1>3, <1>5, <1>8, <2>1, Zenon DEF index
<1> QED  BY <1>6, <1>7, <1>8

(* The search by index finds what the matcher of the proof of concept      *)
(* finds, for every name and every list that comes to be loaded, as far as *)
(* no name mixes its scripts (lookup_stock, _best_scoring_codes).          *)
THEOREM SearchIsAsMeasured == Spec => []SearchesAsMeasured
<1>1. Init => OrderInv
  BY DEF Init, OrderInv, Loaded, NoCache, Cache
<1>2. IInv /\ OrderInv => SearchesAsMeasured
  <2> SUFFICES ASSUME IInv, OrderInv, Quiet PROVE SearchesAsMeasured
    BY Zenon DEF SearchesAsMeasured
  <2> DEFINE entries == Restrict(cache.indexed, PlainStocks)
  <2>1. NamedByTexts(cache.indexed)
    BY LoadedList DEF Quiet
  <2>2. DOMAIN entries = PlainStocks /\ PlainStocks \subseteq DOMAIN cache.indexed
        /\ \A code \in PlainStocks : entries[code] = cache.indexed[code]
    BY DEF Restrict, PlainStocks
  <2>3. \A code \in PlainStocks : \A full \in FullNames(cache.indexed[code]) : ~ OfTwoScripts(full)
    BY Zenon DEF PlainStocks
  <2> HIDE DEF entries
  <2>4. NamedByTexts(entries)
    <3>1. IsFiniteSet(DOMAIN cache.indexed)
      BY <2>1 DEF NamedByTexts
    <3>2. IsFiniteSet(PlainStocks)
      BY <2>2, <3>1, FS_Subset
    <3> QED  BY <2>1, <2>2, <3>2, Zenon DEF NamedByTexts
  <2>5. EachOfOneScript(entries)
    <3> SUFFICES ASSUME NEW code \in DOMAIN entries, NEW full \in FullNames(entries[code])
                 PROVE  OfOneScript(full)
      BY Zenon DEF EachOfOneScript
    <3>1. full \in Text
      BY <2>4, FullNamesAreTexts
    <3>2. ~ OfTwoScripts(full)
      BY <2>2, <2>3
    <3> QED  BY <3>1, <3>2 DEF OfOneScript
  <2>6. ASSUME NEW name \in Mention, ~ OfTwoScripts(name)
        PROVE  search(build_name_index(entries), name) = Answer(build_name_index(entries).names, name)
    <3>1. name \in Text
      BY SearchAssumption
    <3>2. OfOneScript(name)
      BY <2>6, <3>1 DEF OfOneScript
    <3> QED  BY <2>4, <2>5, <3>2, SearchedAsMeasured
  <2> QED  BY <2>6, Zenon DEF SearchesAsMeasured, entries
<1> QED  BY <1>1, <1>2, OrderInductive, Invariance, PTL DEF Spec

=============================================================================
