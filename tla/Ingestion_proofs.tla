-------------------------- MODULE Ingestion_proofs --------------------------
(***************************************************************************)
(* The ingestion service, for any number of articles, crawl executions and *)
(* workers, and whatever fails: its state keeps its type; no message is    *)
(* acknowledged before its article is decided on; what is reported as a    *)
(* success is stored; what is silenced is counted by failures and stops;   *)
(* and a second cleaned row takes an overdue claim.                        *)
(***************************************************************************)
EXTENDS Ingestion, FiniteSetTheorems, TLAPS

USE StoreAssumption, CrawlAssumption, CleaningAssumption, StopAssumption
    DEF StoreAssumption, CrawlAssumption, CleaningAssumption, StopAssumption

(* A worker that is not idle has a message.                                *)
Working == \A w \in Worker : worker[w] # "idle" => message[w] \in Article
TypeInv == TypeOK /\ Working

LEMMA TypeInit == Init => TypeInv
BY DEF Init, StoreInit, CrawlInit, CleaningInit, TypeInv, TypeOK, StoreTypeOK, CrawlTypeOK,
       CleaningTypeOK, Working, Stage, Page, Place, Status

-----------------------------------------------------------------------------
(* Crawling.                                                               *)
LEMMA ProceedTypes ==
    ASSUME StoreTypeOK, CrawlTypeOK, NEW x \in Execution, PostCrawl(x) \/ Proceed(x),
           UNCHANGED source
    PROVE  (StoreTypeOK /\ CrawlTypeOK)'
<1> USE DEF StoreTypeOK, CrawlTypeOK, storeVars, Stage, Page, Status, Go, Articles
<1>1. CASE PostCrawl(x)
  BY <1>1 DEF PostCrawl
<1>2. CASE Discover(x)
  <2>1. PICK s \in Source : Finds(x, s) /\ crawl[x] = "discover"
    BY <1>2 DEF Discover, CollectAnnouncements, ExtractArticleUrls, ReadEntries, ReadDescriptions,
                Lists, Source
  <2>2. page' \in [Execution -> [Article -> Page]]
    BY <2>1 DEF Finds
  <2>3. crawl' \in [Execution -> Stage]
    BY <2>1 DEF Finds
  <2> QED  BY <2>1, <2>2, <2>3 DEF Finds
<1>3. CASE ReturnResult(x)
  BY <1>3 DEF ReturnResult
<1>4. CASE PublishInserted(x)
  BY <1>4 DEF PublishInserted, Announces, Signal
<1>5. CASE PublishSuccess(x)
  BY <1>5 DEF PublishSuccess, Report
<1>6. CASE PublishFailed(x)
  BY <1>6 DEF PublishFailed, Report
<1>7. ASSUME NEW a \in Article, CheckErrorLog(x, a)
      PROVE  (StoreTypeOK /\ CrawlTypeOK)'
  <2>1. PICK end \in {"skipped", "queue"} : Turn(x, a, end)
    BY <1>7 DEF CheckErrorLog
  <2> QED  BY <1>7, <2>1 DEF CheckErrorLog, Turn
<1>8. ASSUME NEW a \in Article, AcquirePermit(x, a)
      PROVE  (StoreTypeOK /\ CrawlTypeOK)'
  BY <1>8 DEF AcquirePermit, Fetching, Turn
<1>9. ASSUME NEW a \in Article, FetchPage(x, a)
      PROVE  (StoreTypeOK /\ CrawlTypeOK)'
  <2>1. PICK end \in PageEnds : Turn(x, a, end)
    BY <1>9 DEF FetchPage, FetchOnePdf, FetchOneArticle, FetchOneEntry
  <2> QED  BY <1>9, <2>1 DEF FetchPage, PageEnds, Turn
<1>10. ASSUME NEW a \in Article, SaveCrawlError(x, a)
       PROVE  (StoreTypeOK /\ CrawlTypeOK)'
  BY <1>10 DEF SaveCrawlError, Persists
<1>11. ASSUME NEW a \in Article, InsertRaw(x, a)
       PROVE  (StoreTypeOK /\ CrawlTypeOK)'
  <2>1. CASE UNCHANGED <<rawNews, hand>>
    BY <1>11, <2>1 DEF InsertRaw, Persists
  <2>2. CASE Insert(a) /\ hand' = [hand EXCEPT ![x] = a]
    BY <1>11, <2>2 DEF InsertRaw, Persists, Insert
  <2> QED  BY <1>11, <2>1, <2>2 DEF InsertRaw
<1>12. ASSUME NEW a \in Article, ProcessEntry(x, a)
       PROVE  (StoreTypeOK /\ CrawlTypeOK)'
  BY <1>12 DEF ProcessEntry, Fetching, Turn
<1> QED
  BY <1>1, <1>2, <1>3, <1>4, <1>5, <1>6, <1>7, <1>8, <1>9, <1>10, <1>11, <1>12 DEF Proceed

LEMMA ProceedFailsTypes ==
    ASSUME StoreTypeOK, CrawlTypeOK, NEW x \in Execution, ProceedFails(x),
           UNCHANGED source
    PROVE  (StoreTypeOK /\ CrawlTypeOK)'
<1> USE DEF StoreTypeOK, CrawlTypeOK, storeVars, Stage, Page, Status, Go, Fault
<1>1. CASE DiscoverFails(x) \/ CheckCoverageGapFails(x)
  <2>1. Abandons(x) /\ (UNCHANGED faults \/ Fault)
    BY <1>1 DEF DiscoverFails, CheckCoverageGapFails
  <2>2. crawl' \in [Execution -> Stage]
    BY <2>1 DEF Abandons
  <2> QED  BY <2>1, <2>2 DEF Abandons
<1>2. CASE PublishInsertedFails(x)
  BY <1>2 DEF PublishInsertedFails, Announces, Signal
<1>3. CASE PublishSuccessFails(x)
  <2>1. /\ Fault /\ Go(x, "failed")
        /\ Report(x, "SUCCESS") \/ UNCHANGED completed
        /\ UNCHANGED <<page, attempt, left, hand, errorLog, storeVars>>
    BY <1>3 DEF PublishSuccessFails
  <2>2. crawl' \in [Execution -> Stage]
    BY <2>1
  <2>3. completed' \in [Execution -> SUBSET Status]
    <3>1. CASE Report(x, "SUCCESS")
      BY <3>1 DEF Report
    <3>2. CASE UNCHANGED completed
      BY <3>2
    <3> QED  BY <2>1, <3>1, <3>2
  <2> HIDE DEF Go, Stage, Status
  <2> QED  BY <2>1, <2>2, <2>3
<1>4. CASE PublishFailedFails(x)
  <2>1. /\ Fault /\ Go(x, "over")
        /\ Report(x, "FAILED") \/ UNCHANGED completed
        /\ UNCHANGED <<page, attempt, left, hand, errorLog, storeVars>>
    BY <1>4 DEF PublishFailedFails
  <2>2. crawl' \in [Execution -> Stage]
    BY <2>1
  <2>3. completed' \in [Execution -> SUBSET Status]
    <3>1. CASE Report(x, "FAILED")
      BY <3>1 DEF Report
    <3>2. CASE UNCHANGED completed
      BY <3>2
    <3> QED  BY <2>1, <3>1, <3>2
  <2> HIDE DEF Go, Stage, Status
  <2> QED  BY <2>1, <2>2, <2>3
<1>5. ASSUME NEW a \in Article, CheckErrorLogFails(x, a)
      PROVE  (StoreTypeOK /\ CrawlTypeOK)'
  <2>1. Abandons(x) /\ Fault
    BY <1>5 DEF CheckErrorLogFails
  <2>2. crawl' \in [Execution -> Stage]
    BY <2>1 DEF Abandons
  <2> QED  BY <2>1, <2>2 DEF Abandons
<1>6. ASSUME NEW a \in Article, FetchPageRaises(x, a)
      PROVE  (StoreTypeOK /\ CrawlTypeOK)'
  <2>1. Abandons(x) /\ UNCHANGED faults
    BY <1>6 DEF FetchPageRaises
  <2>2. crawl' \in [Execution -> Stage]
    BY <2>1 DEF Abandons
  <2> QED  BY <2>1, <2>2 DEF Abandons
<1>7. ASSUME NEW a \in Article, RetryPage(x, a)
      PROVE  (StoreTypeOK /\ CrawlTypeOK)'
  <2>1. CASE attempt' = [attempt EXCEPT ![x][a] = @ + 1] /\ attempt[x][a] < max_retry
             /\ UNCHANGED page
    <3>1. attempt[x][a] + 1 \in 0..max_retry
      BY <2>1
    <3> QED  BY <1>7, <2>1, <3>1 DEF RetryPage
  <2>2. CASE Turn(x, a, "failure") /\ UNCHANGED attempt
    BY <1>7, <2>2 DEF RetryPage, Turn
  <2> QED  BY <1>7, <2>1, <2>2 DEF RetryPage
<1>8. ASSUME NEW a \in Article, SaveCrawlErrorFails(x, a)
      PROVE  (StoreTypeOK /\ CrawlTypeOK)'
  BY <1>8 DEF SaveCrawlErrorFails, Persists
<1>9. ASSUME NEW a \in Article, InsertRawFails(x, a)
      PROVE  (StoreTypeOK /\ CrawlTypeOK)'
  BY <1>9 DEF InsertRawFails, Persists, Insert
<1> QED
  BY <1>1, <1>2, <1>3, <1>4, <1>5, <1>6, <1>7, <1>8, <1>9 DEF ProceedFails

-----------------------------------------------------------------------------
(* Cleaning.                                                               *)
LEMMA QueueTypes ==
    ASSUME StoreTypeOK, CleaningTypeOK, Working,
           ReadMessage \/ ReadMessageFails \/ ReclaimLost \/ ReclaimOverdue
    PROVE  (StoreTypeOK /\ CleaningTypeOK /\ Working)'
<1> USE DEF StoreTypeOK, CleaningTypeOK, Working, storeVars
<1>1. CASE ReadMessage
  BY <1>1 DEF ReadMessage
<1>2. CASE ReadMessageFails
  BY <1>2 DEF ReadMessageFails, Fault
<1>3. CASE ReclaimLost
  BY <1>3 DEF ReclaimLost, Reclaim
<1>4. CASE ReclaimOverdue
  BY <1>4 DEF ReclaimOverdue, Reclaim
<1> QED  BY <1>1, <1>2, <1>3, <1>4

LEMMA WorkerTypes ==
    ASSUME StoreTypeOK, CleaningTypeOK, Working,
           NEW w \in Worker, ProcessRecord(w) \/ WorkerFails(w)
    PROVE  (StoreTypeOK /\ CleaningTypeOK /\ Working)'
<1> USE DEF StoreTypeOK, CleaningTypeOK, Working, storeVars, Place, From
<1>1. CASE Take(w)
  <2>1. Head(queue) \in Article /\ Tail(queue) \in Seq(Article)
    <3>1. queue \in Seq(Article) /\ queue # <<>>
      BY <1>1 DEF Take
    <3> HIDE DEF CleaningTypeOK
    <3> QED  BY <3>1
  <2>2. /\ queue' \in Seq(Article)
        /\ message' = [message EXCEPT ![w] = Head(queue)]
        /\ worker' = [worker EXCEPT ![w] = "fetch"]
    BY <1>1, <2>1 DEF Take
  <2>3. UNCHANGED <<pending, cleanedNews, announced, overdue, faults, storeVars>>
    BY <1>1 DEF Take
  <2> QED  BY <2>1, <2>2, <2>3
<1>2. CASE FetchRawNews(w)
  BY <1>2 DEF FetchRawNews
<1>3. CASE MarkDeleted(w)
  BY <1>3 DEF MarkDeleted, Delete
<1>4. CASE AlreadyCleaned(w)
  BY <1>4 DEF AlreadyCleaned
<1>5. CASE InsertCleanedNews(w)
  BY <1>5 DEF InsertCleanedNews
<1>6. CASE PublishCleaned(w)
  BY <1>6 DEF PublishCleaned
<1>7. CASE Ack(w)
  BY <1>7 DEF Ack
<1>8. CASE WorkerFails(w)
  <2>1. /\ Applied(w) \/ UNCHANGED <<pending, cleanedNews, announced, rawNews>>
        /\ message[w] \in Article
    BY <1>8 DEF WorkerFails
  <2>2. /\ rawNews' \in [Article -> {"absent", "stored", "deleted"}]
        /\ pending' \subseteq Article
        /\ cleanedNews' \in [Article -> Nat] /\ announced' \in [Article -> Nat]
    <3>1. CASE UNCHANGED <<pending, cleanedNews, announced, rawNews>>
      BY <3>1
    <3>2. CASE Delete(message[w]) /\ UNCHANGED <<pending, cleanedNews, announced>>
      BY <3>2 DEF Delete
    <3>3. CASE /\ cleanedNews' = [cleanedNews EXCEPT ![message[w]] = @ + 1]
               /\ UNCHANGED <<pending, announced, rawNews>>
      BY <2>1, <3>3
    <3>4. CASE /\ announced' = [announced EXCEPT ![message[w]] = @ + 1]
               /\ UNCHANGED <<pending, cleanedNews, rawNews>>
      BY <2>1, <3>4
    <3>5. CASE /\ pending' = pending \ {message[w]}
               /\ UNCHANGED <<cleanedNews, announced, rawNews>>
      BY <3>5
    <3> QED  BY <2>1, <3>1, <3>2, <3>3, <3>4, <3>5 DEF Applied
  <2>3. /\ Fault
        /\ worker' = [worker EXCEPT ![w] = "idle"]
        /\ message' = [message EXCEPT ![w] = NoMessage]
        /\ UNCHANGED <<queue, overdue, unread, signalled>>
    BY <1>8 DEF WorkerFails
  <2> QED  BY <2>2, <2>3 DEF Fault
<1> QED
  BY <1>1, <1>2, <1>3, <1>4, <1>5, <1>6, <1>7, <1>8 DEF ProcessRecord

-----------------------------------------------------------------------------
LEMMA TypeStep == TypeInv /\ [Next]_vars => TypeInv'
<1> SUFFICES ASSUME TypeInv, [Next]_vars PROVE TypeInv'
  OBVIOUS
<1> USE DEF TypeInv, TypeOK
<1>1. CASE CrawlStep /\ UNCHANGED <<cleaningVars, stops>>
  <2>1. (StoreTypeOK /\ CrawlTypeOK)'
    BY <1>1, ProceedTypes, ProceedFailsTypes DEF CrawlStep
  <2> QED  BY <1>1, <2>1 DEF CleaningTypeOK, Working, cleaningVars
<1>2. CASE CleaningStep /\ UNCHANGED <<crawlVars, stops>>
  <2>1. (StoreTypeOK /\ CleaningTypeOK /\ Working)'
    BY <1>2, QueueTypes, WorkerTypes DEF CleaningStep
  <2> QED  BY <1>2, <2>1 DEF CrawlTypeOK, crawlVars
<1>3. CASE Restart
  BY <1>3 DEF Restart, LoseExecutions, LoseQueue, StoreTypeOK, CrawlTypeOK, CleaningTypeOK,
              Working, storeVars, Stage, Place
<1>4. CASE UNCHANGED vars
  BY <1>4 DEF vars, storeVars, crawlVars, cleaningVars, StoreTypeOK, CrawlTypeOK,
              CleaningTypeOK, Working
<1> QED  BY <1>1, <1>2, <1>3, <1>4 DEF Next

(* Every variable of the service keeps its type (_crawl and cleaner tasks, *)
(* raw_news, cleaned_news and the pending entries).                        *)
THEOREM TypeCorrect == Spec => []TypeOK
<1>1. TypeInv => TypeOK
  BY DEF TypeInv
<1> QED  BY <1>1, TypeInit, TypeStep, PTL DEF Spec

-----------------------------------------------------------------------------
(* What is acknowledged is decided.  What is announced has a row, what the *)
(* process works on was announced, and a worker acknowledges only when it  *)
(* has seen or made a decision; no step takes a row or a decision back.    *)
Decided(a) == cleanedNews[a] > 0 \/ rawNews[a] = "deleted"

AnnouncedAreStored ==
    /\ \A a \in signalled : Stored(a)
    /\ \A x \in Execution : hand[x] # NoArticle => Stored(hand[x])

HeldWereAnnounced ==
    /\ pending \subseteq signalled
    /\ \A i \in DOMAIN queue : queue[i] \in signalled
    /\ \A w \in Worker : worker[w] # "idle" => message[w] \in signalled

WorkersDecide ==
    \A w \in Worker :
        /\ worker[w] = "publish" => cleanedNews[message[w]] > 0
        /\ worker[w] = "ack" => Decided(message[w])

DecidedInv == AnnouncedAreStored /\ HeldWereAnnounced /\ WorkersDecide /\ AckedWasDecided

LEMMA DecidedInit == Init => DecidedInv
BY DEF Init, StoreInit, CrawlInit, CleaningInit, DecidedInv, AnnouncedAreStored,
       HeldWereAnnounced, WorkersDecide, AckedWasDecided, Settled

(* A step of an execution does one of three things to what cleaning sees.  *)
Leaves ==
    /\ UNCHANGED <<rawNews, unread, signalled>>
    /\ \A x \in Execution : hand'[x] \in {hand[x], NoArticle}
Adds(a) ==
    /\ ~ Stored(a) /\ Insert(a) /\ UNCHANGED <<unread, signalled>>
    /\ \A x \in Execution : hand'[x] \in {hand[x], a}
Sends(a) ==
    /\ Stored(a) /\ Signal(a) /\ UNCHANGED rawNews
    /\ \A x \in Execution : hand'[x] \in {hand[x], NoArticle}

LEMMA ProceedEffect ==
    ASSUME StoreTypeOK, CrawlTypeOK, AnnouncedAreStored, NEW x \in Execution,
           PostCrawl(x) \/ Proceed(x) \/ ProceedFails(x)
    PROVE  Leaves \/ \E a \in Article : Adds(a) \/ Sends(a)
<1> USE DEF storeVars
<1>1. CASE \/ PostCrawl(x) \/ Discover(x) \/ DiscoverFails(x) \/ CheckCoverageGapFails(x)
           \/ ReturnResult(x)
  BY <1>1 DEF PostCrawl, Discover, CollectAnnouncements, ExtractArticleUrls, ReadEntries,
              ReadDescriptions, Finds, DiscoverFails, CheckCoverageGapFails, Abandons,
              ReturnResult, Leaves
<1>2. CASE \/ PublishSuccess(x) \/ PublishSuccessFails(x)
           \/ PublishFailed(x) \/ PublishFailedFails(x)
  BY <1>2 DEF PublishSuccess, PublishSuccessFails, PublishFailed, PublishFailedFails, Leaves
<1>3. ASSUME NEW a \in Article,
             \/ CheckErrorLog(x, a) \/ CheckErrorLogFails(x, a) \/ ProcessEntry(x, a)
             \/ AcquirePermit(x, a) \/ FetchPage(x, a) \/ FetchPageRaises(x, a)
             \/ RetryPage(x, a)
      PROVE  Leaves
  BY <1>3 DEF CheckErrorLog, CheckErrorLogFails, Abandons, ProcessEntry, AcquirePermit,
              FetchPage, FetchPageRaises,
              RetryPage, Leaves
<1>4. ASSUME NEW a \in Article, SaveCrawlError(x, a) \/ SaveCrawlErrorFails(x, a)
      PROVE  Leaves
  BY <1>4 DEF SaveCrawlError, SaveCrawlErrorFails, Leaves
<1>5. CASE PublishInserted(x) \/ PublishInsertedFails(x)
  <2>1. /\ hand[x] \in Article /\ Stored(hand[x])
        /\ hand' = [hand EXCEPT ![x] = NoArticle]
    BY <1>5 DEF PublishInserted, PublishInsertedFails, Announces, CrawlTypeOK,
                AnnouncedAreStored
  <2>2. \A y \in Execution : hand'[y] \in {hand[y], NoArticle}
    BY <2>1 DEF CrawlTypeOK
  <2>3. UNCHANGED rawNews /\ (Signal(hand[x]) \/ UNCHANGED <<unread, signalled>>)
    BY <1>5 DEF PublishInserted, PublishInsertedFails
  <2> QED  BY <2>1, <2>2, <2>3 DEF Leaves, Sends
<1>6. ASSUME NEW a \in Article, InsertRaw(x, a) \/ InsertRawFails(x, a)
      PROVE  Leaves \/ Adds(a)
  <2>1. /\ UNCHANGED <<unread, signalled>>
        /\ \/ UNCHANGED <<rawNews, hand>>
           \/ ~ Duplicate(a) /\ Insert(a) /\ (UNCHANGED hand \/ hand' = [hand EXCEPT ![x] = a])
    BY <1>6 DEF InsertRaw, InsertRawFails
  <2>2. CASE UNCHANGED <<rawNews, hand>>
    BY <2>1, <2>2 DEF Leaves
  <2>3. CASE ~ Duplicate(a) /\ Insert(a) /\ (UNCHANGED hand \/ hand' = [hand EXCEPT ![x] = a])
    <3>1. ~ Stored(a)
      BY <2>3 DEF Duplicate
    <3>2. \A y \in Execution : hand'[y] \in {hand[y], a}
      BY <2>3 DEF CrawlTypeOK
    <3> QED  BY <2>1, <2>3, <3>1, <3>2 DEF Adds
  <2> QED  BY <2>1, <2>2, <2>3
<1> QED  BY <1>1, <1>2, <1>3, <1>4, <1>5, <1>6 DEF Proceed, ProceedFails

LEMMA CrawlDecided ==
    ASSUME TypeInv, DecidedInv, CrawlStep, UNCHANGED <<cleaningVars, stops>>
    PROVE  DecidedInv'
<1> USE DEF DecidedInv, AnnouncedAreStored, HeldWereAnnounced, WorkersDecide,
            AckedWasDecided, Settled, Decided, Stored, cleaningVars
<1>1. PICK x \in Execution : PostCrawl(x) \/ Proceed(x) \/ ProceedFails(x)
  BY DEF CrawlStep
<1> USE DEF TypeInv, TypeOK, StoreTypeOK
<1>2. Leaves \/ \E a \in Article : Adds(a) \/ Sends(a)
  BY <1>1, ProceedEffect
<1>3. CASE Leaves
  BY <1>3 DEF Leaves
<1>4. ASSUME NEW a \in Article, Adds(a) PROVE DecidedInv'
  <2>1. /\ rawNews[a] = "absent" /\ rawNews'[a] = "stored"
        /\ \A b \in Article \ {a} : rawNews'[b] = rawNews[b]
        /\ UNCHANGED <<unread, signalled>>
        /\ \A y \in Execution : hand'[y] \in {hand[y], a}
    BY <1>4 DEF Adds, Insert
  <2>2. AnnouncedAreStored' /\ HeldWereAnnounced'
    BY <2>1 DEF CrawlTypeOK
  <2>3. WorkersDecide' /\ AckedWasDecided'
    BY <2>1
  <2> QED  BY <2>2, <2>3
<1>5. ASSUME NEW a \in Article, Sends(a) PROVE DecidedInv'
  BY <1>5 DEF Sends, Signal
<1> QED  BY <1>2, <1>3, <1>4, <1>5

(* What is left of a queue was in it.                                      *)
LEMMA TailElements ==
    ASSUME NEW S, NEW q \in Seq(S), q # <<>>
    PROVE  /\ Head(q) = q[1] /\ 1 \in DOMAIN q
           /\ \A i \in DOMAIN Tail(q) : i + 1 \in DOMAIN q /\ Tail(q)[i] = q[i + 1]
OBVIOUS

(* Appending an element of a set to a queue of its elements.                *)
LEMMA AppendElements ==
    ASSUME NEW S, NEW E, NEW q \in Seq(S), NEW a \in S, a \in E,
           \A i \in DOMAIN q : q[i] \in E
    PROVE  \A i \in DOMAIN Append(q, a) : Append(q, a)[i] \in E
OBVIOUS

LEMMA QueueDecided ==
    ASSUME TypeInv, DecidedInv, UNCHANGED <<crawlVars, stops>>,
           ReadMessage \/ ReadMessageFails \/ ReclaimLost \/ ReclaimOverdue
    PROVE  DecidedInv'
<1> USE DEF DecidedInv, AnnouncedAreStored, HeldWereAnnounced, WorkersDecide,
            AckedWasDecided, Settled, Decided, Stored, crawlVars, storeVars,
            TypeInv, TypeOK, StoreTypeOK, CleaningTypeOK
<1>1. CASE ReadMessage
  BY <1>1 DEF ReadMessage
<1>2. CASE ReadMessageFails
  BY <1>2 DEF ReadMessageFails
<1>3. CASE ReclaimLost \/ ReclaimOverdue
  <2>1. PICK a \in Article : Reclaim(a)
    BY <1>3 DEF ReclaimLost, ReclaimOverdue
  <2>2. \A i \in DOMAIN queue' : queue'[i] \in signalled
    <3>1. queue' = Append(queue, a) /\ a \in signalled /\ queue \in Seq(Article)
      BY <2>1 DEF Reclaim
    <3>2. \A i \in DOMAIN queue : queue[i] \in signalled
      OBVIOUS
    <3> QED  BY <3>1, <3>2, AppendElements
  <2>3. UNCHANGED <<pending, worker, message, cleanedNews, storeVars, hand>>
    BY <2>1 DEF Reclaim
  <2>4. (AnnouncedAreStored /\ WorkersDecide)' /\ AckedWasDecided'
    BY <2>3
  <2>5. HeldWereAnnounced'
    BY <2>2, <2>3
  <2> QED  BY <2>4, <2>5
<1> QED  BY <1>1, <1>2, <1>3

LEMMA WorkerDecided ==
    ASSUME TypeInv, DecidedInv, UNCHANGED <<crawlVars, stops>>,
           NEW w \in Worker, ProcessRecord(w) \/ WorkerFails(w)
    PROVE  DecidedInv'
<1> USE DEF DecidedInv, AnnouncedAreStored, HeldWereAnnounced, WorkersDecide,
            AckedWasDecided, Settled, Decided, Stored, crawlVars, storeVars,
            TypeInv, TypeOK, StoreTypeOK, CleaningTypeOK, From, Place
<1>1. CASE Take(w)
  <2>1. queue \in Seq(Article) /\ queue # <<>>
    BY <1>1 DEF Take
  <2>2. /\ Head(queue) \in signalled
        /\ \A i \in DOMAIN Tail(queue) : Tail(queue)[i] \in signalled
    BY <2>1, TailElements
  <2>3. /\ queue' = Tail(queue)
        /\ message' = [message EXCEPT ![w] = Head(queue)]
        /\ worker' = [worker EXCEPT ![w] = "fetch"]
        /\ UNCHANGED <<pending, cleanedNews, announced, overdue, faults, storeVars>>
    BY <1>1 DEF Take
  <2>4. HeldWereAnnounced' /\ WorkersDecide'
    BY <2>2, <2>3
  <2>5. AnnouncedAreStored' /\ AckedWasDecided'
    BY <2>3
  <2> QED  BY <2>4, <2>5
<1>2. CASE FetchRawNews(w)
  BY <1>2 DEF FetchRawNews
<1>3. CASE MarkDeleted(w)
  BY <1>3 DEF MarkDeleted, Delete
<1>4. CASE AlreadyCleaned(w)
  BY <1>4 DEF AlreadyCleaned
<1>5. CASE InsertCleanedNews(w)
  BY <1>5 DEF InsertCleanedNews
<1>6. CASE PublishCleaned(w)
  BY <1>6 DEF PublishCleaned
<1>7. CASE Ack(w)
  BY <1>7 DEF Ack
<1>8. CASE WorkerFails(w)
  <2>1. /\ worker' = [worker EXCEPT ![w] = "idle"]
        /\ message' = [message EXCEPT ![w] = NoMessage]
        /\ UNCHANGED <<queue, unread, signalled, hand>>
    BY <1>8 DEF WorkerFails
  <2>2. /\ message[w] \in signalled
        /\ worker[w] = "ack" => Decided(message[w])
    BY <1>8 DEF WorkerFails
  <2>3. CASE UNCHANGED <<pending, cleanedNews, announced, rawNews>>
    BY <2>1, <2>3
  <2>4. CASE Delete(message[w]) /\ UNCHANGED <<pending, cleanedNews, announced>>
    BY <2>1, <2>2, <2>4 DEF Delete
  <2>5. CASE /\ cleanedNews' = [cleanedNews EXCEPT ![message[w]] = @ + 1]
             /\ UNCHANGED <<pending, announced, rawNews>>
    BY <2>1, <2>2, <2>5
  <2>6. CASE UNCHANGED <<pending, cleanedNews, rawNews>>
    BY <2>1, <2>6
  <2>7. CASE /\ pending' = pending \ {message[w]} /\ worker[w] = "ack"
             /\ UNCHANGED <<cleanedNews, announced, rawNews>>
    BY <2>1, <2>2, <2>7
  <2> QED  BY <1>8, <2>3, <2>4, <2>5, <2>6, <2>7 DEF WorkerFails, Applied
<1> QED
  BY <1>1, <1>2, <1>3, <1>4, <1>5, <1>6, <1>7, <1>8 DEF ProcessRecord

LEMMA DecidedStep == TypeInv /\ DecidedInv /\ [Next]_vars => DecidedInv'
<1> SUFFICES ASSUME TypeInv, DecidedInv, [Next]_vars PROVE DecidedInv'
  OBVIOUS
<1>1. CASE CrawlStep /\ UNCHANGED <<cleaningVars, stops>>
  BY <1>1, CrawlDecided
<1>2. CASE CleaningStep /\ UNCHANGED <<crawlVars, stops>>
  BY <1>2, QueueDecided, WorkerDecided DEF CleaningStep
<1> USE DEF DecidedInv, AnnouncedAreStored, HeldWereAnnounced, WorkersDecide,
            AckedWasDecided, Settled, Decided, Stored
<1>3. CASE Restart
  BY <1>3 DEF Restart, LoseExecutions, LoseQueue, storeVars
<1>4. CASE UNCHANGED vars
  BY <1>4 DEF vars, storeVars, crawlVars, cleaningVars
<1> QED  BY <1>1, <1>2, <1>3, <1>4 DEF Next

(* A message of raw_news_inserted is acknowledged only when its article is *)
(* cleaned or rejected (_worker, process_record).                          *)
THEOREM AckedIsDecided == Spec => []AckedWasDecided
<1>1. TypeInv /\ DecidedInv => AckedWasDecided
  BY DEF DecidedInv
<1> QED  BY <1>1, TypeInit, TypeStep, DecidedInit, DecidedStep, PTL DEF Spec

-----------------------------------------------------------------------------
(* What is reported as a success is stored.  Missing(x) are the articles   *)
(* the execution is done with that left no trace: neither a row of their   *)
(* title nor a line of the error log.                                      *)
Missing(x) ==
    {a \in Articles(x, {"success"}) \ left[x] : ~ Duplicate(a)}
    \union ((Articles(x, {"failure"}) \ left[x]) \ errorLog)

MissingOf(x) ==
    /\ crawl[x] = "persist" => Cardinality(Missing(x)) <= faults
    /\ "SUCCESS" \in completed[x] =>
          /\ crawl[x] \in {"failed", "over", "lost"}
          /\ left[x] = {} /\ Cardinality(Missing(x)) <= faults

MissingInv == \A x \in Execution : MissingOf(x)

(* Rows, lines of the error log and failures are never taken back.         *)
StoresGrow ==
    /\ \A a \in Article : Stored(a) => Stored(a)'
    /\ errorLog \subseteq errorLog'
    /\ faults \in Nat /\ faults' \in Nat /\ faults <= faults'

LEMMA MissingInit == Init => MissingInv
BY DEF Init, CrawlInit, MissingInv, MissingOf

LEMMA MissingIsFinite ==
    ASSUME NEW x \in Execution
    PROVE  IsFiniteSet(Missing(x)) /\ Cardinality(Missing(x)) \in Nat
<1>1. Missing(x) \in SUBSET Article
  BY DEF Missing, Articles
<1> QED  BY <1>1, FS_Subset, FS_CardinalityType

LEMMA MissingIsFinitePrimed ==
    ASSUME NEW x \in Execution
    PROVE  IsFiniteSet(Missing(x)') /\ Cardinality(Missing(x)') \in Nat
<1>1. Missing(x)' \in SUBSET Article
  BY DEF Missing, Articles
<1> QED  BY <1>1, FS_Subset, FS_CardinalityType

(* One element more is at most one more to count.                          *)
LEMMA OneMore ==
    ASSUME NEW S, IsFiniteSet(S), NEW a, NEW T \in SUBSET (S \union {a})
    PROVE  IsFiniteSet(T) /\ Cardinality(T) \in Nat /\ Cardinality(T) <= Cardinality(S) + 1
<1>1. Cardinality(S) \in Nat
  BY FS_CardinalityType
<1>2. /\ IsFiniteSet(S \union {a})
      /\ Cardinality(S \union {a}) = IF a \in S THEN Cardinality(S) ELSE Cardinality(S) + 1
  BY FS_AddElement
<1>3. IsFiniteSet(T) /\ Cardinality(T) <= Cardinality(S \union {a})
  BY <1>2, FS_Subset
<1>4. Cardinality(T) \in Nat
  BY <1>3, FS_CardinalityType
<1> QED  BY <1>1, <1>2, <1>3, <1>4

(* One more article may be missing after one more failure.                 *)
LEMMA MissingCounted ==
    ASSUME NEW x \in Execution, StoresGrow, Cardinality(Missing(x)) <= faults,
           \/ Missing(x)' \subseteq Missing(x)
           \/ faults' = faults + 1 /\ \E a \in Article : Missing(x)' \subseteq Missing(x) \union {a}
    PROVE  Cardinality(Missing(x)') <= faults'
<1>1. /\ IsFiniteSet(Missing(x)) /\ Cardinality(Missing(x)) \in Nat
      /\ IsFiniteSet(Missing(x)') /\ Cardinality(Missing(x)') \in Nat
  BY MissingIsFinite, MissingIsFinitePrimed
<1>2. CASE Missing(x)' \subseteq Missing(x)
  <2>1. Cardinality(Missing(x)') <= Cardinality(Missing(x))
    BY <1>1, <1>2, FS_Subset
  <2> QED  BY <1>1, <2>1 DEF StoresGrow
<1>3. ASSUME faults' = faults + 1, NEW a \in Article, Missing(x)' \subseteq Missing(x) \union {a}
      PROVE  Cardinality(Missing(x)') <= faults'
  <2>1. Cardinality(Missing(x)') <= Cardinality(Missing(x)) + 1
    BY <1>1, <1>3, OneMore
  <2> QED  BY <1>1, <1>3, <2>1 DEF StoresGrow
<1> QED  BY <1>2, <1>3

(* An execution that does nothing loses nothing.                           *)
LEMMA MissingShrinks ==
    ASSUME NEW x \in Execution, StoresGrow, page'[x] = page[x], left'[x] = left[x]
    PROVE  Missing(x)' \subseteq Missing(x)
<1>1. \A a \in Article : Duplicate(a) => Duplicate(a)'
  BY DEF StoresGrow, Duplicate
<1>2. \A ends : Articles(x, ends)' = Articles(x, ends)
  BY DEF Articles
<1> QED  BY <1>1, <1>2 DEF Missing, StoresGrow, Articles

LEMMA MissingKept ==
    ASSUME NEW x \in Execution, MissingInv, StoresGrow,
           page'[x] = page[x], left'[x] = left[x],
           crawl'[x] = crawl[x] \/ crawl'[x] \in {"failed", "over", "lost"},
           completed'[x] = completed[x]
    PROVE  MissingOf(x)'
BY MissingShrinks, MissingCounted DEF MissingInv, MissingOf

(* The steps of an execution.                                              *)
LEMMA StepGrows == TypeInv /\ [Next]_vars => StoresGrow
<1> SUFFICES ASSUME TypeInv, [Next]_vars PROVE StoresGrow
  OBVIOUS
<1>0. faults \in Nat /\ rawNews \in [Article -> {"absent", "stored", "deleted"}]
  BY DEF TypeInv, TypeOK, StoreTypeOK
<1> USE DEF StoresGrow, Stored, storeVars
<1>1. CASE CrawlStep
  <2> USE DEF PostCrawl, Proceed, ProceedFails, Discover, CollectAnnouncements, ExtractArticleUrls,
              ReadEntries, ReadDescriptions, Finds, ReturnResult, PublishInserted, PublishSuccess,
              PublishFailed, CheckErrorLog, ProcessEntry, AcquirePermit, FetchPage, SaveCrawlError,
              InsertRaw, DiscoverFails, CheckCoverageGapFails, PublishInsertedFails,
              PublishSuccessFails, PublishFailedFails, CheckErrorLogFails,
              FetchPageRaises, RetryPage,
              SaveCrawlErrorFails, InsertRawFails, Abandons
  <2>1. PICK x \in Execution : PostCrawl(x) \/ Proceed(x) \/ ProceedFails(x)
    BY <1>1 DEF CrawlStep
  <2>2. UNCHANGED faults \/ Fault
    BY <2>1
  <2>3. errorLog \subseteq errorLog'
    BY <2>1
  <2>4. UNCHANGED rawNews \/ \E a \in Article : Insert(a)
    BY <2>1
  <2>5. \A a \in Article : Stored(a) => Stored(a)'
    BY <1>0, <2>4 DEF Insert
  <2> QED  BY <1>0, <2>2, <2>3, <2>5 DEF Fault
<1>2. CASE CleaningStep /\ UNCHANGED <<crawlVars, stops>>
  <2>1. UNCHANGED faults \/ Fault
    BY <1>2 DEF CleaningStep, ReadMessage, ReadMessageFails, ReclaimLost, ReclaimOverdue, Reclaim,
       ProcessRecord, Take, FetchRawNews, MarkDeleted, AlreadyCleaned, InsertCleanedNews,
       PublishCleaned, Ack, WorkerFails
  <2>2. UNCHANGED rawNews \/ \E w \in Worker : Delete(message[w])
    BY <1>2 DEF CleaningStep, ReadMessage, ReadMessageFails, ReclaimLost, ReclaimOverdue, Reclaim,
       ProcessRecord, Take, FetchRawNews, MarkDeleted, AlreadyCleaned, InsertCleanedNews,
       PublishCleaned, Ack, WorkerFails, Applied
  <2>3. \A a \in Article : Stored(a) => Stored(a)'
    BY <1>0, <2>2 DEF Delete
  <2> QED  BY <1>0, <1>2, <2>1, <2>3 DEF Fault, crawlVars
<1>3. CASE Restart
  BY <1>0, <1>3 DEF Restart, LoseExecutions
<1>4. CASE UNCHANGED vars
  BY <1>0, <1>4 DEF vars, crawlVars
<1> QED  BY <1>1, <1>2, <1>3, <1>4 DEF Next
LEMMA PersistMissing ==
    ASSUME TypeInv, MissingInv, StoresGrow, NEW x \in Execution, NEW a \in Article,
           \/ SaveCrawlError(x, a) \/ SaveCrawlErrorFails(x, a)
           \/ InsertRaw(x, a) \/ InsertRawFails(x, a)
    PROVE  MissingOf(x)'
<1> USE DEF TypeInv, TypeOK, CrawlTypeOK, StoreTypeOK
<1>1. /\ crawl[x] = "persist" /\ crawl' = crawl /\ completed' = completed /\ page' = page
      /\ left' = [left EXCEPT ![x] = @ \ {a}]
      /\ "SUCCESS" \notin completed[x]
  BY DEF SaveCrawlError, SaveCrawlErrorFails, InsertRaw, InsertRawFails, Persists,
         MissingInv, MissingOf
<1>2. left'[x] = left[x] \ {a}
  BY <1>1
<1>3. Missing(x)' \subseteq Missing(x) \union {a}
  <2>1. \A b \in Article : Duplicate(b) => Duplicate(b)'
    BY DEF StoresGrow, Duplicate
  <2> QED  BY <1>1, <1>2, <2>1 DEF Missing, StoresGrow, Articles
<1>4. CASE Fault
  BY <1>1, <1>3, <1>4, MissingCounted DEF Fault, MissingInv, MissingOf
<1>5. CASE SaveCrawlError(x, a)
  <2>1. a \in errorLog' /\ page[x][a] = "failure"
    BY <1>5 DEF SaveCrawlError, Persists
  <2>2. a \notin Missing(x)'
    BY <1>1, <2>1 DEF Missing, Articles
  <2> QED  BY <1>1, <1>3, <2>2, MissingCounted DEF MissingInv, MissingOf
<1>6. CASE InsertRaw(x, a)
  <2>1. page[x][a] = "success"
    BY <1>6 DEF InsertRaw, Persists
  <2>2. Duplicate(a)'
    <3>1. CASE Duplicate(a)
      BY <3>1 DEF Duplicate, StoresGrow
    <3>2. CASE Insert(a)
      BY <3>2 DEF Insert, Duplicate, Stored
    <3> QED  BY <1>6, <3>1, <3>2 DEF InsertRaw
  <2>3. a \notin Missing(x)'
    BY <1>1, <2>1, <2>2 DEF Missing, Articles
  <2> QED  BY <1>1, <1>3, <2>3, MissingCounted DEF MissingInv, MissingOf
<1> QED  BY <1>4, <1>5, <1>6 DEF SaveCrawlErrorFails, InsertRawFails

LEMMA ExecutionMissing ==
    ASSUME TypeInv, MissingInv, StoresGrow, NEW x \in Execution,
           PostCrawl(x) \/ Proceed(x) \/ ProceedFails(x)
    PROVE  MissingOf(x)'
<1> USE DEF TypeInv, TypeOK, CrawlTypeOK, storeVars
<1>1. ASSUME "SUCCESS" \notin completed[x], crawl'[x] # "persist", completed' = completed
      PROVE  MissingOf(x)'
  BY <1>1 DEF MissingOf
<1>2. CASE PostCrawl(x) \/ Discover(x) \/ DiscoverFails(x) \/ CheckCoverageGapFails(x)
  <2>1. crawl[x] \in {"posted", "discover"}
    BY <1>2 DEF PostCrawl, Discover, CollectAnnouncements, ExtractArticleUrls, ReadEntries,
                ReadDescriptions, Lists, DiscoverFails, CheckCoverageGapFails
  <2>2. crawl'[x] # "persist" /\ completed' = completed
    BY <1>2 DEF PostCrawl, Discover, CollectAnnouncements, ExtractArticleUrls, ReadEntries, Go,
                ReadDescriptions, Finds, DiscoverFails, CheckCoverageGapFails, Abandons
  <2> QED  BY <1>1, <2>1, <2>2 DEF MissingInv, MissingOf
<1>3. ASSUME NEW a \in Article,
             \/ CheckErrorLog(x, a) \/ CheckErrorLogFails(x, a) \/ ProcessEntry(x, a)
             \/ AcquirePermit(x, a) \/ FetchPage(x, a) \/ FetchPageRaises(x, a)
             \/ RetryPage(x, a)
      PROVE  MissingOf(x)'
  <2>1. crawl[x] = "fetch" /\ crawl'[x] # "persist" /\ completed' = completed
    BY <1>3 DEF CheckErrorLog, CheckErrorLogFails, Abandons, ProcessEntry, AcquirePermit, Go,
                FetchPage, FetchPageRaises, RetryPage, Fetching
  <2> QED  BY <1>1, <2>1 DEF MissingInv, MissingOf
<1>4. CASE ReturnResult(x)
  <2>1. /\ crawl[x] = "fetch" /\ completed' = completed /\ page' = page
        /\ left'[x] = Articles(x, {"success", "failure"})
    BY <1>4 DEF ReturnResult
  <2>2. Missing(x)' = {}
    BY <2>1 DEF Missing, Articles
  <2>3. Cardinality(Missing(x)') = 0
    BY <2>2, FS_EmptySet
  <2>4. Cardinality(Missing(x)') <= faults'
    BY <2>3 DEF StoresGrow
  <2>5. "SUCCESS" \notin completed'[x]
    BY <2>1 DEF MissingInv, MissingOf
  <2> QED  BY <2>4, <2>5 DEF MissingOf
<1>5. CASE PublishInserted(x) \/ PublishInsertedFails(x)
  <2>1. UNCHANGED <<crawl, page, left, completed>>
    BY <1>5 DEF PublishInserted, PublishInsertedFails
  <2> QED  BY <2>1, MissingKept DEF MissingOf
<1>6. CASE PublishSuccess(x) \/ PublishSuccessFails(x)
  <2>1. /\ crawl[x] = "persist" /\ left[x] = {} /\ UNCHANGED <<page, left>>
        /\ crawl'[x] \in {"over", "failed"}
    BY <1>6 DEF PublishSuccess, PublishSuccessFails, Completes, Go
  <2>2. Cardinality(Missing(x)') <= faults'
    BY <2>1, MissingShrinks, MissingCounted DEF MissingInv, MissingOf
  <2> QED  BY <2>1, <2>2 DEF MissingOf
<1>7. CASE PublishFailed(x) \/ PublishFailedFails(x)
  <2>1. /\ crawl[x] = "failed" /\ UNCHANGED <<page, left>> /\ crawl'[x] = "over"
        /\ Report(x, "FAILED") \/ UNCHANGED completed
    BY <1>7 DEF PublishFailed, PublishFailedFails, Go
  <2>2. "SUCCESS" \in completed'[x] => "SUCCESS" \in completed[x]
    BY <2>1 DEF Report
  <2>3. Missing(x)' \subseteq Missing(x)
    BY <2>1, MissingShrinks
  <2>4. "SUCCESS" \in completed[x] => Cardinality(Missing(x)') <= faults'
    BY <2>3, MissingCounted DEF MissingInv, MissingOf
  <2> QED  BY <2>1, <2>2, <2>4 DEF MissingOf, MissingInv
<1>8. ASSUME NEW a \in Article, \/ SaveCrawlError(x, a) \/ SaveCrawlErrorFails(x, a)
                                \/ InsertRaw(x, a) \/ InsertRawFails(x, a)
      PROVE  MissingOf(x)'
  BY <1>8, PersistMissing
<1> QED
  BY <1>2, <1>3, <1>4, <1>5, <1>6, <1>7, <1>8 DEF Proceed, ProceedFails

(* What an execution does, it does to its own part of the state.           *)
LEMMA OwnPart ==
    ASSUME TypeInv, NEW x \in Execution, PostCrawl(x) \/ Proceed(x) \/ ProceedFails(x),
           NEW y \in Execution, y # x
    PROVE  /\ crawl'[y] = crawl[y] /\ page'[y] = page[y]
           /\ left'[y] = left[y] /\ completed'[y] = completed[y]
<1> USE DEF TypeInv, TypeOK, CrawlTypeOK
<1> USE DEF PostCrawl, Proceed, ProceedFails, Discover, CollectAnnouncements, ExtractArticleUrls,
            ReadEntries, ReadDescriptions, Finds, ReturnResult, PublishInserted, PublishSuccess,
            PublishFailed, CheckErrorLog, ProcessEntry, AcquirePermit, FetchPage, SaveCrawlError,
            InsertRaw, DiscoverFails, CheckCoverageGapFails, PublishInsertedFails,
            PublishSuccessFails, PublishFailedFails, CheckErrorLogFails,
              FetchPageRaises, RetryPage,
            SaveCrawlErrorFails, InsertRawFails, Abandons
<1>1. crawl' = crawl \/ \E stage \in Stage : Go(x, stage)
  BY DEF Stage
<1>2. completed' = completed \/ \E status \in Status : Report(x, status)
  BY DEF Status
<1>3. left' = left \/ \E set : left' = [left EXCEPT ![x] = set]
  BY DEF Persists
<1>4. page' = page \/ \E pages : page' = [page EXCEPT ![x] = pages]
  BY DEF Turn, Persists, FetchOnePdf, FetchOneArticle, FetchOneEntry
<1> QED  BY <1>1, <1>2, <1>3, <1>4 DEF Go, Report

LEMMA MissingStep == TypeInv /\ MissingInv /\ [Next]_vars => MissingInv'
<1> SUFFICES ASSUME TypeInv, MissingInv, [Next]_vars, NEW x \in Execution PROVE MissingOf(x)'
  BY DEF MissingInv
<1>0. StoresGrow
  BY StepGrows
<1>1. CASE CrawlStep
  <2>1. PICK y \in Execution : PostCrawl(y) \/ Proceed(y) \/ ProceedFails(y)
    BY <1>1 DEF CrawlStep
  <2>2. CASE x = y
    BY <1>0, <2>1, <2>2, ExecutionMissing
  <2>3. CASE x # y
    BY <1>0, <2>1, <2>3, OwnPart, MissingKept
  <2> QED  BY <2>2, <2>3
<1>2. CASE UNCHANGED crawlVars
  BY <1>0, <1>2, MissingKept DEF crawlVars
<1>3. CASE Restart
  <2>1. /\ UNCHANGED <<page, left, completed>>
        /\ crawl'[x] = IF crawl[x] \in {"posted", "over"} THEN crawl[x] ELSE "lost"
    BY <1>3 DEF Restart, LoseExecutions
  <2> QED  BY <1>0, <2>1, MissingKept
<1> QED  BY <1>1, <1>2, <1>3 DEF Next, vars

(* An execution that reports SUCCESS has stored what it fetched and logged *)
(* what it could not, but for one article per failing call (execute,       *)
(* _persist_errors, _persist_successes).                                   *)
THEOREM SuccessStores == Spec => []SuccessIsStored
<1>1. MissingInv => SuccessIsStored
  <2> SUFFICES ASSUME MissingInv, NEW x \in Execution, "SUCCESS" \in completed[x]
               PROVE  Cardinality({a \in Articles(x, {"success"}) : ~ Duplicate(a)}
                                  \union (Articles(x, {"failure"}) \ errorLog)) <= faults
    BY DEF SuccessIsStored
  <2>1. left[x] = {} /\ Cardinality(Missing(x)) <= faults
    BY DEF MissingInv, MissingOf
  <2>2. Missing(x) = {a \in Articles(x, {"success"}) : ~ Duplicate(a)}
                     \union (Articles(x, {"failure"}) \ errorLog)
    BY <2>1 DEF Missing
  <2> QED  BY <2>1, <2>2
<1> QED  BY <1>1, TypeInit, TypeStep, MissingInit, MissingStep, PTL DEF Spec

-----------------------------------------------------------------------------
(* What is silenced is counted.  A step silences no article, or one when a *)
(* call fails, or what the executions and workers had in hand when the     *)
(* service stops.                                                          *)
Silent == Unannounced \union Unheard

InHand == {hand[x] : x \in Execution} \union {message[w] : w \in Worker}

LEMMA CrawlSilences ==
    ASSUME TypeInv, CrawlStep, UNCHANGED <<cleaningVars, stops>>
    PROVE  \/ Silent' \subseteq Silent /\ faults' \in {faults, faults + 1}
           \/ Fault /\ \E a \in Article : Silent' \subseteq Silent \union {a}
<1> USE DEF TypeInv, TypeOK, CrawlTypeOK, StoreTypeOK, storeVars
<1>1. PICK x \in Execution : PostCrawl(x) \/ Proceed(x) \/ ProceedFails(x)
  BY DEF CrawlStep
<1>2. Unheard' = Unheard
  BY DEF Unheard, cleaningVars
<1>3. ASSUME UNCHANGED <<rawNews, signalled, hand>> PROVE Silent' \subseteq Silent
  BY <1>2, <1>3 DEF Silent, Unannounced
<1>4. CASE \/ PostCrawl(x) \/ Discover(x) \/ DiscoverFails(x) \/ CheckCoverageGapFails(x)
           \/ ReturnResult(x) \/ PublishSuccess(x) \/ PublishSuccessFails(x)
           \/ PublishFailed(x) \/ PublishFailedFails(x)
  <2>1. UNCHANGED <<rawNews, signalled, hand>> /\ (UNCHANGED faults \/ Fault)
    BY <1>4 DEF PostCrawl, Discover, CollectAnnouncements, ExtractArticleUrls, ReadEntries,
              ReadDescriptions, Finds, DiscoverFails, CheckCoverageGapFails, Abandons,
              ReturnResult, PublishSuccess, PublishSuccessFails, PublishFailed, PublishFailedFails
  <2> QED  BY <1>3, <2>1 DEF Fault
<1>5. ASSUME NEW a \in Article,
             \/ CheckErrorLog(x, a) \/ CheckErrorLogFails(x, a) \/ ProcessEntry(x, a)
             \/ AcquirePermit(x, a) \/ FetchPage(x, a) \/ FetchPageRaises(x, a)
             \/ RetryPage(x, a)
             \/ SaveCrawlError(x, a) \/ SaveCrawlErrorFails(x, a)
      PROVE  Silent' \subseteq Silent /\ faults' \in {faults, faults + 1}
  <2>1. UNCHANGED <<rawNews, signalled, hand>> /\ (UNCHANGED faults \/ Fault)
    BY <1>5 DEF CheckErrorLog, CheckErrorLogFails, Abandons, ProcessEntry, AcquirePermit,
              FetchPage, FetchPageRaises,
                RetryPage, SaveCrawlError, SaveCrawlErrorFails
  <2> QED  BY <1>3, <2>1 DEF Fault
<1>6. CASE PublishInserted(x)
  <2>1. /\ hand' = [hand EXCEPT ![x] = NoArticle] /\ signalled' = signalled \union {hand[x]}
        /\ UNCHANGED <<rawNews, faults>>
    BY <1>6 DEF PublishInserted, Announces, Signal
  <2>2. Unannounced' \subseteq Unannounced
    BY <2>1 DEF Unannounced
  <2> QED  BY <1>2, <2>1, <2>2 DEF Silent
<1>7. CASE PublishInsertedFails(x)
  <2>1. /\ hand' = [hand EXCEPT ![x] = NoArticle] /\ signalled \subseteq signalled'
        /\ UNCHANGED rawNews /\ Fault /\ hand[x] \in Article
    BY <1>7 DEF PublishInsertedFails, Announces, Signal
  <2>2. Unannounced' \subseteq Unannounced \union {hand[x]}
    BY <2>1 DEF Unannounced
  <2> QED  BY <1>2, <2>1, <2>2 DEF Silent
<1>8. ASSUME NEW a \in Article, InsertRaw(x, a) PROVE Silent' \subseteq Silent /\ faults' = faults
  <2>1. /\ hand[x] = NoArticle /\ UNCHANGED <<signalled, faults>>
        /\ \/ UNCHANGED <<rawNews, hand>>
           \/ Insert(a) /\ hand' = [hand EXCEPT ![x] = a]
    BY <1>8 DEF InsertRaw, Persists
  <2>2. CASE UNCHANGED <<rawNews, hand>>
    BY <1>3, <2>1, <2>2
  <2>3. CASE Insert(a) /\ hand' = [hand EXCEPT ![x] = a]
    <3>1. /\ \A b \in Article \ {a} : rawNews'[b] = rawNews[b]
          /\ hand'[x] = a /\ \A y \in Execution \ {x} : hand'[y] = hand[y]
      BY <2>3 DEF Insert
    <3>2. Unannounced' \subseteq Unannounced
      BY <2>1, <3>1 DEF Unannounced
    <3> QED  BY <1>2, <2>1, <3>2 DEF Silent
  <2> QED  BY <2>1, <2>2, <2>3
<1>9. ASSUME NEW a \in Article, InsertRawFails(x, a)
      PROVE  Fault /\ Silent' \subseteq Silent \union {a}
  <2>1. UNCHANGED <<signalled, hand>> /\ Fault /\ (Insert(a) \/ UNCHANGED rawNews)
    BY <1>9 DEF InsertRawFails
  <2>2. \A b \in Article \ {a} : rawNews'[b] = rawNews[b]
    BY <2>1 DEF Insert
  <2>3. Unannounced' \subseteq Unannounced \union {a}
    BY <2>1, <2>2 DEF Unannounced
  <2> QED  BY <1>2, <2>1, <2>3 DEF Silent
<1> QED
  BY <1>1, <1>4, <1>5, <1>6, <1>7, <1>8, <1>9 DEF Proceed, ProceedFails

LEMMA CleaningSilences ==
    ASSUME TypeInv, CleaningStep, UNCHANGED <<crawlVars, stops>>
    PROVE  \/ Silent' \subseteq Silent /\ faults' \in {faults, faults + 1}
           \/ Fault /\ \E a \in Article : Silent' \subseteq Silent \union {a}
<1> USE DEF TypeInv, TypeOK, CleaningTypeOK, StoreTypeOK, storeVars, crawlVars, From, Working
<1>1. UNCHANGED <<rawNews, signalled>> => Unannounced' = Unannounced
  BY DEF Unannounced
<1>5. ASSUME NEW a \in Article, Delete(a), UNCHANGED signalled
      PROVE  Unannounced' \subseteq Unannounced
  BY <1>5 DEF Unannounced, Delete
<1>2. CASE ReadMessage \/ ReadMessageFails \/ ReclaimLost \/ ReclaimOverdue
  <2>1. /\ UNCHANGED <<rawNews, signalled, worker, message, cleanedNews, announced>>
        /\ UNCHANGED faults \/ Fault
    BY <1>2 DEF ReadMessage, ReadMessageFails, ReclaimLost, ReclaimOverdue, Reclaim
  <2>2. Unheard' = Unheard
    BY <2>1 DEF Unheard
  <2>3. Silent' \subseteq Silent
    BY <1>1, <2>1, <2>2 DEF Silent
  <2>4. faults' \in {faults, faults + 1}
    BY <2>1 DEF Fault
  <2> QED  BY <2>3, <2>4
<1>3. ASSUME NEW w \in Worker, ProcessRecord(w)
      PROVE  Silent' \subseteq Silent /\ faults' = faults
  <2>1. UNCHANGED faults
    BY <1>3 DEF ProcessRecord, Take, FetchRawNews, MarkDeleted, AlreadyCleaned,
                InsertCleanedNews, PublishCleaned, Ack
  <2>2. Unannounced' \subseteq Unannounced
    <3>1. CASE MarkDeleted(w)
      BY <1>5, <3>1 DEF MarkDeleted
    <3> QED  BY <1>1, <1>3, <3>1 DEF ProcessRecord, Take, FetchRawNews, AlreadyCleaned,
                InsertCleanedNews, PublishCleaned, Ack
  <2>3. Unheard' \subseteq Unheard
    <3>1. CASE InsertCleanedNews(w)
      <4>1. /\ worker[w] = "insert" /\ worker' = [worker EXCEPT ![w] = "publish"]
            /\ cleanedNews' = [cleanedNews EXCEPT ![message[w]] = @ + 1]
            /\ UNCHANGED <<message, announced>> /\ message[w] \in Article
        BY <3>1 DEF InsertCleanedNews
      <4>2. \A a \in Article \ {message[w]} : cleanedNews'[a] = cleanedNews[a]
        BY <4>1
      <4>3. /\ worker'[w] = "publish"
            /\ \A v \in Worker \ {w} : worker'[v] = worker[v]
        BY <4>1
      <4> QED  BY <4>1, <4>2, <4>3 DEF Unheard
    <3>2. CASE PublishCleaned(w)
      <4>1. /\ worker[w] = "publish" /\ worker' = [worker EXCEPT ![w] = "ack"]
            /\ announced' = [announced EXCEPT ![message[w]] = @ + 1]
            /\ UNCHANGED <<message, cleanedNews>> /\ message[w] \in Article
        BY <3>2 DEF PublishCleaned
      <4>2. /\ announced'[message[w]] > 0
            /\ \A a \in Article \ {message[w]} : announced'[a] = announced[a]
        BY <4>1
      <4>3. \A v \in Worker \ {w} : worker'[v] = worker[v]
        BY <4>1
      <4> QED  BY <4>1, <4>2, <4>3 DEF Unheard
    <3>3. CASE Take(w) \/ FetchRawNews(w) \/ MarkDeleted(w) \/ AlreadyCleaned(w) \/ Ack(w)
      <4>1. /\ worker[w] # "publish" /\ UNCHANGED <<cleanedNews, announced>>
            /\ \A v \in Worker \ {w} : worker'[v] = worker[v] /\ message'[v] = message[v]
        BY <3>3 DEF Take, FetchRawNews, MarkDeleted, AlreadyCleaned, Ack
      <4> QED  BY <4>1 DEF Unheard
    <3> QED  BY <1>3, <3>1, <3>2, <3>3 DEF ProcessRecord
  <2> QED  BY <2>1, <2>2, <2>3 DEF Silent
<1>4. ASSUME NEW w \in Worker, WorkerFails(w)
      PROVE  Fault /\ \E a \in Article : Silent' \subseteq Silent \union {a}
  <2>1. /\ Fault /\ message[w] \in Article
        /\ worker' = [worker EXCEPT ![w] = "idle"]
        /\ message' = [message EXCEPT ![w] = NoMessage]
        /\ UNCHANGED signalled
    BY <1>4 DEF WorkerFails
  <2>2. Unannounced' \subseteq Unannounced
    BY <1>1, <1>4, <1>5, <2>1 DEF WorkerFails, Applied
  <2>3. /\ \A a \in Article \ {message[w]} : cleanedNews'[a] = cleanedNews[a]
        /\ \A a \in Article \ {message[w]} : announced'[a] = announced[a]
    BY <1>4 DEF WorkerFails, Applied
  <2>4. \A v \in Worker \ {w} : worker'[v] = worker[v] /\ message'[v] = message[v]
    BY <2>1
  <2>5. Unheard' \subseteq Unheard \union {message[w]}
    BY <2>1, <2>3, <2>4 DEF Unheard
  <2> QED  BY <2>1, <2>2, <2>5 DEF Silent
<1> QED  BY <1>2, <1>3, <1>4 DEF CleaningStep

LEMMA RestartSilences == TypeInv /\ Restart => Silent' \subseteq Silent \union InHand
<1> SUFFICES ASSUME TypeInv, Restart PROVE Silent' \subseteq Silent \union InHand
  OBVIOUS
<1>1. UNCHANGED <<rawNews, signalled, cleanedNews, announced>>
  BY DEF Restart, LoseExecutions, LoseQueue, storeVars
<1>2. Unannounced' \subseteq Unannounced \union {hand[x] : x \in Execution}
  BY <1>1 DEF Unannounced
<1>3. Unheard' \subseteq Unheard \union {message[w] : w \in Worker}
  BY <1>1 DEF Unheard
<1> QED  BY <1>2, <1>3 DEF Silent, InHand

(* What a stop takes out of their hands is no more than they are.          *)
LEMMA InHandCounted ==
    ASSUME TypeInv
    PROVE  /\ IsFiniteSet(InHand) /\ Cardinality(InHand) \in Nat
           /\ Cardinality(InHand) <= Cardinality(Execution) + Cardinality(Worker)
<1> DEFINE E == {hand[x] : x \in Execution}
           W == {message[w] : w \in Worker}
<1>1. IsFiniteSet(E) /\ Cardinality(E) <= Cardinality(Execution)
  <2>1. hand \in Surjection(Execution, E)
    BY DEF TypeInv, TypeOK, CrawlTypeOK, Surjection
  <2> QED  BY <2>1, FS_Surjection
<1>2. IsFiniteSet(W) /\ Cardinality(W) <= Cardinality(Worker)
  <2>1. message \in Surjection(Worker, W)
    BY DEF TypeInv, TypeOK, CleaningTypeOK, Surjection
  <2> QED  BY <2>1, FS_Surjection
<1>3. /\ IsFiniteSet(E \union W)
      /\ Cardinality(E \union W) = Cardinality(E) + Cardinality(W) - Cardinality(E \intersect W)
  BY <1>1, <1>2, FS_Union
<1>4. IsFiniteSet(E \intersect W)
  BY <1>1, FS_Intersection
<1>5. /\ Cardinality(E) \in Nat /\ Cardinality(W) \in Nat /\ Cardinality(E \intersect W) \in Nat
      /\ Cardinality(Execution) \in Nat /\ Cardinality(Worker) \in Nat
  BY <1>1, <1>2, <1>4, FS_CardinalityType
<1> HIDE DEF E, W
<1>6. InHand = E \union W
  BY DEF InHand, E, W
<1> QED  BY <1>1, <1>2, <1>3, <1>5, <1>6, FS_CardinalityType


SilenceInv ==
    Cardinality(Silent) <= faults + stops * (Cardinality(Execution) + Cardinality(Worker))

LEMMA SilentIsFinite ==
    /\ IsFiniteSet(Silent) /\ Cardinality(Silent) \in Nat
    /\ IsFiniteSet(Silent') /\ Cardinality(Silent') \in Nat
<1>1. Silent \in SUBSET Article /\ Silent' \in SUBSET Article
  BY DEF Silent, Unannounced, Unheard
<1> QED  BY <1>1, FS_Subset, FS_CardinalityType

LEMMA SilenceInit == Init => SilenceInv
<1> SUFFICES ASSUME Init PROVE SilenceInv
  OBVIOUS
<1>1. Silent = {} /\ faults = 0 /\ stops = 0
  BY DEF Init, StoreInit, CleaningInit, Silent, Unannounced, Unheard
<1>2. Cardinality(Silent) = 0
  BY <1>1, FS_EmptySet
<1>3. Cardinality(Execution) \in Nat /\ Cardinality(Worker) \in Nat
  BY FS_CardinalityType
<1> QED  BY <1>1, <1>2, <1>3 DEF SilenceInv

LEMMA SilenceStep == TypeInv /\ SilenceInv /\ [Next]_vars => SilenceInv'
<1> SUFFICES ASSUME TypeInv, SilenceInv, [Next]_vars PROVE SilenceInv'
  OBVIOUS
<1> DEFINE hands == Cardinality(Execution) + Cardinality(Worker)
<1>0. /\ faults \in Nat /\ stops \in Nat /\ hands \in Nat /\ stops * hands \in Nat
      /\ IsFiniteSet(Silent) /\ Cardinality(Silent) \in Nat
      /\ IsFiniteSet(Silent') /\ Cardinality(Silent') \in Nat
      /\ Cardinality(Silent) <= faults + stops * hands
  <2>1. Cardinality(Execution) \in Nat /\ Cardinality(Worker) \in Nat
    BY FS_CardinalityType
  <2>2. hands \in Nat
    BY <2>1
  <2>3. faults \in Nat /\ stops \in Nat
    BY DEF TypeInv, TypeOK, StoreTypeOK
  <2>4. Cardinality(Silent) <= faults + stops * hands
    BY DEF SilenceInv
  <2> HIDE DEF hands
  <2>5. stops * hands \in Nat
    BY <2>2, <2>3
  <2> QED  BY <2>2, <2>3, <2>4, <2>5, SilentIsFinite
<1> SUFFICES Cardinality(Silent') <= faults' + stops' * hands
  BY DEF SilenceInv
<1> HIDE DEF hands
<1>1. ASSUME UNCHANGED stops,
             \/ Silent' \subseteq Silent /\ faults' \in {faults, faults + 1}
             \/ Fault /\ \E a \in Article : Silent' \subseteq Silent \union {a}
      PROVE  Cardinality(Silent') <= faults' + stops' * hands
  <2>1. CASE Silent' \subseteq Silent /\ faults' \in {faults, faults + 1}
    <3>1. Cardinality(Silent') <= Cardinality(Silent)
      BY <1>0, <2>1, FS_Subset
    <3> QED  BY <1>0, <1>1, <2>1, <3>1
  <2>2. ASSUME Fault, NEW a \in Article, Silent' \subseteq Silent \union {a}
        PROVE  Cardinality(Silent') <= faults' + stops' * hands
    <3>1. Cardinality(Silent') <= Cardinality(Silent) + 1
      BY <1>0, <2>2, OneMore
    <3>2. faults' = faults + 1
      BY <2>2 DEF Fault
    <3> QED  BY <1>0, <1>1, <3>1, <3>2
  <2> QED  BY <1>1, <2>1, <2>2
<1>2. CASE CrawlStep /\ UNCHANGED <<cleaningVars, stops>>
  BY <1>1, <1>2, CrawlSilences
<1>3. CASE CleaningStep /\ UNCHANGED <<crawlVars, stops>>
  BY <1>1, <1>3, CleaningSilences
<1>4. CASE Restart
  <2>1. Silent' \subseteq Silent \union InHand
    BY <1>4, RestartSilences
  <2>2. /\ IsFiniteSet(InHand) /\ Cardinality(InHand) \in Nat /\ Cardinality(InHand) <= hands
    BY InHandCounted DEF hands
  <2>3. /\ IsFiniteSet(Silent \union InHand)
        /\ Cardinality(Silent \union InHand)
              = Cardinality(Silent) + Cardinality(InHand) - Cardinality(Silent \intersect InHand)
    BY <1>0, <2>2, FS_Union
  <2>4. Cardinality(Silent \intersect InHand) \in Nat
    BY <1>0, FS_Intersection, FS_CardinalityType
  <2>5. Cardinality(Silent') <= Cardinality(Silent \union InHand)
    BY <2>1, <2>3, FS_Subset
  <2>6. Cardinality(Silent \union InHand) <= Cardinality(Silent) + hands
    BY <1>0, <2>2, <2>3, <2>4
  <2>7. stops' = stops + 1 /\ faults' = faults
    BY <1>4 DEF Restart
  <2>8. (stops + 1) * hands = stops * hands + hands
    BY <1>0
  <2>9. Cardinality(Silent \union InHand) \in Nat
    BY <2>3, FS_CardinalityType
  <2> QED  BY <1>0, <2>5, <2>6, <2>7, <2>8, <2>9
<1>5. CASE UNCHANGED vars
  <2>1. Silent' = Silent
    BY <1>5 DEF Silent, Unannounced, Unheard, vars, storeVars, crawlVars, cleaningVars
  <2> QED  BY <1>0, <1>5, <2>1 DEF vars
<1> QED  BY <1>2, <1>3, <1>4, <1>5 DEF Next

(* In any order of executions and workers, an article is stored and not    *)
(* announced, or cleaned and not announced, for a failing call or a stop,  *)
(* and each silences at most one article per task (_persist_successes,     *)
(* process_record).                                                        *)
THEOREM SilenceIsCounted == Spec => []OnlyFailuresSilence
<1>1. SilenceInv => OnlyFailuresSilence
  BY DEF SilenceInv, OnlyFailuresSilence, Silent
<1> QED  BY <1>1, TypeInit, TypeStep, SilenceInit, SilenceStep, PTL DEF Spec

-----------------------------------------------------------------------------
(* A second row takes a second copy.  An article is announced once, and    *)
(* its message read once, so what the process has of it beyond one copy    *)
(* was claimed while it had it; and a row is inserted by a worker with a   *)
(* copy that saw no row.                                                   *)
Places(q, a) == {i \in DOMAIN q : q[i] = a}
Hands(a) == {w \in Worker : message[w] = a}
Copies(a) == Cardinality(Places(queue, a)) + Cardinality(Hands(a))
Inserting(a) == {w \in Worker : worker[w] = "insert" /\ message[w] = a}

AnnouncedOnce ==
    /\ \A x \in Execution : hand[x] # NoArticle => hand[x] \notin signalled
    /\ \A x, y \in Execution : hand[x] = hand[y] /\ hand[x] # NoArticle => x = y

ReadOnce ==
    /\ \A w \in Worker : worker[w] = "idle" => message[w] = NoMessage
    /\ \A a \in unread : a \notin pending /\ ~ Held(a)

WithinOverdue(a) ==
    /\ Copies(a) <= 1 + overdue[a]
    /\ cleanedNews[a] + Cardinality(Inserting(a)) <= 1 + overdue[a]

CopiesAreOverdue == \A a \in Article : WithinOverdue(a)

OnceInv == AnnouncedOnce /\ ReadOnce

(* What an appended queue holds where.                                     *)
LEMMA AppendPlaces ==
    ASSUME NEW S, NEW q \in Seq(S), NEW a \in S
    PROVE  /\ DOMAIN q = 1..Len(q) /\ Len(q) \in Nat
           /\ DOMAIN Append(q, a) = 1..(Len(q) + 1)
           /\ \A i \in 1..Len(q) : Append(q, a)[i] = q[i]
           /\ Append(q, a)[Len(q) + 1] = a
OBVIOUS

LEMMA OnceInit == Init => OnceInv
BY DEF Init, StoreInit, CrawlInit, CleaningInit, OnceInv, AnnouncedOnce, ReadOnce

LEMMA CrawlOnce ==
    ASSUME TypeInv, DecidedInv, OnceInv, CrawlStep, UNCHANGED <<cleaningVars, stops>>
    PROVE  OnceInv'
<1> USE DEF TypeInv, TypeOK, CrawlTypeOK, OnceInv, AnnouncedOnce, ReadOnce
<1>1. PICK x \in Execution : PostCrawl(x) \/ Proceed(x) \/ ProceedFails(x)
  BY DEF CrawlStep
<1>2. \A a : Held(a)' <=> Held(a)
  BY DEF Held, cleaningVars
<1>3. UNCHANGED <<pending, worker, message>>
  BY DEF cleaningVars
<1>4. /\ \A a \in signalled : Stored(a)
      /\ \A y \in Execution : hand[y] # NoArticle => Stored(hand[y])
      /\ pending \subseteq signalled /\ \A a \in Article : Held(a) => a \in signalled
  <2>1. /\ \A a \in signalled : Stored(a)
        /\ \A y \in Execution : hand[y] # NoArticle => Stored(hand[y])
        /\ pending \subseteq signalled
        /\ \A i \in DOMAIN queue : queue[i] \in signalled
        /\ \A w \in Worker : worker[w] # "idle" => message[w] \in signalled
    BY DEF DecidedInv, AnnouncedAreStored, HeldWereAnnounced
  <2>2. \A w \in Worker : message[w] \in Article => worker[w] # "idle"
    OBVIOUS
  <2>3. ASSUME NEW a \in Article, Held(a) PROVE a \in signalled
    BY <2>1, <2>2, <2>3 DEF Held
  <2> QED  BY <2>1, <2>3
<1>5. ASSUME UNCHANGED <<unread, signalled, hand>> PROVE OnceInv'
  BY <1>2, <1>3, <1>5
<1>6. CASE PublishInserted(x) \/ PublishInsertedFails(x)
  <2>1. /\ hand[x] \in Article /\ hand' = [hand EXCEPT ![x] = NoArticle]
        /\ Signal(hand[x]) \/ UNCHANGED <<unread, signalled>>
    BY <1>6 DEF PublishInserted, PublishInsertedFails, Announces
  <2>2. /\ hand'[x] = NoArticle
        /\ \A y \in Execution \ {x} : hand'[y] = hand[y] /\ hand[y] # hand[x]
    BY <2>1
  <2>3. AnnouncedOnce'
    BY <2>1, <2>2 DEF Signal
  <2>4. hand[x] \notin pending /\ ~ Held(hand[x])
    BY <1>4, <2>1
  <2>5. ReadOnce'
    BY <1>2, <1>3, <2>1, <2>4 DEF Signal
  <2> QED  BY <2>3, <2>5
<1>7. ASSUME NEW a \in Article, InsertRaw(x, a) \/ InsertRawFails(x, a) PROVE OnceInv'
  <2>1. /\ UNCHANGED <<unread, signalled>>
        /\ UNCHANGED hand \/ (~ Duplicate(a) /\ hand' = [hand EXCEPT ![x] = a])
    BY <1>7 DEF InsertRaw, InsertRawFails
  <2>2. CASE ~ Duplicate(a) /\ hand' = [hand EXCEPT ![x] = a]
    <3>1. ~ Stored(a)
      BY <2>2 DEF Duplicate
    <3>2. hand'[x] = a /\ \A y \in Execution \ {x} : hand'[y] = hand[y]
      BY <2>2
    <3>3. AnnouncedOnce'
      BY <1>4, <2>1, <3>1, <3>2
    <3> QED  BY <1>2, <1>3, <2>1, <3>3
  <2> QED  BY <1>5, <2>1, <2>2
<1>8. CASE /\ ~ (PublishInserted(x) \/ PublishInsertedFails(x))
           /\ ~ \E a \in Article : InsertRaw(x, a) \/ InsertRawFails(x, a)
  <2>1. UNCHANGED <<unread, signalled, hand>>
    BY <1>1, <1>8 DEF Proceed, ProceedFails, PostCrawl, Discover, CollectAnnouncements,
       ExtractArticleUrls, ReadEntries, ReadDescriptions, Finds, DiscoverFails,
       CheckCoverageGapFails, Abandons, ReturnResult, PublishSuccess, PublishSuccessFails,
       PublishFailed, PublishFailedFails, CheckErrorLog, CheckErrorLogFails, ProcessEntry,
       AcquirePermit, FetchPage, FetchPageRaises, RetryPage, SaveCrawlError,
       SaveCrawlErrorFails, storeVars
  <2> QED  BY <1>5, <2>1
<1> QED  BY <1>6, <1>7, <1>8

LEMMA CleaningOnce ==
    ASSUME TypeInv, OnceInv, CleaningStep, UNCHANGED <<crawlVars, stops>>
    PROVE  OnceInv'
<1> USE DEF TypeInv, TypeOK, CleaningTypeOK, StoreTypeOK, OnceInv, AnnouncedOnce, ReadOnce
<1>0. UNCHANGED <<hand, signalled>>
  BY DEF crawlVars, CleaningStep, ReadMessage, ReadMessageFails, ReclaimLost, ReclaimOverdue,
         Reclaim, ProcessRecord, Take, FetchRawNews, MarkDeleted, AlreadyCleaned,
         InsertCleanedNews, PublishCleaned, Ack, WorkerFails, storeVars
<1>1. AnnouncedOnce'
  BY <1>0
<1>2. ASSUME NEW a \in Article, queue' = Append(queue, a), UNCHANGED <<worker, message>>
      PROVE  \A b \in Article \ {a} : Held(b)' => Held(b)
  <2>1. queue \in Seq(Article)
    OBVIOUS
  <2>2. \A b \in Article \ {a} : (\E i \in DOMAIN queue' : queue'[i] = b)
                                    => \E i \in DOMAIN queue : queue[i] = b
    <3>1. \A i \in DOMAIN queue' : (i \in DOMAIN queue /\ queue'[i] = queue[i]) \/ queue'[i] = a
      BY <1>2, <2>1, AppendPlaces
    <3> QED  BY <3>1
  <2> QED  BY <1>2, <2>2 DEF Held
<1>3. CASE ReadMessage
  BY <1>1, <1>2, <1>3 DEF ReadMessage
<1>4. CASE ReadMessageFails
  <2>1. UNCHANGED <<queue, worker, message>>
    BY <1>4 DEF ReadMessageFails
  <2>2. \A a : Held(a)' <=> Held(a)
    BY <2>1 DEF Held
  <2> QED  BY <1>1, <1>4, <2>1, <2>2 DEF ReadMessageFails
<1>5. CASE ReclaimLost \/ ReclaimOverdue
  <2>1. PICK a \in Article : Reclaim(a)
    BY <1>5 DEF ReclaimLost, ReclaimOverdue
  <2> QED  BY <1>1, <1>2, <2>1 DEF Reclaim, storeVars
<1>6. ASSUME NEW w \in Worker, ProcessRecord(w) \/ WorkerFails(w) PROVE OnceInv'
  <2>1. unread' = unread /\ pending' \subseteq pending
    BY <1>6 DEF ProcessRecord, Take, FetchRawNews, MarkDeleted, AlreadyCleaned,
                InsertCleanedNews, PublishCleaned, Ack, WorkerFails, Applied, storeVars
  <2>2. CASE Take(w)
    <3>1. queue \in Seq(Article) /\ queue # <<>>
      BY <2>2 DEF Take
    <3>2. /\ Head(queue) = queue[1] /\ 1 \in DOMAIN queue /\ queue[1] \in Article
          /\ \A i \in DOMAIN Tail(queue) : i + 1 \in DOMAIN queue /\ Tail(queue)[i] = queue[i + 1]
      BY <3>1, TailElements
    <3>3. /\ queue' = Tail(queue) /\ message' = [message EXCEPT ![w] = queue[1]]
          /\ worker' = [worker EXCEPT ![w] = "fetch"]
      BY <2>2, <3>2 DEF Take
    <3>4. \A a \in Article : Held(a)' => Held(a)
      BY <3>2, <3>3 DEF Held
    <3>5. ReadOnce'
      BY <2>1, <3>3, <3>4
    <3> QED  BY <1>1, <3>5
  <2>3. CASE ~ Take(w)
    <3>1. /\ queue' = queue
          /\ \/ message' = message /\ worker' # worker /\ worker[w] # "idle"
                /\ \E place \in Place \ {"idle"} : worker' = [worker EXCEPT ![w] = place]
             \/ /\ message' = [message EXCEPT ![w] = NoMessage]
                /\ worker' = [worker EXCEPT ![w] = "idle"]
      BY <1>6, <2>3 DEF ProcessRecord, FetchRawNews, MarkDeleted, AlreadyCleaned,
                InsertCleanedNews, PublishCleaned, Ack, WorkerFails, From, Place
    <3>2. \A a \in Article : Held(a)' => Held(a)
      BY <3>1 DEF Held
    <3>3. \A v \in Worker : worker'[v] = "idle" => message'[v] = NoMessage
      BY <3>1
    <3> QED  BY <1>1, <2>1, <3>2, <3>3
  <2> QED  BY <2>2, <2>3
<1> QED  BY <1>3, <1>4, <1>5, <1>6 DEF CleaningStep

LEMMA OnceStep == TypeInv /\ DecidedInv /\ OnceInv /\ [Next]_vars => OnceInv'
<1> SUFFICES ASSUME TypeInv, DecidedInv, OnceInv, [Next]_vars PROVE OnceInv'
  OBVIOUS
<1>1. CASE CrawlStep /\ UNCHANGED <<cleaningVars, stops>>
  BY <1>1, CrawlOnce
<1>2. CASE CleaningStep /\ UNCHANGED <<crawlVars, stops>>
  BY <1>2, CleaningOnce
<1> USE DEF OnceInv, AnnouncedOnce, ReadOnce, Held
<1>3. CASE Restart
  <2>1. /\ unread' = unread /\ signalled' = signalled /\ pending' = pending /\ queue' = <<>>
        /\ worker' = [w \in Worker |-> "idle"] /\ message' = [w \in Worker |-> NoMessage]
        /\ hand' = [x \in Execution |-> NoArticle]
    BY <1>3 DEF Restart, LoseExecutions, LoseQueue, storeVars
  <2>2. unread \subseteq Article
    BY DEF TypeInv, TypeOK, StoreTypeOK
  <2> QED  BY <2>1, <2>2
<1>4. CASE UNCHANGED vars
  BY <1>4 DEF vars, storeVars, crawlVars, cleaningVars
<1> QED  BY <1>1, <1>2, <1>3, <1>4 DEF Next

LEMMA PlacesAreFinite ==
    ASSUME NEW S, NEW q \in Seq(S), NEW a
    PROVE  IsFiniteSet(Places(q, a)) /\ Cardinality(Places(q, a)) \in Nat
<1>1. DOMAIN q = 1..Len(q) /\ Len(q) \in Nat
  OBVIOUS
<1>2. IsFiniteSet(1..Len(q))
  BY <1>1, FS_Interval
<1>3. Places(q, a) \in SUBSET (1..Len(q))
  BY <1>1 DEF Places
<1> QED  BY <1>2, <1>3, FS_Subset, FS_CardinalityType

(* A queue that grows holds one copy more of what it grows by.             *)
LEMMA PlacesAppended ==
    ASSUME NEW S, NEW q \in Seq(S), NEW a \in S
    PROVE  /\ Cardinality(Places(Append(q, a), a)) = Cardinality(Places(q, a)) + 1
           /\ \A b : b # a => Places(Append(q, a), b) = Places(q, b)
<1>1. /\ DOMAIN q = 1..Len(q) /\ Len(q) \in Nat
      /\ DOMAIN Append(q, a) = 1..(Len(q) + 1)
      /\ \A i \in 1..Len(q) : Append(q, a)[i] = q[i]
      /\ Append(q, a)[Len(q) + 1] = a
  BY AppendPlaces
<1>2. Places(Append(q, a), a) = Places(q, a) \union {Len(q) + 1} /\ Len(q) + 1 \notin Places(q, a)
  BY <1>1 DEF Places
<1>3. \A b : b # a => Places(Append(q, a), b) = Places(q, b)
  BY <1>1 DEF Places
<1>4. Cardinality(Places(q, a) \union {Len(q) + 1}) = Cardinality(Places(q, a)) + 1
  BY <1>2, PlacesAreFinite, FS_AddElement
<1> QED  BY <1>2, <1>3, <1>4

(* What is taken from a queue is one copy less of it there.                *)
LEMMA PlacesTaken ==
    ASSUME NEW S, NEW q \in Seq(S), q # <<>>, NEW a
    PROVE  Cardinality(Places(Tail(q), a))
              = IF q[1] = a THEN Cardinality(Places(q, a)) - 1 ELSE Cardinality(Places(q, a))
<1> DEFINE T == Places(Tail(q), a)
           f == [i \in T |-> i + 1]
<1>1. /\ DOMAIN q = 1..Len(q) /\ Len(q) \in Nat \ {0} /\ Tail(q) \in Seq(S)
      /\ DOMAIN Tail(q) = 1..(Len(q) - 1)
      /\ \A i \in 1..(Len(q) - 1) : Tail(q)[i] = q[i + 1]
  OBVIOUS
<1>2. IsFiniteSet(T)
  BY <1>1, PlacesAreFinite
<1>3. \A i \in T : i \in Nat /\ i + 1 \in Places(q, a) \ {1}
  BY <1>1 DEF Places
<1>4. \A j \in Places(q, a) \ {1} : j - 1 \in T /\ j = (j - 1) + 1
  BY <1>1 DEF Places
<1> HIDE DEF T
<1>5. f \in Bijection(T, Places(q, a) \ {1})
  <2>1. f \in [T -> Places(q, a) \ {1}]
    BY <1>3
  <2>2. \A i, j \in T : f[i] = f[j] => i = j
    BY <1>3
  <2>3. \A j \in Places(q, a) \ {1} : \E i \in T : f[i] = j
    BY <1>4
  <2> QED  BY <2>1, <2>2, <2>3 DEF Bijection, Injection, Surjection, IsInjective
<1>6. Cardinality(T) = Cardinality(Places(q, a) \ {1})
  BY <1>2, <1>5, FS_Bijection DEF ExistsBijection
<1>7. 1 \in Places(q, a) <=> q[1] = a
  BY <1>1 DEF Places
<1>8. Cardinality(Places(q, a) \ {1})
         = IF 1 \in Places(q, a) THEN Cardinality(Places(q, a)) - 1 ELSE Cardinality(Places(q, a))
  BY PlacesAreFinite, FS_RemoveElement
<1> QED  BY <1>6, <1>7, <1>8 DEF T

LEMMA CopiesInit == Init => CopiesAreOverdue
<1> SUFFICES ASSUME Init, NEW a \in Article PROVE WithinOverdue(a)
  BY DEF CopiesAreOverdue
<1>1. Places(queue, a) = {} /\ Hands(a) = {} /\ Inserting(a) = {}
  BY DEF Init, CleaningInit, Places, Hands, Inserting
<1>2. Cardinality({}) = 0
  BY FS_EmptySet
<1>3. cleanedNews[a] = 0 /\ overdue[a] = 0
  BY DEF Init, CleaningInit
<1> QED  BY <1>1, <1>2, <1>3 DEF WithinOverdue, Copies

LEMMA WorkersAreFinite ==
    ASSUME NEW W \in SUBSET Worker
    PROVE  IsFiniteSet(W) /\ Cardinality(W) \in Nat
BY FS_Subset, FS_CardinalityType

LEMMA CountsTyped ==
    ASSUME TypeInv, NEW a \in Article
    PROVE  /\ IsFiniteSet(Hands(a)) /\ IsFiniteSet(Inserting(a))
           /\ Cardinality(Hands(a)) \in Nat /\ Cardinality(Inserting(a)) \in Nat
           /\ Cardinality(Places(queue, a)) \in Nat
           /\ cleanedNews[a] \in Nat /\ overdue[a] \in Nat
           /\ queue \in Seq(Article)
<1>1. Hands(a) \in SUBSET Worker /\ Inserting(a) \in SUBSET Worker
  BY DEF Hands, Inserting
<1>2. cleanedNews[a] \in Nat /\ overdue[a] \in Nat /\ queue \in Seq(Article)
  BY DEF TypeInv, TypeOK, CleaningTypeOK
<1> QED  BY <1>1, <1>2, WorkersAreFinite, PlacesAreFinite

(* As many copies as before, or fewer, and no more rows than inserters.    *)
LEMMA CopiesShrink ==
    ASSUME TypeInv, TypeInv', CopiesAreOverdue, NEW a \in Article,
           Cardinality(Places(queue, a)') <= Cardinality(Places(queue, a)),
           Hands(a)' \subseteq Hands(a), overdue'[a] = overdue[a],
           cleanedNews'[a] + Cardinality(Inserting(a)')
               <= cleanedNews[a] + Cardinality(Inserting(a))
    PROVE  WithinOverdue(a)'
<1>1. /\ Cardinality(Hands(a)) \in Nat /\ Cardinality(Inserting(a)) \in Nat
      /\ Cardinality(Places(queue, a)) \in Nat
      /\ IsFiniteSet(Hands(a)) /\ cleanedNews[a] \in Nat /\ overdue[a] \in Nat
  BY CountsTyped
<1>2. /\ Cardinality(Hands(a)') \in Nat /\ Cardinality(Inserting(a)') \in Nat
      /\ Cardinality(Places(queue, a)') \in Nat /\ cleanedNews'[a] \in Nat
  <2>1. Hands(a)' \in SUBSET Worker /\ Inserting(a)' \in SUBSET Worker
    BY DEF Hands, Inserting
  <2>2. cleanedNews'[a] \in Nat /\ queue' \in Seq(Article)
    BY DEF TypeInv, TypeOK, CleaningTypeOK
  <2>3. Places(queue, a)' = Places(queue', a)
    BY DEF Places
  <2> QED  BY <2>1, <2>2, <2>3, WorkersAreFinite, PlacesAreFinite
<1>3. Cardinality(Hands(a)') <= Cardinality(Hands(a))
  BY <1>1, FS_Subset
<1>4. /\ Copies(a) <= 1 + overdue[a]
      /\ cleanedNews[a] + Cardinality(Inserting(a)) <= 1 + overdue[a]
  BY DEF CopiesAreOverdue, WithinOverdue
<1>5. Copies(a)' = Cardinality(Places(queue, a)') + Cardinality(Hands(a)')
  BY DEF Copies
<1> QED  BY <1>1, <1>2, <1>3, <1>4, <1>5 DEF WithinOverdue, Copies

(* A message is put on the queue: a copy of one nobody has, or one that is *)
(* overdue.                                                                *)
LEMMA QueuedCopies ==
    ASSUME TypeInv, TypeInv', CopiesAreOverdue, NEW b \in Article,
           queue' = Append(queue, b), UNCHANGED <<worker, message, cleanedNews>>,
           \/ ~ Held(b) /\ UNCHANGED overdue
           \/ overdue' = [overdue EXCEPT ![b] = @ + 1],
           NEW a \in Article
    PROVE  WithinOverdue(a)'
<1>0. /\ queue \in Seq(Article) /\ overdue[a] \in Nat /\ overdue[b] \in Nat
      /\ overdue \in [Article -> Nat] /\ cleanedNews[a] \in Nat
  BY CountsTyped DEF TypeInv, TypeOK, CleaningTypeOK
<1>1. /\ Hands(a)' = Hands(a) /\ Inserting(a)' = Inserting(a) /\ cleanedNews'[a] = cleanedNews[a]
      /\ Places(queue, a)' = Places(queue', a)
  BY DEF Hands, Inserting, Places
<1>2. CASE a # b
  <2>1. Places(queue, a)' = Places(queue, a)
    BY <1>0, <1>1, <1>2, PlacesAppended
  <2>2. overdue'[a] = overdue[a]
    BY <1>0, <1>2
  <2>3. Cardinality(Places(queue, a)) \in Nat /\ Cardinality(Inserting(a)) \in Nat
    BY CountsTyped
  <2> QED  BY <1>0, <1>1, <2>1, <2>2, <2>3, CopiesShrink
<1>3. CASE a = b
  <2>1. Cardinality(Places(queue, a)') = Cardinality(Places(queue, a)) + 1
    BY <1>0, <1>1, <1>3, PlacesAppended
  <2>2. Copies(a)' = Cardinality(Places(queue, a)') + Cardinality(Hands(a)')
    BY DEF Copies
  <2>3. /\ Cardinality(Hands(a)) \in Nat /\ Cardinality(Inserting(a)) \in Nat
        /\ Cardinality(Places(queue, a)) \in Nat
    BY CountsTyped
  <2>4. /\ Copies(a) <= 1 + overdue[a]
        /\ cleanedNews[a] + Cardinality(Inserting(a)) <= 1 + overdue[a]
    BY DEF CopiesAreOverdue, WithinOverdue
  <2>5. CASE ~ Held(b) /\ UNCHANGED overdue
    <3>1. Places(queue, a) = {} /\ Hands(a) = {}
      BY <1>3, <2>5 DEF Held, Places, Hands
    <3>2. Cardinality(Places(queue, a)) = 0 /\ Cardinality(Hands(a)) = 0
      BY <3>1, FS_EmptySet
    <3> QED  BY <1>0, <1>1, <2>1, <2>2, <2>4, <2>5, <3>2 DEF WithinOverdue
  <2>6. CASE overdue' = [overdue EXCEPT ![b] = @ + 1]
    <3>1. overdue'[a] = overdue[a] + 1
      BY <1>0, <1>3, <2>6
    <3> QED  BY <1>0, <1>1, <2>1, <2>2, <2>3, <2>4, <3>1 DEF WithinOverdue, Copies
  <2> QED  BY <2>5, <2>6
<1> QED  BY <1>2, <1>3

LEMMA QueueCopies ==
    ASSUME TypeInv, TypeInv', OnceInv, CopiesAreOverdue, NEW a \in Article,
           ReadMessage \/ ReadMessageFails \/ ReclaimLost \/ ReclaimOverdue
    PROVE  WithinOverdue(a)'
<1>1. CASE ReadMessage
  <2>1. PICK b \in unread : queue' = Append(queue, b)
    BY <1>1 DEF ReadMessage
  <2>2. b \in Article /\ ~ Held(b)
    BY DEF OnceInv, ReadOnce, TypeInv, TypeOK, StoreTypeOK
  <2>3. UNCHANGED <<worker, message, cleanedNews, overdue>>
    BY <1>1 DEF ReadMessage
  <2> QED  BY <2>1, <2>2, <2>3, QueuedCopies
<1>2. CASE ReadMessageFails
  <2>1. UNCHANGED <<queue, worker, message, cleanedNews, overdue>>
    BY <1>2 DEF ReadMessageFails
  <2>2. /\ Places(queue, a)' = Places(queue, a) /\ Hands(a)' = Hands(a)
        /\ Inserting(a)' = Inserting(a)
    BY <2>1 DEF Places, Hands, Inserting
  <2>3. /\ Cardinality(Places(queue, a)) \in Nat /\ Cardinality(Inserting(a)) \in Nat
        /\ cleanedNews[a] \in Nat
    BY CountsTyped
  <2> QED  BY <2>1, <2>2, <2>3, CopiesShrink
<1>3. CASE ReclaimLost
  <2>1. PICK b \in Article : ~ Held(b) /\ Reclaim(b) /\ UNCHANGED overdue
    BY <1>3 DEF ReclaimLost
  <2>2. queue' = Append(queue, b) /\ UNCHANGED <<worker, message, cleanedNews>>
    BY <2>1 DEF Reclaim
  <2> QED  BY <2>1, <2>2, QueuedCopies
<1>4. CASE ReclaimOverdue
  <2>1. PICK b \in Article : Reclaim(b) /\ overdue' = [overdue EXCEPT ![b] = @ + 1]
    BY <1>4 DEF ReclaimOverdue
  <2>2. queue' = Append(queue, b) /\ UNCHANGED <<worker, message, cleanedNews>>
    BY <2>1 DEF Reclaim
  <2> QED  BY <2>1, <2>2, QueuedCopies
<1> QED  BY <1>1, <1>2, <1>3, <1>4

(* A worker takes a copy from the queue into its hands.                    *)
LEMMA TakenCopies ==
    ASSUME TypeInv, TypeInv', OnceInv, CopiesAreOverdue, NEW a \in Article,
           NEW w \in Worker, Take(w)
    PROVE  WithinOverdue(a)'
<1>0. /\ queue \in Seq(Article) /\ queue # <<>> /\ worker[w] = "idle" /\ message[w] \notin Article
      /\ worker \in [Worker -> Place] /\ message \in [Worker -> Article \union {NoMessage}]
  BY DEF Take, TypeInv, TypeOK, CleaningTypeOK, OnceInv, ReadOnce
<1>1. /\ queue' = Tail(queue) /\ message' = [message EXCEPT ![w] = queue[1]]
      /\ worker' = [worker EXCEPT ![w] = "fetch"] /\ UNCHANGED <<cleanedNews, overdue>>
  BY <1>0, TailElements DEF Take
<1>2. Places(queue, a)' = Places(Tail(queue), a)
  BY <1>1 DEF Places
<1>3. Cardinality(Places(queue, a)')
         = IF queue[1] = a THEN Cardinality(Places(queue, a)) - 1
                           ELSE Cardinality(Places(queue, a))
  BY <1>0, <1>2, PlacesTaken
<1>4. Inserting(a)' = Inserting(a)
  BY <1>0, <1>1 DEF Inserting
<1>5. /\ Cardinality(Hands(a)) \in Nat /\ Cardinality(Inserting(a)) \in Nat
      /\ IsFiniteSet(Hands(a)) /\ Cardinality(Places(queue, a)) \in Nat
      /\ cleanedNews[a] \in Nat /\ overdue[a] \in Nat
  BY CountsTyped
<1>6. CASE queue[1] # a
  <2>1. Hands(a)' \subseteq Hands(a)
    BY <1>0, <1>1, <1>6 DEF Hands
  <2> QED  BY <1>1, <1>3, <1>4, <1>5, <1>6, <2>1, CopiesShrink
<1>7. CASE queue[1] = a
  <2>1. Hands(a)' = Hands(a) \union {w} /\ w \notin Hands(a)
    BY <1>0, <1>1, <1>7 DEF Hands
  <2>2. Cardinality(Hands(a)') = Cardinality(Hands(a)) + 1
    BY <1>5, <2>1, FS_AddElement
  <2>3. Copies(a)' = Copies(a)
    <3>1. Copies(a)' = Cardinality(Places(queue, a)') + Cardinality(Hands(a)')
      BY DEF Copies
    <3> QED  BY <1>3, <1>5, <1>7, <2>2, <3>1 DEF Copies
  <2> QED  BY <1>1, <1>4, <2>3 DEF WithinOverdue, CopiesAreOverdue
<1> QED  BY <1>6, <1>7

(* A worker that saw no row goes on to insert one.                         *)
LEMMA CheckedCopies ==
    ASSUME TypeInv, TypeInv', CopiesAreOverdue, NEW a \in Article,
           NEW w \in Worker, AlreadyCleaned(w)
    PROVE  WithinOverdue(a)'
<1>0. /\ worker \in [Worker -> Place] /\ message[w] \in Article /\ worker[w] = "check"
  BY DEF AlreadyCleaned, From, TypeInv, TypeOK, CleaningTypeOK, Working
<1>1. /\ worker' = [worker EXCEPT ![w] = IF cleanedNews[message[w]] > 0 THEN "ack" ELSE "insert"]
      /\ UNCHANGED <<queue, message, cleanedNews, overdue>>
  BY DEF AlreadyCleaned, From
<1>2. Places(queue, a)' = Places(queue, a) /\ Hands(a)' = Hands(a)
  BY <1>1 DEF Places, Hands
<1>3. /\ Cardinality(Hands(a)) \in Nat /\ Cardinality(Inserting(a)) \in Nat
      /\ IsFiniteSet(Hands(a)) /\ Cardinality(Places(queue, a)) \in Nat
      /\ cleanedNews[a] \in Nat /\ overdue[a] \in Nat
  BY CountsTyped
<1>4. CASE cleanedNews[a] > 0 \/ message[w] # a
  <2>1. Inserting(a)' = Inserting(a)
    BY <1>0, <1>1, <1>4 DEF Inserting
  <2> QED  BY <1>1, <1>2, <1>3, <2>1, CopiesShrink
<1>5. CASE cleanedNews[a] = 0
  <2>1. Inserting(a)' \in SUBSET Hands(a)
    BY <1>1 DEF Inserting, Hands
  <2>2. Cardinality(Inserting(a)') <= Cardinality(Hands(a))
    BY <1>3, <2>1, FS_Subset
  <2>3. Cardinality(Inserting(a)') \in Nat
    BY <1>3, <2>1, FS_Subset, FS_CardinalityType
  <2>4. Copies(a)' = Copies(a) /\ Copies(a) <= 1 + overdue[a]
    BY <1>2 DEF Copies, CopiesAreOverdue, WithinOverdue
  <2> QED  BY <1>1, <1>3, <1>5, <2>2, <2>3, <2>4 DEF WithinOverdue, Copies
<1> QED  BY <1>3, <1>4, <1>5

(* A row is inserted by one of the inserters, who is none any more.        *)
LEMMA InsertedCopies ==
    ASSUME TypeInv, TypeInv', CopiesAreOverdue, NEW a \in Article, NEW w \in Worker,
           worker[w] = "insert" =>
               cleanedNews' \in {cleanedNews, [cleanedNews EXCEPT ![message[w]] = @ + 1]},
           worker[w] # "insert" => cleanedNews' = cleanedNews,
           \E place \in Place \ {"insert"} : worker' = [worker EXCEPT ![w] = place],
           message' \in {message, [message EXCEPT ![w] = NoMessage]},
           UNCHANGED <<queue, overdue>>
    PROVE  WithinOverdue(a)'
<1>0. /\ worker \in [Worker -> Place] /\ message \in [Worker -> Article \union {NoMessage}]
      /\ cleanedNews \in [Article -> Nat] /\ a # NoMessage
  BY DEF TypeInv, TypeOK, CleaningTypeOK
<1>1. /\ Cardinality(Inserting(a)) \in Nat /\ IsFiniteSet(Inserting(a))
      /\ Cardinality(Places(queue, a)) \in Nat /\ cleanedNews[a] \in Nat
  BY CountsTyped
<1>2. Places(queue, a)' = Places(queue, a)
  BY DEF Places
<1>3. Hands(a)' \subseteq Hands(a)
  BY <1>0 DEF Hands
<1>4. Inserting(a)' = Inserting(a) \ {w}
  BY <1>0 DEF Inserting
<1>5. Cardinality(Inserting(a)')
         = IF w \in Inserting(a) THEN Cardinality(Inserting(a)) - 1 ELSE Cardinality(Inserting(a))
  BY <1>1, <1>4, FS_RemoveElement
<1>6. cleanedNews'[a] + Cardinality(Inserting(a)') <= cleanedNews[a] + Cardinality(Inserting(a))
  <2>1. CASE w \in Inserting(a)
    <3>1. cleanedNews'[a] \in {cleanedNews[a], cleanedNews[a] + 1}
      BY <1>0, <2>1 DEF Inserting
    <3> QED  BY <1>1, <1>5, <2>1, <3>1
  <2>2. CASE w \notin Inserting(a)
    <3>1. cleanedNews'[a] = cleanedNews[a]
      BY <1>0, <2>2 DEF Inserting
    <3> QED  BY <1>1, <1>5, <2>2, <3>1
  <2> QED  BY <2>1, <2>2
<1> QED  BY <1>1, <1>2, <1>3, <1>6, CopiesShrink

LEMMA WorkerCopies ==
    ASSUME TypeInv, TypeInv', OnceInv, CopiesAreOverdue, NEW a \in Article,
           NEW w \in Worker, ProcessRecord(w) \/ WorkerFails(w)
    PROVE  WithinOverdue(a)'
<1>1. CASE Take(w)
  BY <1>1, TakenCopies
<1>2. CASE AlreadyCleaned(w)
  BY <1>2, CheckedCopies
<1>3. CASE FetchRawNews(w) \/ MarkDeleted(w) \/ InsertCleanedNews(w) \/ PublishCleaned(w) \/ Ack(w)
           \/ WorkerFails(w)
  <2>1. /\ worker[w] = "insert" =>
              cleanedNews' \in {cleanedNews, [cleanedNews EXCEPT ![message[w]] = @ + 1]}
        /\ worker[w] # "insert" => cleanedNews' = cleanedNews
    BY <1>3 DEF FetchRawNews, MarkDeleted, InsertCleanedNews, PublishCleaned, Ack, WorkerFails,
                Applied, From
  <2>2. \E place \in Place \ {"insert"} : worker' = [worker EXCEPT ![w] = place]
    BY <1>3 DEF FetchRawNews, MarkDeleted, InsertCleanedNews, PublishCleaned, Ack, WorkerFails,
                From, Place
  <2>3. /\ message' \in {message, [message EXCEPT ![w] = NoMessage]}
        /\ UNCHANGED <<queue, overdue>>
    BY <1>3 DEF FetchRawNews, MarkDeleted, InsertCleanedNews, PublishCleaned, Ack, WorkerFails
  <2> QED  BY <2>1, <2>2, <2>3, InsertedCopies
<1> QED  BY <1>1, <1>2, <1>3 DEF ProcessRecord

LEMMA CopiesStep ==
    TypeInv /\ TypeInv' /\ OnceInv /\ CopiesAreOverdue /\ [Next]_vars => CopiesAreOverdue'
<1> SUFFICES ASSUME TypeInv, TypeInv', OnceInv, CopiesAreOverdue, [Next]_vars, NEW a \in Article
             PROVE  WithinOverdue(a)'
  BY DEF CopiesAreOverdue
<1>0. /\ Cardinality(Hands(a)) \in Nat /\ Cardinality(Inserting(a)) \in Nat
      /\ Cardinality(Places(queue, a)) \in Nat /\ cleanedNews[a] \in Nat /\ overdue[a] \in Nat
  BY CountsTyped
<1>1. CASE UNCHANGED cleaningVars
  <2>1. /\ Places(queue, a)' = Places(queue, a) /\ Hands(a)' = Hands(a)
        /\ Inserting(a)' = Inserting(a) /\ UNCHANGED <<cleanedNews, overdue>>
    BY <1>1 DEF Places, Hands, Inserting, cleaningVars
  <2> QED  BY <1>0, <2>1, CopiesShrink
<1>2. CASE CleaningStep
  BY <1>2, QueueCopies, WorkerCopies DEF CleaningStep
<1>3. CASE Restart
  <2>1. /\ queue' = <<>> /\ worker' = [w \in Worker |-> "idle"]
        /\ message' = [w \in Worker |-> NoMessage] /\ UNCHANGED <<cleanedNews, overdue>>
    BY <1>3 DEF Restart, LoseQueue
  <2>2. Places(queue, a)' = {} /\ Hands(a)' = {} /\ Inserting(a)' = {}
    BY <2>1 DEF Places, Hands, Inserting
  <2>3. Cardinality(Places(queue, a)') = 0 /\ Cardinality(Inserting(a)') = 0
    BY <2>2, FS_EmptySet
  <2>4. /\ Cardinality(Places(queue, a)') <= Cardinality(Places(queue, a))
        /\ Hands(a)' \subseteq Hands(a) /\ overdue'[a] = overdue[a]
    BY <1>0, <2>1, <2>2, <2>3
  <2>5. cleanedNews'[a] + Cardinality(Inserting(a)') <= cleanedNews[a] + Cardinality(Inserting(a))
    BY <1>0, <2>1, <2>3
  <2> QED  BY <2>4, <2>5, CopiesShrink
<1> QED  BY <1>1, <1>2, <1>3 DEF Next, vars

(* An article gets a second cleaned_news row only by a claim of a message  *)
(* the process still had (_reclaim_loop, _already_cleaned).                *)
THEOREM RowsAreOverdue == Spec => []SecondRowIsOverdue
<1>1. TypeInv /\ CopiesAreOverdue => SecondRowIsOverdue
  <2> SUFFICES ASSUME TypeInv, CopiesAreOverdue, NEW a \in Article
               PROVE  cleanedNews[a] <= 1 + overdue[a]
    BY DEF SecondRowIsOverdue
  <2>1. Cardinality(Inserting(a)) \in Nat /\ cleanedNews[a] \in Nat /\ overdue[a] \in Nat
    BY CountsTyped
  <2> QED  BY <2>1 DEF CopiesAreOverdue, WithinOverdue
<1> QED  BY <1>1, TypeInit, TypeStep, DecidedInit, DecidedStep, OnceInit, OnceStep, CopiesInit,
            CopiesStep, PTL DEF Spec
============================================================================
