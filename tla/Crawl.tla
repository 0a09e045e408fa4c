------------------------------- MODULE Crawl -------------------------------
(***************************************************************************)
(* Crawl executions: a POST /v1/crawl starts CrawlService.execute in a     *)
(* task of its own; any number may run at once, of the same source too.    *)
(*                                                                         *)
(* A crawler finds its source's articles, drops those in crawl_error_log   *)
(* and fetches the rest, max_concurrent at a time and each up to max_retry *)
(* times; MINGPAO's feed has the text, and nothing is fetched.             *)
(* Only when all are fetched are the failures logged, the articles         *)
(* inserted and announced one by one, and the outcome signalled.           *)
(*                                                                         *)
(* The order in which an execution takes the articles of a list is left    *)
(* open.  Workers that outlive an execution (gather raises the first       *)
(* exception and cancels nothing) only read, and are left out.  An address *)
(* a feed names twice is taken once: the second row would be a duplicate.  *)
(***************************************************************************)
EXTENDS NewsStore

CONSTANTS
    Execution,
    SourceOf,        \* [Article -> the source it is an article of]
    Requested,       \* the sources that are asked for
    max_concurrent,  \* the workers of an execution that fetch at once
    max_retry,       \* the attempts at a page
    NoArticle

Source == {"HKEX", "MINGPAO", "AASTOCKS", "YAHOO_HK"}

ASSUME CrawlAssumption ==
    /\ IsFiniteSet(Execution)
    /\ SourceOf \in [Article -> Source]
    /\ Requested \subseteq Source
    /\ max_concurrent \in Nat \ {0} /\ max_retry \in Nat \ {0}
    /\ NoArticle \notin Article

VARIABLES
    source,     \* [Execution -> the source_name of its request]
    crawl,      \* [Execution -> where execute is]
    page,       \* [Execution -> [Article -> where its worker is or how it ended]]
    attempt,    \* [Execution -> [Article -> the attempts made at its page]]
    left,       \* [Execution -> the successes and failures not persisted yet]
    hand,       \* [Execution -> the article inserted and not announced yet]
    errorLog,   \* the source_urls in crawl_error_log
    completed   \* [Execution -> the statuses signalled on crawl_completed]

crawlVars == <<source, crawl, page, attempt, left, hand, errorLog, completed>>

Stage == {"posted", "discover", "fetch", "persist", "failed", "over", "lost"}
Page == {"none", "check", "queue", "get", "success", "failure", "skipped"}
Status == {"SUCCESS", "FAILED"}

CrawlTypeOK ==
    /\ source \in [Execution -> Requested]
    /\ crawl \in [Execution -> Stage]
    /\ page \in [Execution -> [Article -> Page]]
    /\ attempt \in [Execution -> [Article -> 0..max_retry]]
    /\ left \in [Execution -> SUBSET Article]
    /\ hand \in [Execution -> Article \union {NoArticle}]
    /\ errorLog \subseteq Article
    /\ completed \in [Execution -> SUBSET Status]

CrawlInit ==
    /\ source \in [Execution -> Requested]
    /\ crawl = [x \in Execution |-> "posted"]
    /\ page = [x \in Execution |-> [a \in Article |-> "none"]]
    /\ attempt = [x \in Execution |-> [a \in Article |-> 0]]
    /\ left = [x \in Execution |-> {}]
    /\ hand = [x \in Execution |-> NoArticle]
    /\ errorLog = {}
    /\ completed = [x \in Execution |-> {}]

Articles(x, ends) == {a \in Article : page[x][a] \in ends}
Go(x, stage) == crawl' = [crawl EXCEPT ![x] = stage]
Turn(x, a, end) == page' = [page EXCEPT ![x][a] = end]

-----------------------------------------------------------------------------
(* The crawlers' run.                                                      *)
PostCrawl(x) ==
    /\ crawl[x] = "posted"
    /\ Go(x, "discover")
    /\ UNCHANGED <<page, attempt, left, hand, errorLog, completed, faults, storeVars>>

Lists(x, s) == crawl[x] = "discover" /\ source[x] = s

Finds(x, s) ==
    /\ \E found \in SUBSET {a \in Article : SourceOf[a] = s} :
          page' = [page EXCEPT ![x] = [a \in Article |-> IF a \in found THEN "check" ELSE "none"]]
    /\ Go(x, "fetch")
    /\ UNCHANGED <<attempt, left, hand, errorLog, completed, faults, storeVars>>

(* The rows the search page shows after up to MAX_LOAD_MORE_CLICKS, those  *)
(* without a link left out.                                                *)
CollectAnnouncements(x) == Lists(x, "HKEX") /\ Finds(x, "HKEX")

(* The links of the list page.                                             *)
ExtractArticleUrls(x) == Lists(x, "AASTOCKS") /\ Finds(x, "AASTOCKS")

(* The entries of the feed that have a title and an address of the site.   *)
ReadEntries(x) == Lists(x, "YAHOO_HK") /\ Finds(x, "YAHOO_HK")

ReadDescriptions(x) == Lists(x, "MINGPAO") /\ Finds(x, "MINGPAO")

Discover(x) ==
    CollectAnnouncements(x) \/ ExtractArticleUrls(x) \/ ReadEntries(x) \/ ReadDescriptions(x)

Abandons(x) ==
    /\ Go(x, "failed")
    /\ UNCHANGED <<page, attempt, left, hand, errorLog, completed, storeVars>>

(* CrawlFatalException, or a page refused as too frequent.                 *)
DiscoverFails(x) == crawl[x] = "discover" /\ Abandons(x) /\ UNCHANGED faults

(* The feed is there, but not the time of the previous crawl, which is     *)
(* read only to warn of a gap.                                             *)
CheckCoverageGapFails(x) == Lists(x, "YAHOO_HK") /\ Fault /\ Abandons(x)

Fetching(x, a, at) == crawl[x] = "fetch" /\ page[x][a] = at

(* _is_url_in_error_log.                                                   *)
CheckErrorLog(x, a) ==
    /\ Fetching(x, a, "check")
    /\ IF a \in errorLog THEN Turn(x, a, "skipped")
       ELSE source[x] # "MINGPAO" /\ Turn(x, a, "queue")
    /\ UNCHANGED <<crawl, attempt, left, hand, errorLog, completed, faults, storeVars>>

(* The entry's description is the article, or it has none.                 *)
ProcessEntry(x, a) ==
    /\ source[x] = "MINGPAO" /\ Fetching(x, a, "check") /\ a \notin errorLog
    /\ \E end \in {"success", "skipped"} : Turn(x, a, end)
    /\ UNCHANGED <<crawl, attempt, left, hand, errorLog, completed, faults, storeVars>>

(* One worker's failing read fails the execution, with all it has fetched. *)
CheckErrorLogFails(x, a) == Fetching(x, a, "check") /\ Fault /\ Abandons(x)

AcquirePermit(x, a) ==
    /\ Fetching(x, a, "queue")
    /\ Cardinality(Articles(x, {"get"})) < max_concurrent
    /\ Turn(x, a, "get")
    /\ attempt' = [attempt EXCEPT ![x][a] = 1]
    /\ UNCHANGED <<crawl, left, hand, errorLog, completed, faults, storeVars>>

(* What becomes of a page: an article; a failure, when it is refused, or   *)
(* encrypted or else not to be parsed; nothing, when it is too frequent or *)
(* has no text.                                                            *)
PageEnds == {"success", "failure", "skipped"}

FetchOnePdf(x, a) == source[x] = "HKEX" /\ \E end \in PageEnds : Turn(x, a, end)
FetchOneArticle(x, a) == source[x] = "AASTOCKS" /\ \E end \in PageEnds : Turn(x, a, end)
FetchOneEntry(x, a) == source[x] = "YAHOO_HK" /\ \E end \in PageEnds : Turn(x, a, end)

FetchPage(x, a) ==
    /\ Fetching(x, a, "get")
    /\ FetchOnePdf(x, a) \/ FetchOneArticle(x, a) \/ FetchOneEntry(x, a)
    /\ UNCHANGED <<crawl, attempt, left, hand, errorLog, completed, faults, storeVars>>

(* A server or network error.                                              *)
RetryPage(x, a) ==
    /\ Fetching(x, a, "get")
    /\ IF attempt[x][a] < max_retry
       THEN attempt' = [attempt EXCEPT ![x][a] = @ + 1] /\ UNCHANGED page
       ELSE Turn(x, a, "failure") /\ UNCHANGED attempt
    /\ UNCHANGED <<crawl, left, hand, errorLog, completed, faults, storeVars>>

(* What the fetch turns into no result, a date that is none or an address  *)
(* the client refuses, leaves the worker: gather raises it.                *)
FetchPageRaises(x, a) == Fetching(x, a, "get") /\ Abandons(x) /\ UNCHANGED faults

(* Mutant of ReturnResult: a run with failures has no successes.           *)
ReturnFailures(x) ==
    /\ crawl[x] = "fetch"
    /\ Articles(x, {"check", "queue", "get"}) = {}
    /\ left' = [left EXCEPT ![x] = Articles(x, IF Articles(x, {"failure"}) = {}
                                                THEN {"success"} ELSE {"failure"})]
    /\ Go(x, "persist")
    /\ UNCHANGED <<page, attempt, hand, errorLog, completed, faults, storeVars>>

(* gather returns.                                                         *)
ReturnResult(x) ==
    /\ crawl[x] = "fetch"
    /\ Articles(x, {"check", "queue", "get"}) = {}
    /\ left' = [left EXCEPT ![x] = Articles(x, {"success", "failure"})]
    /\ Go(x, "persist")
    /\ UNCHANGED <<page, attempt, hand, errorLog, completed, faults, storeVars>>

-----------------------------------------------------------------------------
(* CrawlService persists what run returned.                                *)
Persists(x, a, end) ==
    /\ crawl[x] = "persist" /\ hand[x] = NoArticle
    /\ a \in left[x] /\ page[x][a] = end
    /\ left' = [left EXCEPT ![x] = @ \ {a}]

SaveCrawlError(x, a) ==
    /\ Persists(x, a, "failure")
    /\ errorLog' = errorLog \union {a}
    /\ UNCHANGED <<crawl, page, attempt, hand, completed, faults, storeVars>>

SaveCrawlErrorFails(x, a) ==
    /\ Persists(x, a, "failure")
    /\ Fault
    /\ (errorLog' = errorLog \union {a} \/ UNCHANGED errorLog)
    /\ UNCHANGED <<crawl, page, attempt, hand, completed, storeVars>>

FailuresSaved(x) == left[x] \intersect Articles(x, {"failure"}) = {}

(* ON CONFLICT (source_url) DO NOTHING, or a collision of raw_hash: no row *)
(* and no announcement.                                                    *)
InsertRaw(x, a) ==
    /\ FailuresSaved(x) /\ Persists(x, a, "success")
    /\ \/ Duplicate(a) /\ UNCHANGED <<rawNews, hand>>
       \/ ~ Duplicate(a) /\ Insert(a) /\ hand' = [hand EXCEPT ![x] = a]
    /\ UNCHANGED <<crawl, page, attempt, errorLog, completed, faults, unread, signalled>>

(* The article is passed over.  When only the reply of the INSERT is lost  *)
(* the row is there: _run_with_retry repeats it and takes its own row for  *)
(* a duplicate.                                                            *)
InsertRawFails(x, a) ==
    /\ FailuresSaved(x) /\ Persists(x, a, "success")
    /\ Fault
    /\ ((~ Duplicate(a) /\ Insert(a)) \/ UNCHANGED rawNews)
    /\ UNCHANGED <<crawl, page, attempt, hand, errorLog, completed, unread, signalled>>

Announces(x) == hand[x] # NoArticle /\ hand' = [hand EXCEPT ![x] = NoArticle]

PublishInserted(x) ==
    /\ Announces(x)
    /\ Signal(hand[x])
    /\ UNCHANGED <<crawl, page, attempt, left, errorLog, completed, faults, rawNews>>

PublishInsertedFails(x) ==
    /\ Announces(x)
    /\ Fault
    /\ (Signal(hand[x]) \/ UNCHANGED <<unread, signalled>>)
    /\ UNCHANGED <<crawl, page, attempt, left, errorLog, completed, rawNews>>

-----------------------------------------------------------------------------
(* _publish_completed.                                                     *)
Completes(x) == crawl[x] = "persist" /\ left[x] = {} /\ hand[x] = NoArticle
Report(x, status) == completed' = [completed EXCEPT ![x] = @ \union {status}]

(* Mutant of PublishSuccess: nothing is signalled for an empty run.        *)
PublishSuccessIfAny(x) ==
    /\ Completes(x) /\ Go(x, "over")
    /\ IF Articles(x, {"success"}) = {} THEN UNCHANGED completed ELSE Report(x, "SUCCESS")
    /\ UNCHANGED <<page, attempt, left, hand, errorLog, faults, storeVars>>

PublishSuccess(x) ==
    /\ Completes(x)
    /\ Report(x, "SUCCESS") /\ Go(x, "over")
    /\ UNCHANGED <<page, attempt, left, hand, errorLog, faults, storeVars>>

(* execute catches that, and reports a failure instead.                    *)
PublishSuccessFails(x) ==
    /\ Completes(x)
    /\ Fault
    /\ (Report(x, "SUCCESS") \/ UNCHANGED completed)
    /\ Go(x, "failed")
    /\ UNCHANGED <<page, attempt, left, hand, errorLog, storeVars>>

PublishFailed(x) ==
    /\ crawl[x] = "failed"
    /\ Report(x, "FAILED") /\ Go(x, "over")
    /\ UNCHANGED <<page, attempt, left, hand, errorLog, faults, storeVars>>

PublishFailedFails(x) ==
    /\ crawl[x] = "failed"
    /\ Fault
    /\ (Report(x, "FAILED") \/ UNCHANGED completed)
    /\ Go(x, "over")
    /\ UNCHANGED <<page, attempt, left, hand, errorLog, storeVars>>

(* The tasks are gone with the service; nobody awaits or repeats them.     *)
LoseExecutions ==
    /\ crawl' = [x \in Execution |-> IF crawl[x] \in {"posted", "over"} THEN crawl[x] ELSE "lost"]
    /\ hand' = [x \in Execution |-> NoArticle]
    /\ UNCHANGED <<source, page, attempt, left, errorLog, completed>>

-----------------------------------------------------------------------------
Proceed(x) ==
    \/ Discover(x) \/ ReturnResult(x) \/ PublishInserted(x)
    \/ PublishSuccess(x) \/ PublishFailed(x)
    \/ \E a \in Article :
          \/ CheckErrorLog(x, a) \/ ProcessEntry(x, a) \/ AcquirePermit(x, a) \/ FetchPage(x, a)
          \/ SaveCrawlError(x, a) \/ InsertRaw(x, a)

ProceedFails(x) ==
    \/ DiscoverFails(x) \/ CheckCoverageGapFails(x) \/ PublishInsertedFails(x)
    \/ PublishSuccessFails(x) \/ PublishFailedFails(x)
    \/ \E a \in Article :
          \/ CheckErrorLogFails(x, a) \/ FetchPageRaises(x, a) \/ RetryPage(x, a)
          \/ SaveCrawlErrorFails(x, a) \/ InsertRawFails(x, a)

CrawlStep ==
    /\ \E x \in Execution : PostCrawl(x) \/ Proceed(x) \/ ProceedFails(x)
    /\ UNCHANGED source

============================================================================
