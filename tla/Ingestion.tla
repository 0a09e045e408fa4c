----------------------------- MODULE Ingestion -----------------------------
(***************************************************************************)
(* The data ingestion service: crawl executions and the cleaning service   *)
(* of one process, over one Postgres and one stream Redis.                 *)
(***************************************************************************)
EXTENDS Crawl, Cleaning

CONSTANT MaxStops   \* how often the service stops

ASSUME StopAssumption == MaxStops \in Nat

VARIABLE stops

vars == <<storeVars, crawlVars, cleaningVars, faults, stops>>

TypeOK == StoreTypeOK /\ CrawlTypeOK /\ CleaningTypeOK /\ stops \in 0..MaxStops

Init == StoreInit /\ CrawlInit /\ CleaningInit /\ stops = 0

(* lifespan: a shutdown cancels the cleaning task wherever it waits and    *)
(* closes the clients under the crawl tasks, a crash ends them all.  After *)
(* the next start nothing is left of either but what the stores hold.      *)
Restart ==
    /\ stops < MaxStops /\ stops' = stops + 1
    /\ LoseExecutions
    /\ LoseQueue
    /\ UNCHANGED <<faults, storeVars>>

Next ==
    \/ CrawlStep /\ UNCHANGED <<cleaningVars, stops>>
    \/ CleaningStep /\ UNCHANGED <<crawlVars, stops>>
    \/ Restart

Spec == Init /\ [][Next]_vars

(* A task that can go on does; the loops come round again.                 *)
Cleans == ReadMessage \/ ReclaimLost \/ \E w \in Worker : ProcessRecord(w)
Fairness ==
    /\ \A x \in Execution : WF_vars(Proceed(x) /\ UNCHANGED <<source, cleaningVars, stops>>)
    /\ WF_vars(ReadMessage /\ UNCHANGED <<crawlVars, stops>>)
    /\ WF_vars(ReclaimLost /\ UNCHANGED <<crawlVars, stops>>)
    /\ \A w \in Worker : WF_vars(ProcessRecord(w) /\ UNCHANGED <<crawlVars, stops>>)

FairSpec == Spec /\ Fairness

-----------------------------------------------------------------------------
Settled(a) == a \in signalled /\ a \notin unread \union pending

(* A message is acknowledged only when its article was cleaned or rejected *)
(* (_worker: "Leave unACKed").                                             *)
AckedWasDecided ==
    \A a \in Article : Settled(a) => cleanedNews[a] > 0 \/ rawNews[a] = "deleted"

(* Articles that will be silent for good: a raw row that is not announced  *)
(* by the execution that inserted it, or a cleaned one that no worker is   *)
(* about to announce.                                                      *)
Unannounced ==
    {a \in Article : rawNews[a] = "stored" /\ a \notin signalled /\ \A x \in Execution : hand[x] # a}
Unheard ==
    {a \in Article : cleanedNews[a] > 0 /\ announced[a] = 0
                     /\ \A w \in Worker : ~ (message[w] = a /\ worker[w] = "publish")}

(* Whatever the order of executions and workers, an article is silenced by *)
(* a failing call or a stop only, and by each at most once for each task   *)
(* (_persist_successes, process_record).                                   *)
OnlyFailuresSilence ==
    Cardinality(Unannounced \union Unheard)
        <= faults + stops * (Cardinality(Execution) + Cardinality(Worker))

(* An article gets a second cleaned_news row only when its message was     *)
(* claimed while the process still had it: a redelivery after a failure or *)
(* a stop is caught by _already_cleaned.                                   *)
SecondRowIsOverdue ==
    \A a \in Article : cleanedNews[a] <= 1 + overdue[a]

(* An execution that reports SUCCESS has stored what it fetched, or its    *)
(* title was stored before, and has logged what it could not fetch, but    *)
(* for one article per failing call (execute).                             *)
SuccessIsStored ==
    \A x \in Execution : "SUCCESS" \in completed[x] =>
        Cardinality({a \in Articles(x, {"success"}) : ~ Duplicate(a)}
                    \union (Articles(x, {"failure"}) \ errorLog)) <= faults

(* Every announced article is cleaned or rejected, and acknowledged.       *)
EverySignalSettles == \A a \in Article : a \in signalled ~> Settled(a)

(* Every execution signals an outcome unless a call fails or the service   *)
(* stops.                                                                  *)
EveryExecutionReports ==
    \A x \in Execution : crawl[x] = "discover" ~> completed[x] # {} \/ faults + stops > 0

(* "Call ONLY after cleaned_news record is written AND                     *)
(* stream:raw_news_cleaned is published" (StreamHandler.ack).              *)
AckedIsAnnounced ==
    \A a \in Article : Settled(a) /\ cleanedNews[a] > 0 => announced[a] > 0

============================================================================
