--------------------------- MODULE EntityAnalysis ---------------------------
(***************************************************************************)
(* The Entity Analysis layer: CleanedNewsConsumer, WorkerPool and          *)
(* EntityAnalysisService over stream:raw_news_cleaned and entity_events.   *)
(*                                                                         *)
(* A read and a reclaim loop each route a batch of messages, one task per  *)
(* message, and wait for all of them.  A task waits for a slot of the pool *)
(* and out of any rate-limit back-off, has the article analysed, stores    *)
(* and announces its EntityEvents and acknowledges.                        *)
(*                                                                         *)
(* A message is claimed again after a while whether or not a task has it.  *)
(* An announcement waits out an outage of the stream (publish retries), so *)
(* it does not fail.                                                       *)
(***************************************************************************)
EXTENDS Naturals, Sequences, FiniteSets, Upstreams

CONSTANTS
    Message,
    CleanedOf,       \* [Message -> its cleaned_id, or Malformed]
    Malformed,
    SourceUrl,       \* [cleaned_id -> the article's source_url], for those SADI has
    Stock,
    Consumer, Reclaimer,
    BATCH_SIZE, MAX_CONCURRENT, MAX_RETRY,
    MaxFaults,       \* how many calls fail
    MaxStops         \* how often the layer or the service stops

Loop == {Consumer, Reclaimer}
Task == Loop \X Message
Url == {SourceUrl[c] : c \in DOMAIN SourceUrl}

ASSUME EntityAnalysisAssumption ==
    /\ IsFiniteSet(Message) /\ Consumer # Reclaimer
    /\ {BATCH_SIZE, MAX_CONCURRENT, MAX_RETRY} \subseteq Nat \ {0}
    /\ {MaxFaults, MaxStops} \subseteq Nat
    /\ DOMAIN CleanedOf = Message
    /\ Malformed \notin DOMAIN SourceUrl

VARIABLES
    unread,      \* the messages not delivered yet
    pending,     \* delivered and not acknowledged
    deliveries,  \* [Message -> how often it was delivered, up to MAX_RETRY]
    dead,        \* the messages on the dead-letter stream
    task,        \* [Task -> where the message's _route is]
    line,        \* the tasks waiting for a slot of the pool, in order
    hand,        \* [Task -> the stocks to persist, then those to announce]
    processing,  \* _processing_cleaned_ids
    backoff,     \* a rate-limit back-off is in force
    listLoaded,  \* the HK Stock List has entries
    rows,        \* the rows <<source_url, stock>> of entity_events
    announced,   \* those named on stream:entity_event_completed
    nothing,     \* the cleaned_ids in whose article an analysis found no stock
    faults, stops

streamVars == <<unread, pending, deliveries, dead>>
poolVars == <<line, processing, backoff, listLoaded>>
resultVars == <<rows, announced, nothing>>
vars == <<streamVars, task, hand, poolVars, resultVars, faults, stops>>

Held == {"hold", "fetch", "look", "analyse", "persist", "publish", "ack"}
Stage == {"none", "route", "bury", "buried", "line", "done"} \union Held

TypeOK ==
    /\ unread \subseteq Message /\ pending \subseteq Message \ unread
    /\ deliveries \in [Message -> 0..MAX_RETRY]
    /\ dead \subseteq Message \ unread
    /\ task \in [Task -> Stage]
    /\ line \in Seq(Task)
    /\ hand \in [Task -> SUBSET Stock]
    /\ processing \subseteq {CleanedOf[m] : m \in Message}
    /\ {backoff, listLoaded} \subseteq BOOLEAN
    /\ rows \subseteq Url \X Stock /\ announced \subseteq rows
    /\ nothing \subseteq DOMAIN SourceUrl
    /\ faults \in 0..MaxFaults /\ stops \in 0..MaxStops

Init ==
    /\ unread = Message /\ pending = {} /\ dead = {}
    /\ deliveries = [m \in Message |-> 0]
    /\ task = [t \in Task |-> "none"]
    /\ line = <<>> /\ hand = [t \in Task |-> {}]
    /\ processing = {} /\ backoff = FALSE /\ listLoaded \in BOOLEAN
    /\ rows = {} /\ announced = {} /\ nothing = {}
    /\ faults = 0 /\ stops = 0

Fault == faults < MaxFaults /\ faults' = faults + 1
Cleaned(t) == CleanedOf[t[2]]
UrlOf(t) == SourceUrl[Cleaned(t)]
RowsOf(url) == {row \in rows : row[1] = url}
Idle(l) == \A m \in Message : task[<<l, m>>] = "none"
Batch(messages) == {S \in SUBSET messages : S # {} /\ Cardinality(S) <= BATCH_SIZE}

-----------------------------------------------------------------------------
(* _consumer_loop and _reclaim_loop.                                       *)
Routing(l, batch) ==
    task' = [t \in Task |-> IF t[1] = l /\ t[2] \in batch THEN "route" ELSE task[t]]

Deliver(batch) ==
    /\ unread' = unread \ batch /\ pending' = pending \union batch
    /\ deliveries' = [m \in Message |->
          IF m \in batch /\ deliveries[m] < MAX_RETRY THEN deliveries[m] + 1 ELSE deliveries[m]]
    /\ UNCHANGED dead

Read ==
    /\ Idle(Consumer)
    /\ \E batch \in Batch(unread) : Deliver(batch) /\ Routing(Consumer, batch)
    /\ UNCHANGED <<hand, poolVars, resultVars, faults, stops>>

ReadFails ==
    /\ Idle(Consumer)
    /\ Fault
    /\ \E batch \in Batch(unread) : Deliver(batch)
    /\ UNCHANGED <<task, hand, poolVars, resultVars, stops>>

Claim ==
    /\ Idle(Reclaimer)
    /\ \E batch \in Batch(pending) : Deliver(batch) /\ Routing(Reclaimer, batch)
    /\ UNCHANGED <<hand, poolVars, resultVars, faults, stops>>

ClaimFails ==
    /\ Idle(Reclaimer)
    /\ Fault
    /\ \E batch \in Batch(pending) : Deliver(batch)
    /\ UNCHANGED <<task, hand, poolVars, resultVars, stops>>

(* gather returns when every message of the batch is done.                 *)
EndBatch(l) ==
    /\ ~ Idle(l) /\ \A m \in Message : task[<<l, m>>] \in {"none", "done"}
    /\ task' = [t \in Task |-> IF t[1] = l THEN "none" ELSE task[t]]
    /\ UNCHANGED <<streamVars, hand, poolVars, resultVars, faults, stops>>

-----------------------------------------------------------------------------
(* _route, _push_dead_letter and _process_one.                             *)
Go(t, from, next) == task[t] = from /\ task' = [task EXCEPT ![t] = next]

Exhausted(t) == t[1] = Reclaimer /\ deliveries[t[2]] >= MAX_RETRY

RouteToDeadLetter(t) ==
    /\ Exhausted(t) \/ Cleaned(t) = Malformed
    /\ Go(t, "route", "bury")
    /\ UNCHANGED <<streamVars, hand, poolVars, resultVars, faults, stops>>

PushDeadLetter(t) ==
    /\ Go(t, "bury", "buried")
    /\ dead' = dead \union {t[2]}
    /\ UNCHANGED <<unread, pending, deliveries, hand, poolVars, resultVars, faults, stops>>

(* Mutant of AckDead: the message is copied to the dead-letter stream only.*)
AckDeadNever(t) ==
    /\ Go(t, "buried", "done")
    /\ UNCHANGED <<streamVars, hand, poolVars, resultVars, faults, stops>>

AckDead(t) ==
    /\ Go(t, "buried", "done")
    /\ pending' = pending \ {t[2]}
    /\ UNCHANGED <<unread, deliveries, dead, hand, poolVars, resultVars, faults, stops>>

AckDeadFails(t) ==
    /\ Go(t, "buried", "done")
    /\ Fault
    /\ pending' \in {pending, pending \ {t[2]}}
    /\ UNCHANGED <<unread, deliveries, dead, hand, poolVars, resultVars, stops>>

(* No list, or the article in flight: left for a later delivery.           *)
Skip(t) ==
    /\ ~ Exhausted(t) /\ Cleaned(t) # Malformed
    /\ ~ listLoaded \/ Cleaned(t) \in processing
    /\ Go(t, "route", "done")
    /\ UNCHANGED <<streamVars, hand, poolVars, resultVars, faults, stops>>

(* Mutant of Dispatch: the check of _processing_cleaned_ids left out.      *)
DispatchTwice(t) ==
    /\ ~ Exhausted(t) /\ Cleaned(t) # Malformed /\ listLoaded
    /\ Go(t, "route", "line")
    /\ processing' = processing \union {Cleaned(t)}
    /\ line' = Append(line, t)
    /\ UNCHANGED <<streamVars, hand, backoff, listLoaded, resultVars, faults, stops>>

Dispatch(t) ==
    /\ ~ Exhausted(t) /\ Cleaned(t) # Malformed
    /\ listLoaded /\ Cleaned(t) \notin processing
    /\ Go(t, "route", "line")
    /\ processing' = processing \union {Cleaned(t)}
    /\ line' = Append(line, t)
    /\ UNCHANGED <<streamVars, hand, backoff, listLoaded, resultVars, faults, stops>>

-----------------------------------------------------------------------------
(* WorkerPool.dispatch: the semaphore wakes its waiters in order; a task   *)
(* with a slot sleeps while a back-off is in force.                        *)
TakeSlot(t) ==
    /\ line # <<>> /\ t = Head(line)
    /\ Cardinality({u \in Task : task[u] \in Held}) < MAX_CONCURRENT
    /\ Go(t, "line", "hold")
    /\ line' = Tail(line)
    /\ UNCHANGED <<streamVars, hand, processing, backoff, listLoaded, resultVars, faults, stops>>

StartWork(t) ==
    /\ ~ backoff
    /\ Go(t, "hold", "fetch")
    /\ UNCHANGED <<streamVars, hand, poolVars, resultVars, faults, stops>>

EndBackoff ==
    /\ backoff /\ backoff' = FALSE
    /\ UNCHANGED <<streamVars, task, hand, line, processing, listLoaded, resultVars, faults, stops>>

(* refresh_hk_stock_list: at the start, or when Admin asks for it.  A      *)
(* failing one leaves a loaded list alone.                                 *)
LoadList ==
    /\ ~ listLoaded /\ listLoaded' = TRUE
    /\ UNCHANGED <<streamVars, task, hand, line, processing, backoff, resultVars, faults, stops>>

(* The end of dispatch, on every path.                                     *)
Finish(t) ==
    /\ task' = [task EXCEPT ![t] = "done"]
    /\ hand' = [hand EXCEPT ![t] = {}]
    /\ processing' = processing \ {Cleaned(t)}
    /\ UNCHANGED <<line, listLoaded>>

-----------------------------------------------------------------------------
(* find_entity_events and the acknowledgement.                             *)
Receives(t, article) ==
    \/ article = "article" /\ Go(t, "fetch", "look") /\ UNCHANGED <<hand, line, processing, listLoaded>>
    \/ article = "none" /\ Go(t, "fetch", "ack") /\ UNCHANGED <<hand, line, processing, listLoaded>>
    \/ article \in NewsError /\ task[t] = "fetch" /\ Finish(t)

FetchCleanedNews(t) ==
    /\ Receives(t, fetch_cleaned_news(get_cleaned_news(Cleaned(t) \in DOMAIN SourceUrl)))
    /\ UNCHANGED <<streamVars, backoff, resultVars, faults, stops>>

FetchCleanedNewsFails(t) ==
    /\ task[t] = "fetch"
    /\ Fault
    /\ \E reply \in SadiFailure : Receives(t, fetch_cleaned_news(reply))
    /\ UNCHANGED <<streamVars, backoff, resultVars, stops>>

(* Mutant of FetchExisting: stored EntityEvents are taken for announced.   *)
FetchAndSkip(t) ==
    /\ Go(t, "look", IF RowsOf(UrlOf(t)) = {} THEN "analyse" ELSE "ack")
    /\ UNCHANGED <<streamVars, hand, poolVars, resultVars, faults, stops>>

(* EntityEvents that are there are announced again, all of them.           *)
FetchExisting(t) ==
    LET stocks == {row[2] : row \in RowsOf(UrlOf(t))} IN
    /\ Go(t, "look", IF stocks = {} THEN "analyse" ELSE "publish")
    /\ hand' = [hand EXCEPT ![t] = stocks]
    /\ UNCHANGED <<streamVars, poolVars, resultVars, faults, stops>>

(* EntityAnalysisSkill.run: the model decides, and not twice alike.        *)
Analyse(t) ==
    /\ Go(t, "analyse", "persist")
    /\ \E found \in SUBSET Stock : hand' = [hand EXCEPT ![t] = found]
    /\ UNCHANGED <<streamVars, poolVars, resultVars, faults, stops>>

(* One transaction; ON CONFLICT (source_url, stock_code) DO NOTHING.  What *)
(* was stored by another task is not announced by this one.                *)
Persist(t) ==
    LET new == {s \in hand[t] : <<UrlOf(t), s>> \notin rows} IN
    /\ Go(t, "persist", IF new = {} THEN "ack" ELSE "publish")
    /\ rows' = rows \union ({UrlOf(t)} \X new)
    /\ hand' = [hand EXCEPT ![t] = new]
    /\ nothing' = IF hand[t] = {} THEN nothing \union {Cleaned(t)} ELSE nothing
    /\ UNCHANGED <<streamVars, poolVars, announced, faults, stops>>

(* A failed commit may have been made when its reply was lost.             *)
PersistFails(t) ==
    /\ task[t] = "persist"
    /\ Fault
    /\ rows' \in {rows, rows \union ({UrlOf(t)} \X hand[t])}
    /\ Finish(t)
    /\ UNCHANGED <<streamVars, backoff, announced, nothing, stops>>

Publish(t) ==
    /\ task[t] = "publish"
    /\ \E s \in hand[t] :
          /\ announced' = announced \union {<<UrlOf(t), s>>}
          /\ hand' = [hand EXCEPT ![t] = @ \ {s}]
          /\ task' = [task EXCEPT ![t] = IF hand[t] = {s} THEN "ack" ELSE "publish"]
    /\ UNCHANGED <<streamVars, poolVars, rows, nothing, faults, stops>>

Ack(t) ==
    /\ task[t] = "ack"
    /\ pending' = pending \ {t[2]}
    /\ Finish(t)
    /\ UNCHANGED <<unread, deliveries, dead, backoff, resultVars, faults, stops>>

AckFails(t) ==
    /\ task[t] = "ack"
    /\ Fault
    /\ pending' \in {pending, pending \ {t[2]}}
    /\ Finish(t)
    /\ UNCHANGED <<unread, deliveries, dead, backoff, resultVars, stops>>

(* The rows could not be had.                                              *)
FetchExistingFails(t) ==
    /\ task[t] = "look"
    /\ Fault
    /\ Finish(t)
    /\ UNCHANGED <<streamVars, backoff, resultVars, stops>>

(* The skill's failure is raised; one of them holds the layer's work back. *)
AnalysisFails(t) ==
    /\ task[t] = "analyse"
    /\ Fault
    /\ \E reply \in ModelFailure :
          backoff' = (failure_reason(reply) = "LLMRateLimitError" \/ backoff)
    /\ Finish(t)
    /\ UNCHANGED <<streamVars, resultVars, stops>>

-----------------------------------------------------------------------------
(* The layer crashes, which cancels its tasks, and its monitor starts it   *)
(* again; or the service stops, and starts with or without a list.         *)
Stop ==
    /\ stops < MaxStops /\ stops' = stops + 1
    /\ task' = [t \in Task |-> "none"] /\ hand' = [t \in Task |-> {}]
    /\ line' = <<>> /\ processing' = {}
    /\ \/ UNCHANGED <<backoff, listLoaded>>
       \/ backoff' = FALSE /\ listLoaded' \in BOOLEAN
    /\ UNCHANGED <<streamVars, resultVars, faults>>

RouteStep(t) ==
    \/ RouteToDeadLetter(t) \/ PushDeadLetter(t) \/ AckDead(t) \/ Skip(t) \/ Dispatch(t)

WorkStep(t) ==
    \/ TakeSlot(t) \/ StartWork(t) \/ FetchCleanedNews(t) \/ FetchExisting(t)
    \/ Analyse(t) \/ Persist(t) \/ Publish(t) \/ Ack(t)

TaskFails(t) ==
    \/ AckDeadFails(t) \/ FetchCleanedNewsFails(t) \/ FetchExistingFails(t)
    \/ AnalysisFails(t) \/ PersistFails(t) \/ AckFails(t)

Next ==
    \/ Read \/ ReadFails \/ Claim \/ ClaimFails \/ EndBackoff \/ LoadList \/ Stop
    \/ \E l \in Loop : EndBatch(l)
    \/ \E t \in Task : RouteStep(t) \/ WorkStep(t) \/ TaskFails(t)

Spec == Init /\ [][Next]_vars

(* The loops come round again, ready tasks run, a back-off ends.  Nothing  *)
(* makes the list load.                                                    *)
Fairness ==
    /\ WF_vars(Read) /\ WF_vars(Claim) /\ WF_vars(EndBackoff)
    /\ \A l \in Loop : WF_vars(EndBatch(l))
    /\ \A t \in Task : WF_vars(RouteStep(t)) /\ WF_vars(WorkStep(t))

FairSpec == Spec /\ Fairness

-----------------------------------------------------------------------------
(* One task at a time works on a cleaned_id or waits to, and an id is in   *)
(* flight exactly as long (_processing_cleaned_ids): a leftover would make *)
(* every redelivery skip, a missing one lets the loops analyse it twice.   *)
InFlightOnce ==
    LET working == {t \in Task : task[t] \in Held \union {"line"}} IN
    /\ processing = {Cleaned(t) : t \in working}
    /\ \A t, u \in working : Cleaned(t) = Cleaned(u) => t = u

Acked(m) == m \notin unread \union pending

(* A message is acknowledged only when its outcome is final (_process_one):*)
(* it is on the dead-letter stream, SADI does not have the article, the    *)
(* article names no stock, or EntityEvents of it are stored, possibly by a *)
(* task of another message of the article.                                 *)
AckedIsFinal ==
    \A m \in Message : Acked(m) =>
        \/ m \in dead
        \/ CleanedOf[m] \notin DOMAIN SourceUrl
        \/ CleanedOf[m] \in nothing
        \/ RowsOf(SourceUrl[CleanedOf[m]]) # {}

(* A stored EntityEvent that was not announced has a message of its article*)
(* that was not acknowledged, whose delivery announces it, or that is on   *)
(* the dead-letter stream (find_entity_events).  The exception is a        *)
(* message acknowledged because an analysis found no stock: a claim of it  *)
(* that is still to be routed repeats the analysis, and with nothing       *)
(* pending any more (autoclaim).                                           *)
StoredIsOwed ==
    \A row \in rows \ announced :
        \E m \in Message :
            /\ CleanedOf[m] \in DOMAIN SourceUrl /\ SourceUrl[CleanedOf[m]] = row[1]
            /\ ~ Acked(m) \/ m \in dead \/ CleanedOf[m] \in nothing

(* Every message is acknowledged in the end, if only as a dead letter, and *)
(* a list that never loads holds up none (_reclaim_loop, WorkerPool).      *)
EveryMessageSettles == \A m \in Message : <>[]Acked(m)

=============================================================================
