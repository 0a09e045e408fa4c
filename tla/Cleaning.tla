----------------------------- MODULE Cleaning ------------------------------
(***************************************************************************)
(* CleaningService: a reader and a reclaim loop put the messages of        *)
(* raw_news_inserted on one queue in memory; workers take them, clean the  *)
(* article's raw_news row or reject it, announce the cleaned_news row on   *)
(* raw_news_cleaned and acknowledge.                                       *)
(*                                                                         *)
(* A message stays pending until it is acknowledged, and may be claimed    *)
(* again after a while whether or not a worker still has it (XAUTOCLAIM    *)
(* knows its last delivery only).  A batch is a run of single reads: the   *)
(* queue has no bound, so putting it there does not wait.                  *)
(***************************************************************************)
EXTENDS NewsStore, Sequences

CONSTANTS
    Worker,      \* the workers, worker_concurrency of them
    Rejected,    \* the articles without a title, or with too short a body
    NoMessage,
    MaxOverdue   \* how often a message the process has is claimed again

ASSUME CleaningAssumption ==
    /\ IsFiniteSet(Worker) /\ Rejected \subseteq Article
    /\ NoMessage \notin Article /\ MaxOverdue \in Nat

VARIABLES
    pending,      \* delivered to the group and not acknowledged
    queue,        \* the asyncio.Queue of messages
    worker,       \* [Worker -> where process_record is]
    message,      \* [Worker -> the message the worker has]
    cleanedNews,  \* [Article -> the rows cleaned_news has of it]
    announced,    \* [Article -> how many of them raw_news_cleaned has named]
    overdue       \* [Article -> how often it was claimed while the process had it]

cleaningVars == <<pending, queue, worker, message, cleanedNews, announced, overdue>>

Place == {"idle", "fetch", "reject", "check", "insert", "publish", "ack"}

CleaningTypeOK ==
    /\ pending \subseteq Article
    /\ queue \in Seq(Article)
    /\ worker \in [Worker -> Place]
    /\ message \in [Worker -> Article \union {NoMessage}]
    /\ cleanedNews \in [Article -> Nat] /\ announced \in [Article -> Nat]
    /\ overdue \in [Article -> 0..MaxOverdue]

CleaningInit ==
    /\ pending = {} /\ queue = <<>>
    /\ worker = [w \in Worker |-> "idle"]
    /\ message = [w \in Worker |-> NoMessage]
    /\ cleanedNews = [a \in Article |-> 0] /\ announced = [a \in Article |-> 0]
    /\ overdue = [a \in Article |-> 0]

Held(a) == (\E i \in DOMAIN queue : queue[i] = a) \/ (\E w \in Worker : message[w] = a)

-----------------------------------------------------------------------------
(* _stream_reader.  A failing read may have delivered the message.         *)
ReadMessage ==
    /\ \E a \in unread :
          /\ unread' = unread \ {a}
          /\ pending' = pending \union {a}
          /\ queue' = Append(queue, a)
    /\ UNCHANGED <<worker, message, cleanedNews, announced, overdue, faults, rawNews, signalled>>

ReadMessageFails ==
    /\ Fault
    /\ \E a \in unread : unread' = unread \ {a} /\ pending' = pending \union {a}
    /\ UNCHANGED <<queue, worker, message, cleanedNews, announced, overdue, rawNews, signalled>>

(* _reclaim_loop.                                                          *)
Reclaim(a) ==
    /\ a \in pending
    /\ queue' = Append(queue, a)
    /\ UNCHANGED <<pending, worker, message, cleanedNews, announced, faults, storeVars>>

(* Mutant of ReclaimLost: what has a cleaned row is not claimed.           *)
ReclaimUncleaned ==
    \E a \in Article :
        ~ Held(a) /\ cleanedNews[a] = 0 /\ Reclaim(a) /\ UNCHANGED overdue

ReclaimLost == \E a \in Article : ~ Held(a) /\ Reclaim(a) /\ UNCHANGED overdue

ReclaimOverdue ==
    \E a \in Article :
        /\ Held(a) /\ overdue[a] < MaxOverdue
        /\ overdue' = [overdue EXCEPT ![a] = @ + 1]
        /\ Reclaim(a)

-----------------------------------------------------------------------------
(* _worker and process_record.                                             *)
Take(w) ==
    /\ worker[w] = "idle" /\ queue # <<>>
    /\ message' = [message EXCEPT ![w] = Head(queue)]
    /\ worker' = [worker EXCEPT ![w] = "fetch"]
    /\ queue' = Tail(queue)
    /\ UNCHANGED <<pending, cleanedNews, announced, overdue, faults, storeVars>>

From(w, at, next) == worker[w] = at /\ worker' = [worker EXCEPT ![w] = next]

(* A row that is not there, or is deleted, leaves nothing to do.           *)
FetchRawNews(w) ==
    /\ worker[w] = "fetch"
    /\ LET a == message[w] IN
       \/ rawNews[a] # "stored" /\ From(w, "fetch", "ack")
       \/ rawNews[a] = "stored" /\ a \in Rejected /\ From(w, "fetch", "reject")
       \/ rawNews[a] = "stored" /\ a \notin Rejected /\ From(w, "fetch", "check")
    /\ UNCHANGED <<pending, queue, message, cleanedNews, announced, overdue, faults, storeVars>>

MarkDeleted(w) ==
    /\ From(w, "reject", "ack")
    /\ Delete(message[w])
    /\ UNCHANGED <<pending, queue, message, cleanedNews, announced, overdue, faults, unread,
                   signalled>>

(* Mutant of AlreadyCleaned: no idempotency check.                         *)
CleanAgain(w) ==
    /\ From(w, "check", "insert")
    /\ UNCHANGED <<pending, queue, message, cleanedNews, announced, overdue, faults, storeVars>>

AlreadyCleaned(w) ==
    /\ From(w, "check", IF cleanedNews[message[w]] > 0 THEN "ack" ELSE "insert")
    /\ UNCHANGED <<pending, queue, message, cleanedNews, announced, overdue, faults, storeVars>>

(* Mutant of InsertCleanedNews: the row is not announced.                  *)
InsertUnannounced(w) ==
    /\ From(w, "insert", "ack")
    /\ cleanedNews' = [cleanedNews EXCEPT ![message[w]] = @ + 1]
    /\ UNCHANGED <<pending, queue, message, announced, overdue, faults, storeVars>>

InsertCleanedNews(w) ==
    /\ From(w, "insert", "publish")
    /\ cleanedNews' = [cleanedNews EXCEPT ![message[w]] = @ + 1]
    /\ UNCHANGED <<pending, queue, message, announced, overdue, faults, storeVars>>

PublishCleaned(w) ==
    /\ From(w, "publish", "ack")
    /\ announced' = [announced EXCEPT ![message[w]] = @ + 1]
    /\ UNCHANGED <<pending, queue, message, cleanedNews, overdue, faults, storeVars>>

Ack(w) ==
    /\ From(w, "ack", "idle")
    /\ pending' = pending \ {message[w]}
    /\ message' = [message EXCEPT ![w] = NoMessage]
    /\ UNCHANGED <<queue, cleanedNews, announced, overdue, faults, storeVars>>

(* The write the worker waits for, when it is applied and its reply lost.  *)
Applied(w) ==
    \/ worker[w] = "reject" /\ Delete(message[w]) /\ UNCHANGED <<pending, cleanedNews, announced>>
    \/ worker[w] = "insert" /\ cleanedNews' = [cleanedNews EXCEPT ![message[w]] = @ + 1]
       /\ UNCHANGED <<pending, announced, rawNews>>
    \/ worker[w] = "publish" /\ announced' = [announced EXCEPT ![message[w]] = @ + 1]
       /\ UNCHANGED <<pending, cleanedNews, rawNews>>
    \/ worker[w] = "ack" /\ pending' = pending \ {message[w]}
       /\ UNCHANGED <<cleanedNews, announced, rawNews>>

(* Mutant of WorkerFails: the message is acknowledged all the same.        *)
WorkerFailsAcking(w) ==
    /\ worker[w] # "idle"
    /\ Fault
    /\ pending' = pending \ {message[w]}
    /\ worker' = [worker EXCEPT ![w] = "idle"]
    /\ message' = [message EXCEPT ![w] = NoMessage]
    /\ UNCHANGED <<queue, overdue, cleanedNews, announced, storeVars>>

(* An exception leaves the message pending.  A repeated INSERT meets its   *)
(* own row's primary key, which is an exception too.                       *)
WorkerFails(w) ==
    /\ worker[w] # "idle"
    /\ Fault
    /\ Applied(w) \/ UNCHANGED <<pending, cleanedNews, announced, rawNews>>
    /\ worker' = [worker EXCEPT ![w] = "idle"]
    /\ message' = [message EXCEPT ![w] = NoMessage]
    /\ UNCHANGED <<queue, overdue, unread, signalled>>

(* The queue and the workers are gone with the service.                    *)
LoseQueue ==
    /\ queue' = <<>>
    /\ worker' = [w \in Worker |-> "idle"]
    /\ message' = [w \in Worker |-> NoMessage]
    /\ UNCHANGED <<pending, cleanedNews, announced, overdue>>

-----------------------------------------------------------------------------
ProcessRecord(w) ==
    \/ Take(w) \/ FetchRawNews(w) \/ MarkDeleted(w) \/ AlreadyCleaned(w)
    \/ InsertCleanedNews(w) \/ PublishCleaned(w) \/ Ack(w)

CleaningStep ==
    \/ ReadMessage \/ ReadMessageFails \/ ReclaimLost \/ ReclaimOverdue
    \/ \E w \in Worker : ProcessRecord(w) \/ WorkerFails(w)

============================================================================
