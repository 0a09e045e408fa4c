----------------------------- MODULE NewsStore -----------------------------
(***************************************************************************)
(* What crawling and cleaning share: the raw_news table and the stream     *)
(* raw_news_inserted.                                                      *)
(*                                                                         *)
(* An Article stands for its source_url.  A row is inserted once for a     *)
(* source_url, so it stands for the row's raw_id as well.  Its title, and  *)
(* with it raw_hash, does not change from one crawl to the next.           *)
(***************************************************************************)
EXTENDS Naturals, FiniteSets

CONSTANTS
    Article,
    TitleHash,   \* [Article -> a hash of the normalised title]
    MaxFaults    \* how many calls to Postgres or Redis fail

ASSUME StoreAssumption == IsFiniteSet(Article) /\ MaxFaults \in Nat

VARIABLES
    rawNews,     \* [Article -> "absent", "stored" or "deleted" (is_deleted)]
    unread,      \* the messages of raw_news_inserted not delivered yet
    signalled,   \* the articles that were ever put on raw_news_inserted
    faults       \* the calls that have failed

storeVars == <<rawNews, unread, signalled>>

StoreTypeOK ==
    /\ rawNews \in [Article -> {"absent", "stored", "deleted"}]
    /\ unread \subseteq signalled /\ signalled \subseteq Article
    /\ faults \in 0..MaxFaults

StoreInit ==
    /\ rawNews = [a \in Article |-> "absent"]
    /\ unread = {} /\ signalled = {}
    /\ faults = 0

Stored(a) == rawNews[a] # "absent"

(* uq_raw_news_source_url and uq_raw_news_raw_hash.  A deleted row keeps   *)
(* its place in both.                                                      *)
Duplicate(a) == \E b \in Article : Stored(b) /\ TitleHash[b] = TitleHash[a]

Insert(a) == rawNews' = [rawNews EXCEPT ![a] = "stored"]
Delete(a) == rawNews' = [rawNews EXCEPT ![a] = "deleted"]
Signal(a) == unread' = unread \union {a} /\ signalled' = signalled \union {a}

(* A call fails.  A write may have been applied all the same, when only    *)
(* its reply is lost: such a step leaves open which.                       *)
Fault == faults < MaxFaults /\ faults' = faults + 1

============================================================================
