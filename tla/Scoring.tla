------------------------------ MODULE Scoring ------------------------------
(***************************************************************************)
(* The Scoring layer: ScoringConsumer reads stream:event_aggregated and    *)
(* ScoringService scores each Event announced there from two reads of the  *)
(* database, writes the score unless the row has moved on since the first, *)
(* and announces it.  One action is the code up to the next await.         *)
(*                                                                         *)
(* A row and its memberships change in one transaction, so what the second *)
(* read finds is told apart by the version the row has at that moment; the *)
(* arithmetic of the score is left out.                                    *)
(***************************************************************************)
EXTENDS Sequences, FiniteSets, EventFeed

CONSTANTS
    Gone,           \* an id no row has
    Malformed,      \* a message without a valid event_id
    BATCH_SIZE,     \* config.batch_size
    MaxPersists,    \* bound on writes of rows
    MaxStrays,      \* bound on messages that announce no Event
    MaxFaults       \* bound on calls that fail and restarts of the process

ASSUME ScoringAssumption ==
    /\ Gone \notin Event /\ Malformed \notin Event \union {Gone}
    /\ BATCH_SIZE \in Nat \ {0}
    /\ {MaxPersists, MaxStrays, MaxFaults} \subseteq Nat

Stray == {Gone, Malformed}

VARIABLES
    stream,        \* the messages: the Event, and the version it had
    delivered,     \* how many of them were read
    acked,         \* those acknowledged
    batch,         \* the messages the loop has still to finish
    pc,            \* the call the loop makes next
    expected,      \* the version of the row fetch_event returned
    constituents,  \* the version whose EntityEvents were read
    score,         \* event_scores: the version scored, and that of the constituents
    signalled,     \* the version of the score last announced
    stranded,      \* messages a failure left pending with nobody to claim them
    persists, faults

locals == <<expected, constituents>>
tables == <<score, signalled>>
bounds == <<persists, faults>>
vars == <<feed, stream, delivered, acked, batch, pc, locals, tables, stranded, bounds>>

ScoringInit ==
    /\ Init
    /\ stream = <<>> /\ delivered = 0 /\ acked = {}
    /\ batch = <<>> /\ pc = "loop"
    /\ expected = 0 /\ constituents = 0
    /\ score = [e \in Event |-> [ver |-> 0, of |-> 0]]
    /\ signalled = [e \in Event |-> 0]
    /\ stranded = {}
    /\ persists = 0 /\ faults = 0

Current == stream[Head(batch)].event

Fault ==
    /\ faults < MaxFaults
    /\ faults' = faults + 1
-----------------------------------------------------------------------------
(***************************************************************************)
(* The Aggregation layer, and whoever else writes to the stream.           *)
(***************************************************************************)
Reaggregate ==
    /\ persists < MaxPersists
    /\ persists' = persists + 1
    /\ Persist
    /\ \A e \in Event : version'[e] \in {version[e], version[e] + 1}
    /\ UNCHANGED <<stream, delivered, acked, batch, pc, locals, tables, stranded, faults>>

Send(e) ==
    /\ published[e] < version[e]
    /\ Announce(e)
    /\ stream' = Append(stream, [event |-> e, ver |-> version[e]])
    /\ UNCHANGED <<delivered, acked, batch, pc, locals, tables, stranded, persists>>

AnnounceEvent(e) ==
    /\ announced[e] < version[e]
    /\ Send(e)
    /\ UNCHANGED faults

(* A failure kept the announcement from being marked.                      *)
AnnounceAgain(e) ==
    /\ announced[e] = version[e]
    /\ Fault
    /\ Send(e)

MarkEvent(e) ==
    /\ Mark(e)
    /\ UNCHANGED <<stream, delivered, acked, batch, pc, locals, tables, stranded, bounds>>

SendStray(x) ==
    /\ Cardinality({i \in DOMAIN stream : stream[i].event \in Stray}) < MaxStrays
    /\ stream' = Append(stream, [event |-> x, ver |-> 0])
    /\ UNCHANGED <<feed, delivered, acked, batch, pc, locals, tables, stranded, bounds>>
-----------------------------------------------------------------------------
(***************************************************************************)
(* ScoringConsumer._consumer_loop                                          *)
(***************************************************************************)
(* read_from returns what there is, up to batch_size messages.             *)
Batches == {n \in 1..BATCH_SIZE : delivered + n <= Len(stream)}

Read ==
    /\ pc = "loop" /\ batch = <<>>
    /\ \E n \in Batches :
         /\ batch' = [i \in 1..n |-> delivered + i]
         /\ delivered' = delivered + n
    /\ UNCHANGED <<feed, stream, acked, pc, locals, tables, stranded, bounds>>

(* score_event's variables are gone.                                       *)
Leave == pc' = "loop" /\ expected' = 0 /\ constituents' = 0

(* The message is done with and the loop goes on to the next.              *)
Proceed == batch' = Tail(batch) /\ Leave

(* An invalid message is skipped, and not acknowledged.                    *)
SkipInvalid ==
    /\ pc = "loop" /\ batch # <<>>
    /\ Current = Malformed
    /\ Proceed
    /\ UNCHANGED <<feed, stream, delivered, acked, tables, stranded, bounds>>

Ack ==
    /\ pc = "ack"
    /\ acked' = acked \union {Head(batch)}
    /\ Proceed
    /\ UNCHANGED <<feed, stream, delivered, tables, stranded, bounds>>
-----------------------------------------------------------------------------
(***************************************************************************)
(* ScoringService.score_event                                              *)
(***************************************************************************)
FetchEvent ==
    /\ pc = "loop" /\ batch # <<>>
    /\ Current \in Event
    /\ version[Current] # 0
    /\ expected' = version[Current]
    /\ pc' = "constituents"
    /\ UNCHANGED <<feed, stream, delivered, acked, batch, constituents, tables, stranded, bounds>>

FindNoEvent ==
    /\ pc = "loop" /\ batch # <<>>
    /\ Current = Gone
    /\ pc' = "ack"
    /\ UNCHANGED <<feed, stream, delivered, acked, batch, locals, tables, stranded, bounds>>

FetchConstituents ==
    /\ pc = "constituents"
    /\ constituents' = version[Current]
    /\ pc' = "persist"
    /\ UNCHANGED <<feed, stream, delivered, acked, batch, expected, tables, stranded, bounds>>

(* Mutant of IsCurrent: _UPSERT_EVENT_SCORE_SQL without its second         *)
(* condition.                                                              *)
IsStored == version[Current] # 0

(* WHERE events.aggregation_updated_at = $11                               *)
IsCurrent == version[Current] = expected

WriteScore == score' = [score EXCEPT ![Current] = [ver |-> expected, of |-> constituents]]

PersistScore ==
    /\ pc = "persist"
    /\ IsCurrent
    /\ WriteScore
    /\ pc' = "publish"
    /\ UNCHANGED <<feed, stream, delivered, acked, batch, locals, signalled, stranded, bounds>>

(* Mutant of SkipStale: the batch is given up.                             *)
SkipStaleAndBatch ==
    /\ pc = "persist"
    /\ ~IsCurrent
    /\ Leave
    /\ batch' = <<>>
    /\ acked' = acked \union {Head(batch)}
    /\ UNCHANGED <<feed, stream, delivered, tables, stranded, bounds>>

SkipStale ==
    /\ pc = "persist"
    /\ ~IsCurrent
    /\ pc' = "ack"
    /\ UNCHANGED <<feed, stream, delivered, acked, batch, locals, tables, stranded, bounds>>

(* publish waits until the stream Redis can be reached.                    *)
PublishScored ==
    /\ pc = "publish"
    /\ signalled' = [signalled EXCEPT ![Current] = score[Current].ver]
    /\ pc' = "ack"
    /\ UNCHANGED <<feed, stream, delivered, acked, batch, locals, score, stranded, bounds>>
-----------------------------------------------------------------------------
(***************************************************************************)
(* Failures.  There is no reclaim loop: a message that was delivered and   *)
(* not acknowledged is not delivered again.                                *)
(***************************************************************************)
Pending == {batch[i] : i \in DOMAIN batch}

(* Mutant of CallFails: the message is acknowledged all the same.          *)
CallFailsAcking ==
    /\ Fault
    /\ batch # <<>> /\ Current # Malformed
    /\ pc # "ended"
    /\ acked' = acked \union {Head(batch)}
    /\ Proceed
    /\ UNCHANGED <<feed, stream, delivered, tables, stranded, persists>>

(* The call raises; _process_one logs it and leaves the message pending.   *)
CallFails ==
    /\ Fault
    /\ batch # <<>> /\ Current # Malformed
    /\ pc # "ended"
    /\ stranded' = stranded \union {Head(batch)}
    /\ Proceed
    /\ UNCHANGED <<feed, stream, delivered, acked, tables, persists>>

(* The write is committed and its reply lost: the database client tries    *)
(* again, or gives up and raises.                                          *)
WriteReplyLost ==
    /\ Fault
    /\ pc = "persist"
    /\ IsCurrent
    /\ WriteScore
    /\ \/ UNCHANGED <<batch, pc, locals, stranded>>
       \/ /\ stranded' = stranded \union {Head(batch)}
          /\ Proceed
    /\ UNCHANGED <<feed, stream, delivered, acked, signalled, persists>>

(* The stream Redis cannot be reached for the acknowledgement, or its      *)
(* reply is lost: the rest of the batch stays pending.                     *)
AckFails ==
    /\ Fault
    /\ pc = "ack"
    /\ \/ UNCHANGED acked
       \/ acked' = acked \union {Head(batch)}
    /\ stranded' = stranded \union (Pending \ acked')
    /\ batch' = <<>>
    /\ Leave
    /\ UNCHANGED <<feed, stream, delivered, tables, persists>>

(* The reply of the read is lost: the messages are pending, unseen.        *)
ReadReplyLost ==
    /\ Fault
    /\ pc = "loop" /\ batch = <<>>
    /\ \E n \in Batches :
         /\ delivered' = delivered + n
         /\ stranded' = stranded \union delivered + 1..delivered + n
    /\ UNCHANGED <<feed, stream, acked, batch, pc, locals, tables, persists>>

(* The read raises what the loop does not catch: the task, which nothing   *)
(* restarts, ends.                                                         *)
ReadRaises ==
    /\ Fault
    /\ pc = "loop" /\ batch = <<>>
    /\ pc' = "ended"
    /\ UNCHANGED <<feed, stream, delivered, acked, batch, locals, tables, stranded, persists>>

(* The process stops, in order or not, and starts again.                   *)
Restart ==
    /\ Fault
    /\ stranded' = stranded \union Pending
    /\ batch' = <<>>
    /\ Leave
    /\ UNCHANGED <<feed, stream, delivered, acked, tables, persists>>
-----------------------------------------------------------------------------
ScoringStep ==
    \/ Read \/ SkipInvalid \/ Ack
    \/ FetchEvent \/ FindNoEvent \/ FetchConstituents
    \/ PersistScore \/ SkipStale \/ PublishScored

ScoringNext ==
    \/ Reaggregate
    \/ \E e \in Event : AnnounceEvent(e) \/ AnnounceAgain(e) \/ MarkEvent(e)
    \/ \E x \in Stray : SendStray(x)
    \/ ScoringStep
    \/ CallFails \/ WriteReplyLost \/ AckFails \/ ReadReplyLost \/ ReadRaises
    \/ Restart

(* asyncio runs the loop and its calls return; the Aggregation layer       *)
(* announces what it committed.                                            *)
ScoringSpec ==
    /\ ScoringInit /\ [][ScoringNext]_vars
    /\ WF_vars(ScoringStep)
    /\ \A e \in Event : WF_vars(AnnounceEvent(e))
-----------------------------------------------------------------------------
Message == [event : Event \union Stray, ver : Version]

TypeOK ==
    /\ version \in [Event -> Version]
    /\ announced \in [Event -> Version] /\ published \in [Event -> Version]
    /\ stream \in Seq(Message)
    /\ delivered \in 0..Len(stream)
    /\ acked \subseteq 1..delivered /\ stranded \subseteq 1..delivered
    /\ batch \in Seq(1..delivered)
    /\ pc \in {"loop", "constituents", "persist", "publish", "ack", "ended"}
    /\ expected \in Version /\ constituents \in Version
    /\ score \in [Event -> [ver : Version, of : Version]]
    /\ signalled \in [Event -> Version]
    /\ persists \in Nat /\ faults \in Nat

(* A score belongs to one version of its Event: the row's columns and the  *)
(* EntityEvents it was computed from, two reads apart, are of the version  *)
(* it is filed under (persist_score_if_not_stale).                         *)
ScoreOfOneVersion == \A e \in Event : score[e].of = score[e].ver

UpToDate(e) == score[e].ver = version[e] /\ signalled[e] = version[e]
Unsettled(e) == {i \in DOMAIN stream \ acked : stream[i] = [event |-> e, ver |-> version[e]]}

(* While an Event's newest version is not scored and announced, either its *)
(* announcement is still due in the outbox or a message of that version is *)
(* not acknowledged: what re-aggregation makes stale is never taken for    *)
(* done (score_event, ack).                                                *)
OutdatedIsOwed ==
    \A e \in Event : UpToDate(e) \/ published[e] < version[e] \/ Unsettled(e) # {}

(* In the end every Event's last version is scored and the score announced *)
(* - except where a failure left that version's message pending, or ended  *)
(* the loop: nothing else may keep a score out of date (_consumer_loop).   *)
LastVersionIsScored ==
    \A e \in Event :
        <>[](UpToDate(e) \/ Unsettled(e) \intersect stranded # {} \/ pc = "ended")
============================================================================
