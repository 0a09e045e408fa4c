----------------------------- MODULE DbClient ------------------------------
(***************************************************************************)
(* DatabaseClient over the asyncpg pool: reads, writes that are retried    *)
(* while a fresh attempt may help, and transactions, of which only the     *)
(* opening is retried.  One action is what happens at one await.           *)
(*                                                                         *)
(* asyncpg and PostgreSQL are outside the repository.  A statement whose   *)
(* reply is lost may have taken effect; a transaction whose connection is  *)
(* gone never commits afterwards.  While the pool closes, a call that was  *)
(* waiting for a connection may still get one; a closed pool refuses.      *)
(***************************************************************************)
EXTENDS Naturals, FiniteSets

CONSTANTS
    Call,          \* the calls made of the client
    KindOf,        \* [Call -> {"fetch", "execute", "transaction"}]
    pool_size, db_max_retry,
    MaxDbFaults    \* bound on lost connections

ASSUME DbAssumption ==
    /\ IsFiniteSet(Call)
    /\ KindOf \in [Call -> {"fetch", "execute", "transaction"}]
    /\ {pool_size, db_max_retry} \subseteq Nat \ {0}
    /\ MaxDbFaults \in Nat

Statement == {1, 2}
StatementsOf == [c \in Call |-> CASE KindOf[c] = "fetch" -> {}
                                  [] KindOf[c] = "execute" -> {1}
                                  [] OTHER -> Statement]

VARIABLES
    at,         \* [Call -> the await it is suspended at]
    attempt,    \* [Call -> _db_write_with_retry's attempt]
    conn,       \* [Call -> "none", "held", or "dropped" by the end of the pool]
    pending,    \* [Call -> the statements of its open transaction]
    written,    \* [Call -> its statements that took effect]
    result,     \* [Call -> how it ended or will end]
    pool,       \* "open", "closing" or "closed"
    dbFaults

dbVars == <<at, attempt, conn, pending, written, result, pool, dbFaults>>

Await == {"idle", "acquire", "statement", "backoff", "body", "commit", "rollback", "over"}
Error == {"unavailable", "conflict", "error", "cancelled"}
Holder == {"statement", "body", "commit", "rollback"}

DbTypeOK ==
    /\ at \in [Call -> Await]
    /\ attempt \in [Call -> 1..db_max_retry]
    /\ conn \in [Call -> {"none", "held", "dropped"}]
    /\ pending \in [Call -> SUBSET Statement]
    /\ written \in [Call -> SUBSET Statement]
    /\ result \in [Call -> Error \union {"none", "ok"}]
    /\ pool \in {"open", "closing", "closed"}
    /\ dbFaults \in 0..MaxDbFaults

DbInit ==
    /\ at = [c \in Call |-> "idle"]
    /\ attempt = [c \in Call |-> 1]
    /\ conn = [c \in Call |-> "none"]
    /\ pending = [c \in Call |-> {}]
    /\ written = [c \in Call |-> {}]
    /\ result = [c \in Call |-> "none"]
    /\ pool = "open"
    /\ dbFaults = 0

At(c, await) == at[c] = await
To(c, await) == at' = [at EXCEPT ![c] = await]
Release(c) == conn' = [conn EXCEPT ![c] = "none"]
Ends(c, end) == To(c, "over") /\ result' = [result EXCEPT ![c] = end]
Held == {c \in Call : conn[c] # "none"}
Fault == dbFaults < MaxDbFaults /\ dbFaults' = dbFaults + 1
(* A connection is lost, or was dropped with the pool.                     *)
Lost(c) == (conn[c] = "dropped" /\ UNCHANGED dbFaults) \/ (conn[c] # "dropped" /\ Fault)
Takes(c) == written' = [written EXCEPT ![c] = StatementsOf[c]]

CallDb(c) ==
    /\ At(c, "idle") /\ To(c, "acquire")
    /\ UNCHANGED <<attempt, conn, pending, written, result, pool, dbFaults>>

-----------------------------------------------------------------------------
(* One attempt: acquire a connection and run a statement on it, BEGIN for  *)
(* a transaction.                                                          *)
Acquire(c) ==
    /\ At(c, "acquire") /\ pool # "closed" /\ Cardinality(Held) < pool_size
    /\ To(c, "statement") /\ conn' = [conn EXCEPT ![c] = "held"]
    /\ UNCHANGED <<attempt, pending, written, result, pool, dbFaults>>

(* InterfaceError, which a fresh attempt does not clear.                   *)
AcquireRefused(c) ==
    /\ At(c, "acquire") /\ pool # "open"
    /\ Ends(c, "unavailable")
    /\ UNCHANGED <<attempt, conn, pending, written, pool, dbFaults>>

(* A failure in _TRANSIENT_ERRORS.  Reads are not retried.                 *)
Transient(c) ==
    IF KindOf[c] # "fetch" /\ attempt[c] < db_max_retry
    THEN To(c, "backoff") /\ UNCHANGED result
    ELSE Ends(c, "unavailable")

AcquireFails(c) ==
    /\ At(c, "acquire") /\ pool = "open" /\ Fault
    /\ Transient(c)
    /\ UNCHANGED <<attempt, conn, pending, written, pool>>

BackoffEnds(c) ==
    /\ At(c, "backoff") /\ To(c, "acquire")
    /\ attempt' = [attempt EXCEPT ![c] = @ + 1]
    /\ UNCHANGED <<conn, pending, written, result, pool, dbFaults>>

StatementDone(c) ==
    /\ At(c, "statement") /\ conn[c] = "held"
    /\ IF KindOf[c] = "transaction"
       THEN To(c, "body") /\ UNCHANGED <<conn, written, result>>
       ELSE Ends(c, "ok") /\ Release(c) /\ Takes(c)
    /\ UNCHANGED <<attempt, pending, pool, dbFaults>>

(* UniqueViolationError, or any other PostgresError.                       *)
StatementRejected(c) ==
    /\ At(c, "statement") /\ conn[c] = "held"
    /\ \E end \in {"conflict", "error"} : (end = "conflict" => KindOf[c] = "execute") /\ Ends(c, end)
    /\ Release(c)
    /\ UNCHANGED <<attempt, pending, written, pool, dbFaults>>

(* An execute's statement may have committed.                              *)
StatementLost(c) ==
    /\ At(c, "statement") /\ Lost(c)
    /\ Transient(c) /\ Release(c)
    /\ ((KindOf[c] = "execute" /\ Takes(c)) \/ UNCHANGED written)
    /\ UNCHANGED <<attempt, pending, pool>>

-----------------------------------------------------------------------------
(* transaction(): the caller's statements, COMMIT, and ROLLBACK when       *)
(* either raised.                                                          *)
BodyStatement(c) ==
    /\ At(c, "body") /\ conn[c] = "held"
    /\ \E s \in Statement \ pending[c] : pending' = [pending EXCEPT ![c] = @ \union {s}]
    /\ UNCHANGED <<at, attempt, conn, written, result, pool, dbFaults>>

(* The block raises; so does a statement whose connection is gone.         *)
BodyRaises(c) ==
    /\ At(c, "body")
    /\ \/ conn[c] = "held" /\ UNCHANGED dbFaults /\
          \E end \in {"conflict", "error"} : result' = [result EXCEPT ![c] = end]
       \/ Lost(c) /\ result' = [result EXCEPT ![c] = "unavailable"]
    /\ To(c, "rollback")
    /\ UNCHANGED <<attempt, conn, pending, written, pool>>

BodyExits(c) ==
    /\ At(c, "body") /\ pending[c] = StatementsOf[c]
    /\ To(c, "commit")
    /\ UNCHANGED <<attempt, conn, pending, written, result, pool, dbFaults>>

(* Mutant of Commit: the statements take effect one by one.                *)
CommitFirst(c) ==
    /\ At(c, "commit") /\ conn[c] = "held"
    /\ written' = [written EXCEPT ![c] = @ \union {1}]
    /\ pending' = [pending EXCEPT ![c] = {}]
    /\ Ends(c, "ok") /\ Release(c)
    /\ UNCHANGED <<attempt, pool, dbFaults>>

Commit(c) ==
    /\ At(c, "commit") /\ conn[c] = "held"
    /\ written' = [written EXCEPT ![c] = pending[c]]
    /\ pending' = [pending EXCEPT ![c] = {}]
    /\ Ends(c, "ok") /\ Release(c)
    /\ UNCHANGED <<attempt, pool, dbFaults>>

CommitLost(c) ==
    /\ At(c, "commit") /\ Lost(c)
    /\ written' \in {written, [written EXCEPT ![c] = pending[c]]}
    /\ pending' = [pending EXCEPT ![c] = {}]
    /\ To(c, "rollback") /\ result' = [result EXCEPT ![c] = "unavailable"]
    /\ UNCHANGED <<attempt, conn, pool>>

(* Its failure is suppressed: the server drops the transaction anyway.     *)
Rollback(c) ==
    /\ At(c, "rollback")
    /\ pending' = [pending EXCEPT ![c] = {}]
    /\ To(c, "over") /\ Release(c)
    /\ UNCHANGED <<attempt, written, result, pool, dbFaults>>

-----------------------------------------------------------------------------
(* The task that made the call is cancelled.                               *)
Cancel(c) ==
    /\ at[c] \notin {"idle", "over"}
    /\ result' = [result EXCEPT ![c] = "cancelled"]
    /\ IF at[c] \in {"body", "commit"}
       THEN To(c, "rollback") /\ UNCHANGED conn
       ELSE To(c, "over") /\ Release(c)
    /\ \/ UNCHANGED written
       \/ conn[c] = "held" /\ At(c, "statement") /\ KindOf[c] = "execute" /\ Takes(c)
       \/ conn[c] = "held" /\ At(c, "commit") /\ Takes(c)
    /\ pending' = IF at[c] = "body" THEN pending ELSE [pending EXCEPT ![c] = {}]
    /\ UNCHANGED <<attempt, pool, dbFaults>>

ClosePool ==
    /\ pool = "open" /\ pool' = "closing"
    /\ UNCHANGED <<at, attempt, conn, pending, written, result, dbFaults>>

PoolCloses ==
    /\ pool = "closing" /\ Held = {}
    /\ pool' = "closed"
    /\ UNCHANGED <<at, attempt, conn, pending, written, result, dbFaults>>

(* Past close_timeout_s asyncpg terminates the pool.                       *)
CloseTimesOut ==
    /\ pool = "closing"
    /\ pool' = "closed"
    /\ conn' = [c \in Call |-> IF conn[c] = "held" THEN "dropped" ELSE conn[c]]
    /\ UNCHANGED <<at, attempt, pending, written, result, dbFaults>>

-----------------------------------------------------------------------------
Answered(c) ==
    \/ Acquire(c) \/ AcquireRefused(c) \/ BackoffEnds(c)
    \/ StatementDone(c) \/ BodyStatement(c) \/ BodyExits(c)
    \/ Commit(c) \/ Rollback(c)
Refused(c) ==
    \/ AcquireFails(c) \/ StatementRejected(c) \/ StatementLost(c)
    \/ BodyRaises(c) \/ CommitLost(c)

DbStep == \E c \in Call : Answered(c) \/ Refused(c)

=============================================================================
