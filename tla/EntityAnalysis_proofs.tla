----------------------- MODULE EntityAnalysis_proofs -----------------------
(***************************************************************************)
(* Proofs about the Entity Analysis layer for every set of messages,       *)
(* articles and stocks, every size of batch and pool and whatever fails.   *)
(***************************************************************************)
EXTENDS EntityAnalysis, SequenceTheorems, TLAPS

(* A task works on its cleaned_id or waits to.                             *)
Works(t) == task[t] \in Held \union {"line"}

GuardExact ==
    /\ \A t \in Task : Works(t) => Cleaned(t) \in processing
    /\ \A c \in processing : \E t \in Task : Works(t) /\ Cleaned(t) = c
    /\ \A t, u \in Task : Works(t) /\ Works(u) /\ Cleaned(t) = Cleaned(u) => t = u

(* The outcome of a message is final, or needs no announcement.            *)
Closed(m) == m \in dead \/ CleanedOf[m] \in nothing
Final(m) ==
    \/ Closed(m)
    \/ CleanedOf[m] \notin DOMAIN SourceUrl
    \/ RowsOf(SourceUrl[CleanedOf[m]]) # {}

(* What a task has found out by the stage it is at.                        *)
TaskInv ==
    \A t \in Task :
        /\ task[t] # "none" => t[2] \notin unread
        /\ task[t] = "buried" => t[2] \in dead
        /\ task[t] \in {"look", "analyse", "persist", "publish"} =>
             Cleaned(t) \in DOMAIN SourceUrl
        /\ task[t] \in {"analyse", "persist"} => ~ Acked(t[2]) \/ Closed(t[2])
        /\ task[t] \in {"publish", "ack"} => Final(t[2])
        /\ task[t] = "publish" => \A s \in hand[t] : <<UrlOf(t), s>> \in rows

(* m announces the row, or leaves a trace: no task of m has looked for     *)
(* rows without finding this one.                                          *)
Owes(m, row) ==
    /\ CleanedOf[m] \in DOMAIN SourceUrl
    /\ SourceUrl[CleanedOf[m]] = row[1]
    /\ Closed(m) \/ (/\ ~ Acked(m)
                     /\ \A t \in Task : t[2] = m =>
                           /\ task[t] \notin {"analyse", "persist", "ack"}
                           /\ task[t] = "publish" => row[2] \in hand[t])

RowsOwed == \A row \in rows \ announced : \E m \in Message : Owes(m, row)

LayerInv == TypeOK /\ GuardExact /\ TaskInv /\ AckedIsFinal /\ RowsOwed

LEMMA Consequences == LayerInv => TypeOK /\ InFlightOnce /\ AckedIsFinal /\ StoredIsOwed
<1> SUFFICES ASSUME LayerInv PROVE TypeOK /\ InFlightOnce /\ AckedIsFinal /\ StoredIsOwed
  OBVIOUS
<1>1. InFlightOnce
  BY DEF LayerInv, GuardExact, Works, InFlightOnce
<1>2. StoredIsOwed
  BY DEF LayerInv, RowsOwed, Owes, Closed, StoredIsOwed
<1> QED  BY <1>1, <1>2 DEF LayerInv

LEMMA LayerInit == Init => LayerInv
<1> SUFFICES ASSUME Init PROVE LayerInv
  OBVIOUS
<1>1. TypeOK
  <2>1. <<>> \in Seq(Task)
    BY EmptySeq
  <2>2. {MAX_RETRY, MaxFaults, MaxStops} \subseteq Nat
    BY EntityAnalysisAssumption
  <2>3. line \in Seq(Task) /\ deliveries \in [Message -> 0..MAX_RETRY]
    BY <2>1, <2>2 DEF Init
  <2>4. {backoff, listLoaded} \subseteq BOOLEAN
    BY Zenon DEF Init
  <2>5. task \in [Task -> Stage] /\ hand \in [Task -> SUBSET Stock]
    BY DEF Init, Stage
  <2>6. faults \in 0..MaxFaults /\ stops \in 0..MaxStops
    BY <2>2 DEF Init
  <2> QED  BY <2>3, <2>4, <2>5, <2>6 DEF Init, TypeOK
<1>2. GuardExact
  BY DEF Init, GuardExact, Works, Held
<1>3. TaskInv
  BY DEF Init, TaskInv
<1>4. AckedIsFinal
  BY DEF Init, AckedIsFinal, Acked
<1>5. RowsOwed
  BY DEF Init, RowsOwed
<1> QED  BY <1>1, <1>2, <1>3, <1>4, <1>5 DEF LayerInv

-----------------------------------------------------------------------------
(***************************************************************************)
(* The step of one task t.                                                 *)
(***************************************************************************)
LEMMA TaskMoves ==
    ASSUME TypeOK, NEW t \in Task, RouteStep(t) \/ WorkStep(t) \/ TaskFails(t)
    PROVE  /\ \A u \in Task \ {t} : task'[u] = task[u] /\ hand'[u] = hand[u]
           /\ task[t] \notin {"none", "done"} /\ task'[t] \in Stage \ {"none"}
           /\ task' \in [Task -> Stage]
           /\ UNCHANGED <<unread, deliveries, stops>>
<1>1. PICK next \in Stage \ {"none"} :
        task' = [task EXCEPT ![t] = next] /\ task[t] \notin {"none", "done"}
  BY DEF RouteStep, RouteToDeadLetter, PushDeadLetter, AckDead, Skip, Dispatch,
     WorkStep, TakeSlot, StartWork, FetchCleanedNews, FetchExisting, Analyse, Persist, Publish,
     Ack, TaskFails, AckDeadFails, FetchCleanedNewsFails, FetchExistingFails, AnalysisFails,
     PersistFails, AckFails, Go, Finish, Receives, Stage, Held
<1>2. \/ hand' = hand
      \/ \E stocks : hand' = [hand EXCEPT ![t] = stocks]
  BY DEF RouteStep, RouteToDeadLetter, PushDeadLetter, AckDead, Skip, Dispatch,
     WorkStep, TakeSlot, StartWork, FetchCleanedNews, FetchExisting, Analyse, Persist, Publish,
     Ack, TaskFails, AckDeadFails, FetchCleanedNewsFails, FetchExistingFails, AnalysisFails,
     PersistFails, AckFails, Go, Finish, Receives
<1>3. UNCHANGED <<unread, deliveries, stops>>
  BY DEF RouteStep, RouteToDeadLetter, PushDeadLetter, AckDead, Skip, Dispatch,
     WorkStep, TakeSlot, StartWork, FetchCleanedNews, FetchExisting, Analyse, Persist, Publish,
     Ack, TaskFails, AckDeadFails, FetchCleanedNewsFails, FetchExistingFails, AnalysisFails,
     PersistFails, AckFails, streamVars
<1>4. task \in [Task -> Stage] /\ hand \in [Task -> SUBSET Stock]
  BY DEF TypeOK
<1> QED  BY <1>1, <1>2, <1>3, <1>4

(* What an article's reply makes of a task.                                *)
LEMMA ReplyMoves ==
    ASSUME TypeOK, NEW t \in Task, FetchCleanedNews(t) \/ FetchCleanedNewsFails(t)
    PROVE  \/ /\ task'[t] = "look" /\ Cleaned(t) \in DOMAIN SourceUrl
              /\ UNCHANGED <<hand, line, processing, listLoaded>>
           \/ /\ task'[t] = "ack" /\ Cleaned(t) \notin DOMAIN SourceUrl
              /\ UNCHANGED <<hand, line, processing, listLoaded>>
           \/ Finish(t)
<1>1. task \in [Task -> Stage]
  BY DEF TypeOK
<1>2. CASE FetchCleanedNews(t)
  <2>1. CASE Cleaned(t) \in DOMAIN SourceUrl
    <3>1. fetch_cleaned_news(get_cleaned_news(Cleaned(t) \in DOMAIN SourceUrl)) = "article"
      BY <2>1 DEF get_cleaned_news, fetch_cleaned_news
    <3> QED  BY <1>1, <1>2, <2>1, <3>1 DEF FetchCleanedNews, Receives, NewsError, Go
  <2>2. CASE Cleaned(t) \notin DOMAIN SourceUrl
    <3>1. fetch_cleaned_news(get_cleaned_news(Cleaned(t) \in DOMAIN SourceUrl)) = "none"
      BY <2>2 DEF get_cleaned_news, fetch_cleaned_news
    <3> QED  BY <1>1, <1>2, <2>2, <3>1 DEF FetchCleanedNews, Receives, NewsError, Go
  <2> QED  BY <2>1, <2>2
<1>3. CASE FetchCleanedNewsFails(t)
  <2>1. PICK reply \in SadiFailure : Receives(t, fetch_cleaned_news(reply))
    BY <1>3 DEF FetchCleanedNewsFails
  <2>2. fetch_cleaned_news(reply) \in NewsError
    BY DEF SadiFailure, NewsError, fetch_cleaned_news
  <2> QED  BY <2>1, <2>2 DEF Receives, NewsError
<1> QED  BY <1>2, <1>3

(* Results are only added to, and a message is acknowledged by its task at *)
(* the end of its work or of its dead-lettering.                           *)
LEMMA ResultsGrow ==
    ASSUME TypeOK, NEW t \in Task, RouteStep(t) \/ WorkStep(t) \/ TaskFails(t)
    PROVE  /\ dead \subseteq dead' /\ nothing \subseteq nothing'
           /\ rows \subseteq rows' /\ announced \subseteq announced'
           /\ \A m \in Message : Acked(m)' =>
                 Acked(m) \/ (m = t[2] /\ task[t] \in {"ack", "buried"})
           /\ \A m \in Message : (Closed(m) => Closed(m)') /\ (Final(m) => Final(m)')
<1>1. /\ dead \subseteq dead' /\ nothing \subseteq nothing'
      /\ rows \subseteq rows' /\ announced \subseteq announced'
  BY DEF RouteStep, RouteToDeadLetter, PushDeadLetter, AckDead, Skip, Dispatch,
     WorkStep, TakeSlot, StartWork, FetchCleanedNews, FetchExisting, Analyse, Persist, Publish,
     Ack, TaskFails, AckDeadFails, FetchCleanedNewsFails, FetchExistingFails, AnalysisFails,
     PersistFails, AckFails, streamVars, resultVars
<1>2. pending' = pending \/ (pending' = pending \ {t[2]} /\ task[t] \in {"ack", "buried"})
  BY DEF RouteStep, RouteToDeadLetter, PushDeadLetter, AckDead, Skip, Dispatch,
     WorkStep, TakeSlot, StartWork, FetchCleanedNews, FetchExisting, Analyse, Persist, Publish,
     Ack, TaskFails, AckDeadFails, FetchCleanedNewsFails, FetchExistingFails, AnalysisFails,
     PersistFails, AckFails, streamVars, Go
<1>3. \A m \in Message : Acked(m)' =>
         Acked(m) \/ (m = t[2] /\ task[t] \in {"ack", "buried"})
  BY <1>2, TaskMoves DEF Acked
<1>4. \A m \in Message : (Closed(m) => Closed(m)') /\ (Final(m) => Final(m)')
  BY <1>1 DEF Closed, Final, RowsOf
<1> QED  BY <1>1, <1>3, <1>4

LEMMA TaskGuard ==
    ASSUME LayerInv, NEW t \in Task, RouteStep(t) \/ WorkStep(t) \/ TaskFails(t)
    PROVE  GuardExact'
<1>1. TypeOK /\ GuardExact /\ task \in [Task -> Stage]
  BY DEF LayerInv, TypeOK
<1>2. \A u \in Task \ {t} : Works(u)' <=> Works(u)
  BY <1>1, TaskMoves DEF Works
<1>3. \/ (Works(t)' <=> Works(t)) /\ processing' = processing
      \/ Works(t) /\ ~ Works(t)' /\ processing' = processing \ {Cleaned(t)}
      \/ /\ ~ Works(t) /\ Works(t)'
         /\ Cleaned(t) \notin processing /\ processing' = processing \union {Cleaned(t)}
  <2>1. CASE Finish(t) /\ Works(t)
    <3>1. task'[t] = "done"
      BY <1>1, <2>1 DEF Finish
    <3> QED  BY <2>1, <3>1 DEF Works, Held, Finish
  <2>2. CASE Dispatch(t)
    BY <1>1, <2>2 DEF Dispatch, Go, Works, Held
  <2>3. CASE \/ RouteToDeadLetter(t) \/ PushDeadLetter(t) \/ AckDead(t) \/ Skip(t)
             \/ AckDeadFails(t)
    BY <1>1, <2>3 DEF RouteToDeadLetter, PushDeadLetter, AckDead, Skip, AckDeadFails, Go,
       poolVars, Works, Held
  <2>4. CASE \/ TakeSlot(t) \/ StartWork(t) \/ FetchExisting(t) \/ Analyse(t) \/ Persist(t)
             \/ Publish(t)
    <3>1. processing' = processing
      BY <2>4 DEF TakeSlot, StartWork, FetchExisting, Analyse, Persist, Publish, poolVars
    <3>2. Works(t) /\ Works(t)'
      BY <1>1, <2>4 DEF TakeSlot, StartWork, FetchExisting, Analyse, Persist, Publish, Go,
         Works, Held
    <3> QED  BY <3>1, <3>2
  <2>5. CASE FetchCleanedNews(t) \/ FetchCleanedNewsFails(t)
    <3>1. Works(t)
      BY <2>5 DEF FetchCleanedNews, FetchCleanedNewsFails, Receives, Go, Works, Held
    <3>2. CASE task'[t] \in {"look", "ack"} /\ processing' = processing
      BY <3>1, <3>2 DEF Works, Held
    <3> QED  BY <1>1, <2>1, <2>5, <3>1, <3>2, ReplyMoves
  <2>6. CASE \/ Ack(t) \/ FetchExistingFails(t) \/ AnalysisFails(t) \/ PersistFails(t)
             \/ AckFails(t)
    <3>1. Finish(t) /\ Works(t)
      BY <2>6 DEF Ack, FetchExistingFails, AnalysisFails, PersistFails, AckFails, Works, Held
    <3> QED  BY <2>1, <3>1
  <2> QED  BY <2>2, <2>3, <2>4, <2>5, <2>6 DEF RouteStep, WorkStep, TaskFails
<1>4. CASE (Works(t)' <=> Works(t)) /\ processing' = processing
  BY <1>1, <1>2, <1>4 DEF GuardExact, Cleaned
<1>5. CASE Works(t) /\ ~ Works(t)' /\ processing' = processing \ {Cleaned(t)}
  BY <1>1, <1>2, <1>5 DEF GuardExact, Cleaned
<1>6. CASE /\ ~ Works(t) /\ Works(t)'
           /\ Cleaned(t) \notin processing /\ processing' = processing \union {Cleaned(t)}
  BY <1>1, <1>2, <1>6 DEF GuardExact, Cleaned
<1> QED  BY <1>3, <1>4, <1>5, <1>6

LEMMA TaskFinal ==
    ASSUME LayerInv, NEW t \in Task, RouteStep(t) \/ WorkStep(t) \/ TaskFails(t)
    PROVE  AckedIsFinal'
<1>1. TypeOK /\ TaskInv /\ \A m \in Message : Acked(m) => Final(m)
  BY DEF LayerInv, AckedIsFinal, Final, Closed
<1>2. task[t] \in {"ack", "buried"} => Final(t[2])
  BY <1>1 DEF TaskInv, Final, Closed
<1>3. \A m \in Message : Acked(m)' => Final(m)'
  BY <1>1, <1>2, ResultsGrow
<1> QED  BY <1>3 DEF AckedIsFinal, Final, Closed

LEMMA TaskStages ==
    ASSUME LayerInv, NEW t \in Task, RouteStep(t) \/ WorkStep(t) \/ TaskFails(t)
    PROVE  TaskInv'
<1>1. /\ TypeOK /\ GuardExact /\ TaskInv /\ task \in [Task -> Stage]
      /\ \A m \in Message : Acked(m) => Final(m)
      /\ \A u \in Task : u[2] \in Message
  BY DEF LayerInv, TypeOK, AckedIsFinal, Final, Closed, Task
<1>2. /\ \A u \in Task \ {t} : task'[u] = task[u] /\ hand'[u] = hand[u]
      /\ task[t] # "none" /\ unread' = unread
  BY <1>1, TaskMoves
<1>3. /\ dead \subseteq dead' /\ nothing \subseteq nothing'
      /\ rows \subseteq rows' /\ announced \subseteq announced'
      /\ \A m \in Message : Acked(m)' =>
            Acked(m) \/ (m = t[2] /\ task[t] \in {"ack", "buried"})
      /\ \A m \in Message : (Closed(m) => Closed(m)') /\ (Final(m) => Final(m)')
  BY <1>1, ResultsGrow
<1>4. ASSUME NEW u \in Task \ {t}
      PROVE  /\ task'[u] # "none" => u[2] \notin unread'
             /\ task'[u] = "buried" => u[2] \in dead'
             /\ task'[u] \in {"look", "analyse", "persist", "publish"} =>
                  Cleaned(u) \in DOMAIN SourceUrl
             /\ task'[u] \in {"analyse", "persist"} => ~ Acked(u[2])' \/ Closed(u[2])'
             /\ task'[u] \in {"publish", "ack"} => Final(u[2])'
             /\ task'[u] = "publish" => \A s \in hand'[u] : <<UrlOf(u), s>> \in rows'
  <2>1. /\ task'[u] # "none" => u[2] \notin unread'
        /\ task'[u] = "buried" => u[2] \in dead'
        /\ task'[u] \in {"look", "analyse", "persist", "publish"} =>
             Cleaned(u) \in DOMAIN SourceUrl
        /\ task'[u] \in {"publish", "ack"} => Final(u[2])'
        /\ task'[u] = "publish" => \A s \in hand'[u] : <<UrlOf(u), s>> \in rows'
    BY <1>1, <1>2, <1>3 DEF TaskInv
  <2>2. ASSUME task'[u] \in {"analyse", "persist"}
        PROVE  ~ Acked(u[2])' \/ Closed(u[2])'
    <3>1. /\ task[u] \in {"analyse", "persist"} /\ Works(u)
          /\ ~ Acked(u[2]) \/ Closed(u[2])
      BY <1>1, <1>2, <2>2 DEF TaskInv, Works, Held
    <3>2. CASE task[t] = "buried" /\ u[2] = t[2]
      BY <1>1, <1>3, <3>2 DEF TaskInv, Closed
    <3>3. ~ (task[t] = "ack" /\ u[2] = t[2])
      BY <1>1, <3>1 DEF GuardExact, Works, Held, Cleaned
    <3> QED  BY <1>1, <1>3, <3>1, <3>2, <3>3
  <2> QED  BY <2>1, <2>2
<1>5. /\ task'[t] # "none" => t[2] \notin unread'
      /\ task'[t] = "buried" => t[2] \in dead'
      /\ task'[t] \in {"look", "analyse", "persist", "publish"} =>
           Cleaned(t) \in DOMAIN SourceUrl
      /\ task'[t] \in {"analyse", "persist"} => ~ Acked(t[2])' \/ Closed(t[2])'
      /\ task'[t] \in {"publish", "ack"} => Final(t[2])'
      /\ task'[t] = "publish" => \A s \in hand'[t] : <<UrlOf(t), s>> \in rows'
  <2>1. t[2] \notin unread'
    BY <1>1, <1>2 DEF TaskInv
  <2>2. CASE task'[t] \in {"route", "bury", "line", "hold", "fetch", "done"}
    BY <2>1, <2>2
  <2>3. CASE PushDeadLetter(t)
    <3>1. task'[t] = "buried" /\ t[2] \in dead'
      BY <1>1, <2>3 DEF PushDeadLetter, Go
    <3> QED  BY <2>1, <3>1
  <2>4. CASE FetchCleanedNews(t) \/ FetchCleanedNewsFails(t)
    <3>1. CASE task'[t] = "look" /\ Cleaned(t) \in DOMAIN SourceUrl
      BY <2>1, <3>1
    <3>2. CASE task'[t] = "ack" /\ Cleaned(t) \notin DOMAIN SourceUrl
      BY <2>1, <3>2 DEF Final, Cleaned
    <3>3. CASE Finish(t)
      <4>1. task'[t] = "done"
        BY <1>1, <3>3 DEF Finish
      <4> QED  BY <2>2, <4>1
    <3> QED  BY <1>1, <2>4, <3>1, <3>2, <3>3, ReplyMoves
  <2>5. CASE FetchExisting(t)
    <3>1. /\ task[t] = "look" /\ Cleaned(t) \in DOMAIN SourceUrl
          /\ UNCHANGED <<rows, pending, unread>>
      BY <1>1, <2>5 DEF FetchExisting, Go, TaskInv, streamVars, resultVars
    <3>2. CASE RowsOf(UrlOf(t)) = {}
      <4>1. task'[t] = "analyse"
        BY <1>1, <2>5, <3>2 DEF FetchExisting, Go
      <4>2. ~ Acked(t[2]) \/ Closed(t[2])
        BY <1>1, <3>1, <3>2 DEF Final, UrlOf, Cleaned
      <4> QED  BY <1>1, <1>3, <2>1, <3>1, <4>1, <4>2
    <3>3. CASE RowsOf(UrlOf(t)) # {}
      <4> DEFINE stocks == {row[2] : row \in RowsOf(UrlOf(t))}
      <4>0. /\ task' = [task EXCEPT ![t] = IF stocks = {} THEN "analyse" ELSE "publish"]
            /\ hand' = [hand EXCEPT ![t] = stocks]
            /\ stocks # {}
        BY <2>5, <3>3 DEF FetchExisting, Go
      <4>1. task'[t] = "publish" /\ hand'[t] = stocks
        <5> HIDE DEF stocks
        <5>1. hand \in [Task -> SUBSET Stock]
          BY <1>1 DEF TypeOK
        <5> QED  BY <1>1, <4>0, <5>1
      <4>2. \A row \in RowsOf(UrlOf(t)) : <<UrlOf(t), row[2]>> \in rows
        <5> TAKE row \in RowsOf(UrlOf(t))
        <5>1. row \in rows /\ row[1] = UrlOf(t)
          BY DEF RowsOf
        <5>2. rows \subseteq Url \X Stock
          BY <1>1 DEF TypeOK
        <5>3. row = <<row[1], row[2]>>
          BY <5>1, <5>2
        <5> QED  BY <5>1, <5>3
      <4>3. Final(t[2])
        BY <3>3 DEF Final, UrlOf, Cleaned
      <4> QED  BY <1>1, <1>3, <2>1, <3>1, <4>1, <4>2, <4>3
    <3> QED  BY <3>2, <3>3
  <2>6. CASE Analyse(t)
    <3>1. /\ task[t] = "analyse" /\ task'[t] = "persist" /\ UNCHANGED <<pending, unread>>
      BY <1>1, <2>6 DEF Analyse, Go, streamVars
    <3> QED  BY <1>1, <1>3, <2>1, <3>1 DEF TaskInv
  <2>7. CASE Persist(t)
    <3> DEFINE new == {s \in hand[t] : <<UrlOf(t), s>> \notin rows}
    <3>1. /\ task[t] = "persist" /\ task'[t] = (IF new = {} THEN "ack" ELSE "publish")
          /\ rows' = rows \union ({UrlOf(t)} \X new) /\ hand'[t] = new
          /\ hand[t] = {} => Cleaned(t) \in nothing'
          /\ Cleaned(t) \in DOMAIN SourceUrl
      BY <1>1, <2>7 DEF Persist, Go, TypeOK, TaskInv
    <3>2. CASE hand[t] = {}
      BY <2>1, <3>1, <3>2 DEF Final, Closed, Cleaned
    <3>3. ASSUME NEW s \in hand[t]
          PROVE  Final(t[2])'
      <4>1. <<UrlOf(t), s>> \in rows'
        BY <3>1
      <4>2. <<UrlOf(t), s>> \in RowsOf(UrlOf(t))'
        BY <4>1 DEF RowsOf, UrlOf, Cleaned
      <4> QED  BY <4>2 DEF Final, UrlOf, Cleaned
    <3>4. \A s \in new : <<UrlOf(t), s>> \in rows'
      BY <3>1
    <3> QED  BY <2>1, <3>1, <3>2, <3>3, <3>4
  <2>8. CASE Publish(t)
    <3>1. /\ task[t] = "publish" /\ task'[t] \in {"ack", "publish"} /\ hand'[t] \subseteq hand[t]
      BY <1>1, <2>8 DEF Publish, TypeOK
    <3> QED  BY <1>1, <1>3, <2>1, <3>1 DEF TaskInv
  <2>9. CASE \/ RouteToDeadLetter(t) \/ AckDead(t) \/ Skip(t) \/ Dispatch(t) \/ AckDeadFails(t)
             \/ TakeSlot(t) \/ StartWork(t)
    <3>1. task'[t] \in {"bury", "done", "line", "hold", "fetch"}
      BY <1>1, <2>9 DEF RouteToDeadLetter, AckDead, Skip, Dispatch, AckDeadFails, TakeSlot,
         StartWork, Go
    <3> QED  BY <2>2, <3>1
  <2>10. CASE \/ Ack(t) \/ FetchExistingFails(t) \/ AnalysisFails(t) \/ PersistFails(t)
              \/ AckFails(t)
    <3>1. task'[t] = "done"
      BY <1>1, <2>10 DEF Ack, FetchExistingFails, AnalysisFails, PersistFails, AckFails, Finish
    <3> QED  BY <2>2, <3>1
  <2> QED  BY <2>3, <2>4, <2>5, <2>6, <2>7, <2>8, <2>9, <2>10 DEF RouteStep, WorkStep, TaskFails
<1>6. \A u \in Task : UrlOf(u)' = UrlOf(u) /\ Cleaned(u)' = Cleaned(u)
  BY DEF UrlOf, Cleaned
<1> QED  BY <1>4, <1>5, <1>6 DEF TaskInv

LEMMA TaskOwes ==
    ASSUME LayerInv, NEW t \in Task, RouteStep(t) \/ WorkStep(t) \/ TaskFails(t)
    PROVE  RowsOwed'
<1>1. /\ TypeOK /\ GuardExact /\ TaskInv /\ RowsOwed /\ TaskInv'
      /\ task \in [Task -> Stage] /\ hand \in [Task -> SUBSET Stock]
      /\ t[2] \in Message
  BY TaskStages DEF LayerInv, TypeOK, Task
<1>2. /\ \A u \in Task \ {t} : task'[u] = task[u] /\ hand'[u] = hand[u]
      /\ task[t] # "none" /\ unread' = unread
  BY <1>1, TaskMoves
<1>3. /\ dead \subseteq dead' /\ nothing \subseteq nothing'
      /\ rows \subseteq rows' /\ announced \subseteq announced'
      /\ \A m \in Message : Acked(m)' =>
            Acked(m) \/ (m = t[2] /\ task[t] \in {"ack", "buried"})
      /\ \A m \in Message : (Closed(m) => Closed(m)') /\ (Final(m) => Final(m)')
  BY <1>1, ResultsGrow
<1>4. ASSUME NEW row \in rows \ announced', NEW m \in Message, Owes(m, row)
      PROVE  Owes(m, row)'
  <2>1. CASE Closed(m)
    BY <1>3, <1>4, <2>1 DEF Owes
  <2>2. CASE ~ Closed(m)
    <3>1. /\ CleanedOf[m] \in DOMAIN SourceUrl /\ SourceUrl[CleanedOf[m]] = row[1]
          /\ ~ Acked(m)
          /\ \A u \in Task : u[2] = m =>
                /\ task[u] \notin {"analyse", "persist", "ack"}
                /\ task[u] = "publish" => row[2] \in hand[u]
      BY <1>4, <2>2 DEF Owes
    <3>2. \A u \in Task \ {t} : u[2] = m =>
             /\ task'[u] \notin {"analyse", "persist", "ack"}
             /\ task'[u] = "publish" => row[2] \in hand'[u]
      BY <1>2, <3>1
    <3>3. CASE m # t[2]
      <4>1. ~ Acked(m)'
        BY <1>3, <3>1, <3>3
      <4> QED  BY <3>1, <3>2, <3>3, <4>1 DEF Owes
    <3>4. CASE m = t[2] /\ task[t] = "buried"
      BY <1>1, <2>2, <3>4 DEF TaskInv, Closed
    <3>5. CASE m = t[2] /\ task[t] # "buried"
      <4>1. ~ Acked(m)' /\ Cleaned(t) = CleanedOf[m] /\ UrlOf(t) = row[1]
        BY <1>3, <3>1, <3>5 DEF Cleaned, UrlOf
      <4>2. task[t] \notin {"analyse", "persist", "ack"}
        BY <3>1, <3>5
      <4>3. /\ task'[t] \notin {"analyse", "persist", "ack"}
            /\ task'[t] = "publish" => row[2] \in hand'[t]
        <5>1. CASE \/ RouteToDeadLetter(t) \/ AckDead(t) \/ Skip(t) \/ Dispatch(t)
                   \/ AckDeadFails(t) \/ PushDeadLetter(t) \/ TakeSlot(t) \/ StartWork(t)
          BY <1>1, <5>1 DEF RouteToDeadLetter, AckDead, Skip, Dispatch, AckDeadFails,
             PushDeadLetter, TakeSlot, StartWork, Go
        <5>2. CASE FetchCleanedNews(t) \/ FetchCleanedNewsFails(t)
          <6>1. CASE Finish(t)
            <7>1. task'[t] = "done"
              BY <1>1, <6>1 DEF Finish
            <7> QED  BY <7>1
          <6> QED  BY <1>1, <3>1, <4>1, <5>2, <6>1, ReplyMoves
        <5>3. CASE FetchExisting(t)
          <6> DEFINE stocks == {r[2] : r \in RowsOf(UrlOf(t))}
          <6>1. /\ task' = [task EXCEPT ![t] = IF stocks = {} THEN "analyse" ELSE "publish"]
                /\ hand' = [hand EXCEPT ![t] = stocks]
            BY <5>3 DEF FetchExisting, Go
          <6>2. row[2] \in stocks
            BY <4>1 DEF RowsOf
          <6> HIDE DEF stocks
          <6>3. task'[t] = "publish" /\ hand'[t] = stocks
            BY <1>1, <6>1, <6>2
          <6> QED  BY <6>2, <6>3
        <5>4. CASE Publish(t)
          <6>1. PICK s \in hand[t] :
                  /\ announced' = announced \union {<<UrlOf(t), s>>}
                  /\ hand' = [hand EXCEPT ![t] = @ \ {s}]
                  /\ task' = [task EXCEPT ![t] = IF hand[t] = {s} THEN "ack" ELSE "publish"]
                  /\ task[t] = "publish"
            BY <5>4 DEF Publish
          <6>2. row = <<UrlOf(t), row[2]>>
            BY <1>1, <4>1 DEF TypeOK
          <6>3. row[2] \in hand[t] \ {s}
            BY <3>1, <3>5, <6>1, <6>2
          <6>4. hand[t] # {s}
            BY <6>3
          <6>5. task'[t] = "publish" /\ hand'[t] = hand[t] \ {s}
            BY <1>1, <6>1, <6>4
          <6> QED  BY <6>3, <6>5
        <5>5. CASE FetchExistingFails(t)
          BY <1>1, <5>5 DEF FetchExistingFails, Finish
        <5>6. ~ (\/ Analyse(t) \/ Persist(t) \/ Ack(t) \/ AnalysisFails(t) \/ PersistFails(t)
                 \/ AckFails(t))
          BY <4>2 DEF Analyse, Persist, Ack, AnalysisFails, PersistFails, AckFails, Go
        <5> QED  BY <5>1, <5>2, <5>3, <5>4, <5>5, <5>6 DEF RouteStep, WorkStep, TaskFails
      <4> QED  BY <3>1, <3>2, <3>5, <4>1, <4>3 DEF Owes
    <3> QED  BY <3>3, <3>4, <3>5
  <2> QED  BY <2>1, <2>2
<1>5. ASSUME NEW row \in rows' \ rows
      PROVE  Owes(t[2], row)'
  <2>1. /\ task[t] = "persist" /\ UNCHANGED <<pending, unread>>
        /\ \E s \in Stock :
             /\ row = <<UrlOf(t), s>>
             /\ task'[t] = "done" \/ (task'[t] = "publish" /\ s \in hand'[t])
    <3>1. CASE Persist(t)
      <4> DEFINE new == {s \in hand[t] : <<UrlOf(t), s>> \notin rows}
      <4>1. /\ task' = [task EXCEPT ![t] = IF new = {} THEN "ack" ELSE "publish"]
            /\ task[t] = "persist"
            /\ rows' = rows \union ({UrlOf(t)} \X new)
            /\ hand' = [hand EXCEPT ![t] = new]
            /\ UNCHANGED <<pending, unread>>
        BY <3>1 DEF Persist, Go, streamVars
      <4>2. PICK s \in new : row = <<UrlOf(t), s>>
        BY <1>5, <4>1
      <4>3. s \in Stock /\ new # {}
        BY <1>1, <4>2
      <4> HIDE DEF new
      <4>4. task'[t] = "publish" /\ hand'[t] = new
        BY <1>1, <4>1, <4>3
      <4> QED  BY <4>1, <4>2, <4>3, <4>4
    <3>2. CASE PersistFails(t)
      <4>1. /\ task[t] = "persist" /\ UNCHANGED <<pending, unread>>
            /\ rows' \in {rows, rows \union ({UrlOf(t)} \X hand[t])}
            /\ task'[t] = "done"
        BY <1>1, <3>2 DEF PersistFails, Finish, streamVars
      <4>2. PICK s \in hand[t] : row = <<UrlOf(t), s>>
        BY <1>5, <4>1
      <4> QED  BY <1>1, <4>1, <4>2
    <3>3. Persist(t) \/ PersistFails(t) \/ rows' = rows
      BY DEF RouteStep, RouteToDeadLetter, PushDeadLetter, AckDead, Skip, Dispatch,
         WorkStep, TakeSlot, StartWork, FetchCleanedNews, FetchExisting, Analyse, Publish,
         Ack, TaskFails, AckDeadFails, FetchCleanedNewsFails, FetchExistingFails, AnalysisFails,
         AckFails, resultVars
    <3> QED  BY <1>5, <3>1, <3>2, <3>3
  <2>2. /\ Cleaned(t) \in DOMAIN SourceUrl /\ UrlOf(t) = row[1]
        /\ ~ Acked(t[2]) \/ Closed(t[2])
    BY <1>1, <2>1 DEF TaskInv
  <2>3. \A u \in Task \ {t} : u[2] = t[2] =>
           task'[u] \notin {"analyse", "persist", "ack", "publish"}
    BY <1>1, <1>2, <2>1 DEF GuardExact, Works, Held, Cleaned
  <2>4. \A u \in Task : u[2] = t[2] =>
           /\ task'[u] \notin {"analyse", "persist", "ack"}
           /\ task'[u] = "publish" => row[2] \in hand'[u]
    BY <2>1, <2>3
  <2>5. Closed(t[2])' \/ ~ Acked(t[2])'
    BY <1>1, <1>3, <2>1, <2>2
  <2> QED  BY <2>2, <2>4, <2>5 DEF Owes, Cleaned, UrlOf
<1>6. \A row \in rows' \ announced' : \E m \in Message : Owes(m, row)'
  <2> SUFFICES ASSUME NEW row \in rows' \ announced'
               PROVE  \E m \in Message : Owes(m, row)'
    OBVIOUS
  <2>1. CASE row \in rows
    <3>1. PICK m \in Message : Owes(m, row)
      BY <1>1, <1>3, <2>1 DEF RowsOwed
    <3> QED  BY <1>4, <2>1, <3>1
  <2>2. CASE row \notin rows
    BY <1>1, <1>5, <2>2
  <2> QED  BY <2>1, <2>2
<1> QED  BY <1>6 DEF RowsOwed

LEMMA TaskTypes ==
    ASSUME LayerInv, NEW t \in Task, RouteStep(t) \/ WorkStep(t) \/ TaskFails(t)
    PROVE  TypeOK'
<1>1. /\ TypeOK /\ TaskInv /\ t[2] \in Message
      /\ task \in [Task -> Stage] /\ hand \in [Task -> SUBSET Stock]
  BY DEF LayerInv, TypeOK, Task
<1>2. /\ task' \in [Task -> Stage] /\ UNCHANGED <<unread, deliveries, stops>>
      /\ task[t] # "none" /\ t[2] \notin unread
  BY <1>1, TaskMoves DEF TaskInv
<1>3. pending' \subseteq pending /\ dead' \subseteq dead \union {t[2]}
  BY DEF RouteStep, RouteToDeadLetter, PushDeadLetter, AckDead, Skip, Dispatch,
     WorkStep, TakeSlot, StartWork, FetchCleanedNews, FetchExisting, Analyse, Persist, Publish,
     Ack, TaskFails, AckDeadFails, FetchCleanedNewsFails, FetchExistingFails, AnalysisFails,
     PersistFails, AckFails, streamVars
<1>4. line' \in Seq(Task)
  <2>1. line \in Seq(Task)
    BY <1>1 DEF TypeOK
  <2>2. \/ line' = line
        \/ line' = Append(line, t)
        \/ line # <<>> /\ line' = Tail(line)
    BY DEF RouteStep, RouteToDeadLetter, PushDeadLetter, AckDead, Skip, Dispatch,
       WorkStep, TakeSlot, StartWork, FetchCleanedNews, FetchExisting, Analyse, Persist, Publish,
       Ack, TaskFails, AckDeadFails, FetchCleanedNewsFails, FetchExistingFails, AnalysisFails,
       PersistFails, AckFails, poolVars, Finish, Receives
  <2> QED  BY <2>1, <2>2, HeadTailProperties, AppendProperties
<1>5. hand' \in [Task -> SUBSET Stock]
  <2>1. \/ hand' = hand
        \/ \E stocks \in SUBSET Stock : hand' = [hand EXCEPT ![t] = stocks]
    <3>1. CASE FetchExisting(t)
      <4>1. {row[2] : row \in RowsOf(UrlOf(t))} \in SUBSET Stock
        BY <1>1 DEF TypeOK, RowsOf
      <4> QED  BY <3>1, <4>1 DEF FetchExisting
    <3>2. CASE Persist(t)
      <4>1. {s \in hand[t] : <<UrlOf(t), s>> \notin rows} \in SUBSET Stock
        BY <1>1
      <4> QED  BY <3>2, <4>1 DEF Persist
    <3>3. CASE Publish(t)
      <4>1. PICK s \in hand[t] : hand' = [hand EXCEPT ![t] = hand[t] \ {s}]
        BY <3>3 DEF Publish
      <4>2. hand[t] \ {s} \in SUBSET Stock
        BY <1>1
      <4> QED  BY <4>1, <4>2
    <3>4. CASE ~ FetchExisting(t) /\ ~ Persist(t) /\ ~ Publish(t)
      <4>1. hand' = hand \/ hand' = [hand EXCEPT ![t] = {}]
               \/ \E stocks \in SUBSET Stock : hand' = [hand EXCEPT ![t] = stocks]
        BY <3>4 DEF RouteStep, RouteToDeadLetter, PushDeadLetter, AckDead, Skip, Dispatch,
           WorkStep, TakeSlot, StartWork, FetchCleanedNews, Analyse,
           Ack, TaskFails, AckDeadFails, FetchCleanedNewsFails, FetchExistingFails,
           AnalysisFails, PersistFails, AckFails, Go, Finish, Receives
      <4>2. {} \in SUBSET Stock
        OBVIOUS
      <4> QED  BY <4>1, <4>2
    <3> QED  BY <3>1, <3>2, <3>3, <3>4
  <2> QED  BY <1>1, <2>1
<1>6. processing' \subseteq {CleanedOf[m] : m \in Message}
  <2>1. processing' \subseteq processing \union {Cleaned(t)}
    BY DEF RouteStep, RouteToDeadLetter, PushDeadLetter, AckDead, Skip, Dispatch,
       WorkStep, TakeSlot, StartWork, FetchCleanedNews, FetchExisting, Analyse, Persist, Publish,
       Ack, TaskFails, AckDeadFails, FetchCleanedNewsFails, FetchExistingFails, AnalysisFails,
       PersistFails, AckFails, poolVars, Finish, Receives
  <2> QED  BY <1>1, <2>1 DEF TypeOK, Cleaned
<1>7. backoff' \in BOOLEAN /\ listLoaded' = listLoaded
  <2>1. listLoaded' = listLoaded
    BY DEF RouteStep, RouteToDeadLetter, PushDeadLetter, AckDead, Skip, Dispatch,
       WorkStep, TakeSlot, StartWork, FetchCleanedNews, FetchExisting, Analyse, Persist, Publish,
       Ack, TaskFails, AckDeadFails, FetchCleanedNewsFails, FetchExistingFails, AnalysisFails,
       PersistFails, AckFails, poolVars, Finish, Receives
  <2>2. backoff' = backoff \/ AnalysisFails(t)
    BY DEF RouteStep, RouteToDeadLetter, PushDeadLetter, AckDead, Skip, Dispatch,
       WorkStep, TakeSlot, StartWork, FetchCleanedNews, FetchExisting, Analyse, Persist, Publish,
       Ack, TaskFails, AckDeadFails, FetchCleanedNewsFails, FetchExistingFails,
       PersistFails, AckFails, poolVars
  <2>3. backoff \in BOOLEAN
    BY <1>1, Zenon DEF TypeOK
  <2>4. AnalysisFails(t) => backoff' \in BOOLEAN
    BY Zenon DEF AnalysisFails
  <2> QED  BY <2>1, <2>2, <2>3, <2>4, Zenon
<1>8. rows' \subseteq Url \X Stock
  <2>1. CASE task[t] # "persist"
    <3>1. rows' = rows
      BY <2>1 DEF RouteStep, RouteToDeadLetter, PushDeadLetter, AckDead, Skip, Dispatch,
         WorkStep, TakeSlot, StartWork, FetchCleanedNews, FetchExisting, Analyse, Persist,
         Publish, Ack, TaskFails, AckDeadFails, FetchCleanedNewsFails, FetchExistingFails,
         AnalysisFails, PersistFails, AckFails, Go, resultVars
    <3> QED  BY <1>1, <3>1 DEF TypeOK
  <2>2. CASE task[t] = "persist"
    <3>1. UrlOf(t) \in Url
      BY <1>1, <2>2 DEF TaskInv, UrlOf, Url
    <3>2. rows' \subseteq rows \union ({UrlOf(t)} \X hand[t])
      BY DEF RouteStep, RouteToDeadLetter, PushDeadLetter, AckDead, Skip, Dispatch,
         WorkStep, TakeSlot, StartWork, FetchCleanedNews, FetchExisting, Analyse, Persist,
         Publish, Ack, TaskFails, AckDeadFails, FetchCleanedNewsFails, FetchExistingFails,
         AnalysisFails, PersistFails, AckFails, resultVars
    <3> QED  BY <1>1, <3>1, <3>2 DEF TypeOK
  <2> QED  BY <2>1, <2>2
<1>9. announced' \subseteq rows'
  <2>1. rows \subseteq rows' /\ announced \subseteq rows
    BY <1>1, ResultsGrow DEF TypeOK
  <2>2. CASE Publish(t)
    BY <1>1, <2>1, <2>2 DEF Publish, TaskInv
  <2>3. announced' = announced \/ Publish(t)
    BY DEF RouteStep, RouteToDeadLetter, PushDeadLetter, AckDead, Skip, Dispatch,
       WorkStep, TakeSlot, StartWork, FetchCleanedNews, FetchExisting, Analyse, Persist,
       Ack, TaskFails, AckDeadFails, FetchCleanedNewsFails, FetchExistingFails, AnalysisFails,
       PersistFails, AckFails, resultVars
  <2> QED  BY <2>1, <2>2, <2>3
<1>10. nothing' \subseteq DOMAIN SourceUrl
  <2>1. nothing' = nothing \/ Persist(t)
    BY DEF RouteStep, RouteToDeadLetter, PushDeadLetter, AckDead, Skip, Dispatch,
       WorkStep, TakeSlot, StartWork, FetchCleanedNews, FetchExisting, Analyse, Publish,
       Ack, TaskFails, AckDeadFails, FetchCleanedNewsFails, FetchExistingFails, AnalysisFails,
       PersistFails, AckFails, resultVars
  <2>2. CASE Persist(t)
    BY <1>1, <2>2 DEF Persist, Go, TaskInv, TypeOK
  <2> QED  BY <1>1, <2>1, <2>2 DEF TypeOK
<1>11. faults' \in 0..MaxFaults
  <2>1. \/ faults' = faults
        \/ faults < MaxFaults /\ faults' = faults + 1
    BY DEF RouteStep, RouteToDeadLetter, PushDeadLetter, AckDead, Skip, Dispatch,
       WorkStep, TakeSlot, StartWork, FetchCleanedNews, FetchExisting, Analyse, Persist, Publish,
       Ack, TaskFails, AckDeadFails, FetchCleanedNewsFails, FetchExistingFails, AnalysisFails,
       PersistFails, AckFails, Fault
  <2>2. faults \in 0..MaxFaults /\ MaxFaults \in Nat
    BY <1>1, EntityAnalysisAssumption DEF TypeOK
  <2> QED  BY <2>1, <2>2
<1>12. {backoff', listLoaded'} \subseteq BOOLEAN
  <2>1. listLoaded \in BOOLEAN
    BY <1>1, Zenon DEF TypeOK
  <2>2. listLoaded' \in BOOLEAN
    BY <1>7, <2>1, Zenon
  <2> QED  BY <1>7, <2>2, Zenon
<1>13. /\ unread' \subseteq Message /\ pending' \subseteq Message \ unread'
       /\ deliveries' \in [Message -> 0..MAX_RETRY] /\ dead' \subseteq Message \ unread'
       /\ stops' \in 0..MaxStops
  BY <1>1, <1>2, <1>3 DEF TypeOK
<1> QED  BY <1>2, <1>4, <1>5, <1>6, <1>8, <1>9, <1>10, <1>11, <1>12, <1>13 DEF TypeOK

-----------------------------------------------------------------------------
(***************************************************************************)
(* The steps of the loops and of the layer, which start tasks or end them. *)
(***************************************************************************)
LEMMA LoopMoves ==
    ASSUME LayerInv, UNCHANGED <<dead, resultVars>>,
           \A m \in Message : Acked(m)' <=> Acked(m),
           \A u \in Task : \/ task'[u] = task[u] /\ hand'[u] = hand[u]
                           \/ task'[u] = "none"
                           \/ task'[u] = "route" /\ u[2] \notin unread',
           unread' \subseteq unread
    PROVE  TaskInv' /\ AckedIsFinal' /\ RowsOwed'
<1>1. /\ TaskInv /\ AckedIsFinal /\ RowsOwed
      /\ \A u \in Task : u[2] \in Message
  BY DEF LayerInv, Task
<1>2. UNCHANGED <<rows, announced, nothing>>
  BY DEF resultVars
<1>3. \A m \in Message : (Closed(m)' <=> Closed(m)) /\ (Final(m)' <=> Final(m))
  BY <1>2 DEF Closed, Final, RowsOf
<1>4. TaskInv'
  BY <1>1, <1>2, <1>3 DEF TaskInv, UrlOf, Cleaned
<1>5. AckedIsFinal'
  BY <1>1, <1>3 DEF AckedIsFinal, Final, Closed
<1>6. ASSUME NEW row \in rows \ announced, NEW m \in Message, Owes(m, row)
      PROVE  Owes(m, row)'
  BY <1>3, <1>6 DEF Owes
<1>7. RowsOwed'
  BY <1>1, <1>2, <1>6 DEF RowsOwed
<1> QED  BY <1>4, <1>5, <1>7

LEMMA DeliverMoves ==
    ASSUME LayerInv, NEW batch \in Batch(unread) \union Batch(pending), Deliver(batch)
    PROVE  /\ unread' \subseteq unread /\ dead' = dead /\ batch \subseteq Message \ unread'
           /\ unread' \subseteq Message /\ pending' \subseteq Message \ unread'
           /\ deliveries' \in [Message -> 0..MAX_RETRY] /\ dead' \subseteq Message \ unread'
           /\ \A m \in Message : Acked(m)' <=> Acked(m)
<1>1. /\ unread \subseteq Message /\ pending \subseteq Message \ unread
      /\ dead \subseteq Message \ unread /\ (batch \subseteq unread \/ batch \subseteq pending)
      /\ deliveries \in [Message -> 0..MAX_RETRY] /\ MAX_RETRY \in Nat
  BY EntityAnalysisAssumption DEF LayerInv, TypeOK, Batch
<1>2. /\ unread' = unread \ batch /\ pending' = pending \union batch /\ dead' = dead
      /\ deliveries' = [m \in Message |->
            IF m \in batch /\ deliveries[m] < MAX_RETRY THEN deliveries[m] + 1 ELSE deliveries[m]]
  BY DEF Deliver
<1>3. deliveries' \in [Message -> 0..MAX_RETRY]
  <2>1. \A m \in Message :
           (IF m \in batch /\ deliveries[m] < MAX_RETRY THEN deliveries[m] + 1 ELSE deliveries[m])
             \in 0..MAX_RETRY
    BY <1>1
  <2> QED  BY <1>2, <2>1
<1>4. \A m \in Message : Acked(m)' <=> Acked(m)
  BY <1>1, <1>2 DEF Acked
<1> QED  BY <1>1, <1>2, <1>3, <1>4

(* What a loop that reads or claims a batch leaves of the types.           *)
LEMMA LoopTypes ==
    ASSUME TypeOK, unread' \subseteq Message, pending' \subseteq Message \ unread',
           deliveries' \in [Message -> 0..MAX_RETRY], dead' \subseteq Message \ unread',
           task' \in [Task -> Stage], faults' = faults \/ Fault,
           UNCHANGED <<hand, poolVars, resultVars, stops>>
    PROVE  TypeOK'
<1>1. faults' \in 0..MaxFaults
  BY EntityAnalysisAssumption DEF TypeOK, Fault
<1> QED  BY <1>1 DEF TypeOK, poolVars, resultVars

LEMMA ReadStep ==
    ASSUME LayerInv, Read \/ ReadFails \/ Claim \/ ClaimFails
    PROVE  LayerInv'
<1>1. PICK l \in Loop, batch \in Batch(unread) \union Batch(pending) :
        /\ Idle(l) /\ Deliver(batch)
        /\ Routing(l, batch) \/ UNCHANGED task
  <2>1. Read \/ ReadFails => \E batch \in Batch(unread) :
          Idle(Consumer) /\ Deliver(batch) /\ (Routing(Consumer, batch) \/ UNCHANGED task)
    BY DEF Read, ReadFails
  <2>2. Claim \/ ClaimFails => \E batch \in Batch(pending) :
          Idle(Reclaimer) /\ Deliver(batch) /\ (Routing(Reclaimer, batch) \/ UNCHANGED task)
    BY DEF Claim, ClaimFails
  <2> QED  BY <2>1, <2>2 DEF Loop
<1>2. /\ UNCHANGED <<hand, poolVars, resultVars, stops>>
      /\ faults' = faults \/ Fault
  BY DEF Read, ReadFails, Claim, ClaimFails
<1>3. /\ unread' \subseteq unread /\ dead' = dead /\ batch \subseteq Message \ unread'
      /\ unread' \subseteq Message /\ pending' \subseteq Message \ unread'
      /\ deliveries' \in [Message -> 0..MAX_RETRY] /\ dead' \subseteq Message \ unread'
      /\ \A m \in Message : Acked(m)' <=> Acked(m)
  BY <1>1, DeliverMoves
<1>4. /\ TypeOK /\ GuardExact /\ task \in [Task -> Stage]
      /\ \A u \in Task : u = <<u[1], u[2]>> /\ u[1] \in Loop /\ u[2] \in Message
  BY DEF LayerInv, TypeOK, Task
<1>5. \A u \in Task : \/ task'[u] = task[u]
                      \/ task'[u] = "route" /\ task[u] = "none" /\ u[2] \notin unread'
  <2>1. CASE UNCHANGED task
    BY <2>1
  <2>2. CASE Routing(l, batch)
    <3> SUFFICES ASSUME NEW u \in Task
                 PROVE  \/ task'[u] = task[u]
                        \/ task'[u] = "route" /\ task[u] = "none" /\ u[2] \notin unread'
      OBVIOUS
    <3>1. CASE u[1] = l /\ u[2] \in batch
      <4>1. task[u] = "none"
        BY <1>1, <1>4, <3>1 DEF Idle
      <4> QED  BY <1>3, <2>2, <3>1, <4>1 DEF Routing
    <3>2. CASE ~ (u[1] = l /\ u[2] \in batch)
      BY <2>2, <3>2 DEF Routing
    <3> QED  BY <3>1, <3>2
  <2> QED  BY <1>1, <2>1, <2>2
<1>6. task' \in [Task -> Stage]
  BY <1>1, <1>4 DEF Routing, Stage
<1>7. GuardExact'
  <2>1. \A u \in Task : Works(u)' <=> Works(u)
    BY <1>5 DEF Works, Held
  <2> QED  BY <1>2, <1>4, <2>1 DEF GuardExact, Cleaned, poolVars
<1>8. TypeOK'
  BY <1>2, <1>3, <1>4, <1>6, LoopTypes
<1>9. TaskInv' /\ AckedIsFinal' /\ RowsOwed'
  BY <1>2, <1>3, <1>5, LoopMoves
<1> QED  BY <1>7, <1>8, <1>9 DEF LayerInv

LEMMA EndBatchStep ==
    ASSUME LayerInv, NEW l \in Loop, EndBatch(l)
    PROVE  LayerInv'
<1>1. /\ TypeOK /\ GuardExact /\ task \in [Task -> Stage]
      /\ \A u \in Task : u = <<u[1], u[2]>> /\ u[1] \in Loop /\ u[2] \in Message
  BY DEF LayerInv, TypeOK, Task
<1>2. /\ task' = [u \in Task |-> IF u[1] = l THEN "none" ELSE task[u]]
      /\ \A m \in Message : task[<<l, m>>] \in {"none", "done"}
      /\ UNCHANGED <<streamVars, hand, poolVars, resultVars, faults, stops>>
  BY DEF EndBatch
<1>3. \A u \in Task : task'[u] = task[u]
                      \/ (task'[u] = "none" /\ task[u] \in {"none", "done"})
  BY <1>1, <1>2
<1>4. GuardExact'
  <2>1. \A u \in Task : Works(u)' <=> Works(u)
    BY <1>3 DEF Works, Held
  <2> QED  BY <1>1, <1>2, <2>1 DEF GuardExact, Cleaned, poolVars
<1>5. TypeOK'
  <2>1. task' \in [Task -> Stage]
    BY <1>1, <1>2 DEF Stage
  <2> QED  BY <1>1, <1>2, <2>1 DEF TypeOK, streamVars, poolVars, resultVars
<1>6. UNCHANGED <<unread, pending, dead, hand>>
  BY <1>2 DEF streamVars
<1>7. TaskInv' /\ AckedIsFinal' /\ RowsOwed'
  BY <1>2, <1>3, <1>6, LoopMoves DEF Acked
<1> QED  BY <1>4, <1>5, <1>7 DEF LayerInv

LEMMA StopStep ==
    ASSUME LayerInv, Stop
    PROVE  LayerInv'
<1>1. TypeOK
  BY DEF LayerInv
<1>2. /\ task' = [t \in Task |-> "none"] /\ hand' = [t \in Task |-> {}]
      /\ line' = <<>> /\ processing' = {}
      /\ UNCHANGED <<streamVars, resultVars, faults>>
      /\ stops < MaxStops /\ stops' = stops + 1
  BY DEF Stop
<1>3. GuardExact'
  BY <1>2 DEF GuardExact, Works, Held
<1>4. UNCHANGED <<unread, pending, dead>>
  BY <1>2 DEF streamVars
<1>5. TaskInv' /\ AckedIsFinal' /\ RowsOwed'
  BY <1>2, <1>4, LoopMoves DEF Acked
<1>6. TypeOK'
  <2>1. line' \in Seq(Task)
    BY <1>2, EmptySeq
  <2>2. task' \in [Task -> Stage] /\ hand' \in [Task -> SUBSET Stock]
    BY <1>2 DEF Stage
  <2>3. stops' \in 0..MaxStops
    BY <1>1, <1>2, EntityAnalysisAssumption DEF TypeOK
  <2>4. {backoff', listLoaded'} \subseteq BOOLEAN
    <3>1. backoff \in BOOLEAN /\ listLoaded \in BOOLEAN
      BY <1>1, Zenon DEF TypeOK
    <3>2. backoff' \in BOOLEAN /\ listLoaded' \in BOOLEAN
      BY <3>1, Zenon DEF Stop
    <3> QED  BY <3>2, Zenon
  <2> QED  BY <1>1, <1>2, <2>1, <2>2, <2>3, <2>4 DEF TypeOK, streamVars, resultVars
<1> QED  BY <1>3, <1>5, <1>6 DEF LayerInv

(* The end of a back-off and the loading of the list.                      *)
LEMMA PoolStep ==
    ASSUME LayerInv, EndBackoff \/ LoadList \/ UNCHANGED vars
    PROVE  LayerInv'
<1>1. TypeOK /\ GuardExact
  BY DEF LayerInv
<1>2. UNCHANGED <<streamVars, task, hand, line, processing, resultVars, faults, stops>>
  BY DEF EndBackoff, LoadList, vars, poolVars
<1>3. GuardExact'
  BY <1>1, <1>2 DEF GuardExact, Works, Cleaned
<1>4. UNCHANGED <<unread, pending, dead>>
  BY <1>2 DEF streamVars
<1>5. TaskInv' /\ AckedIsFinal' /\ RowsOwed'
  BY <1>2, <1>4, LoopMoves DEF Acked
<1>6. {backoff', listLoaded'} \subseteq BOOLEAN
  <2>1. backoff \in BOOLEAN /\ listLoaded \in BOOLEAN
    BY <1>1, Zenon DEF TypeOK
  <2>2. backoff' \in BOOLEAN /\ listLoaded' \in BOOLEAN
    BY <2>1, Zenon DEF EndBackoff, LoadList, vars, poolVars
  <2> QED  BY <2>2, Zenon
<1>7. TypeOK'
  BY <1>1, <1>2, <1>6 DEF TypeOK, streamVars, resultVars
<1> QED  BY <1>3, <1>5, <1>7 DEF LayerInv

LEMMA LayerInductive == LayerInv /\ [Next]_vars => LayerInv'
<1> SUFFICES ASSUME LayerInv, [Next]_vars PROVE LayerInv'
  OBVIOUS
<1>1. CASE Read \/ ReadFails \/ Claim \/ ClaimFails
  BY <1>1, ReadStep
<1>2. CASE \E l \in Loop : EndBatch(l)
  BY <1>2, EndBatchStep
<1>3. CASE Stop
  BY <1>3, StopStep
<1>4. CASE EndBackoff \/ LoadList \/ UNCHANGED vars
  BY <1>4, PoolStep
<1>5. CASE \E t \in Task : RouteStep(t) \/ WorkStep(t) \/ TaskFails(t)
  BY <1>5, TaskGuard, TaskFinal, TaskStages, TaskOwes, TaskTypes DEF LayerInv
<1> QED  BY <1>1, <1>2, <1>3, <1>4, <1>5 DEF Next

LEMMA LayerAlways == Spec => []LayerInv
BY LayerInit, LayerInductive, PTL DEF Spec

(* Every variable keeps its type: in particular what is announced is       *)
(* stored, and what is given up or dead was delivered (find_entity_events, *)
(* _push_dead_letter).                                                     *)
THEOREM TypeCorrect == Spec => []TypeOK
BY LayerAlways, Consequences, PTL

(* One task at a time works on a cleaned_id, and _processing_cleaned_ids   *)
(* holds exactly those worked on, whatever is redelivered, fails or stops  *)
(* (dispatch).                                                             *)
THEOREM ProcessedOnce == Spec => []InFlightOnce
BY LayerAlways, Consequences, PTL

(* No message is acknowledged before its outcome is final (_process_one).  *)
THEOREM AckedWasFinal == Spec => []AckedIsFinal
BY LayerAlways, Consequences, PTL

(* No stored EntityEvent is forgotten before it was announced, but by a    *)
(* dead letter or by an analysis that found no stock (find_entity_events). *)
THEOREM StoredWasOwed == Spec => []StoredIsOwed
BY LayerAlways, Consequences, PTL
=============================================================================
