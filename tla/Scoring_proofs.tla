--------------------------- MODULE Scoring_proofs ---------------------------
(***************************************************************************)
(* Proofs about the Scoring layer, for every set of Events, batch size and *)
(* number of failures.                                                     *)
(***************************************************************************)
EXTENDS Scoring, TLAPS

USE VersionAssumption, ScoringAssumption DEF VersionAssumption, ScoringAssumption

(* What is marked was announced, and what was announced was stored.        *)
Ordered ==
    /\ \A e \in Event : published[e] <= announced[e] /\ announced[e] <= version[e]
    /\ \A i \in DOMAIN stream : stream[i].event \in Event =>
         stream[i].ver <= version[stream[i].event]

AnnouncedVersion == stream[Head(batch)].ver

(* A message is in hand at every await but the read, and until it is to be *)
(* acknowledged its Event is a stored one.                                 *)
Working ==
    /\ pc \in {"constituents", "persist", "publish", "ack"} => batch # <<>>
    /\ pc \in {"constituents", "persist", "publish"} => Current \in Event

(* What the task knows at each of its awaits.                              *)
Task ==
    /\ pc \in {"constituents", "persist", "publish"} =>
         AnnouncedVersion <= expected /\ expected <= version[Current]
    /\ pc = "persist" => expected <= constituents /\ constituents <= version[Current]
    /\ pc = "publish" => score[Current].ver = expected
    /\ pc = "ack" /\ Current \in Event /\ AnnouncedVersion = version[Current] =>
         UpToDate(Current)

(* OutdatedIsOwed, with what is announced but not marked left to the      *)
(* message of the announcement.                                            *)
Owed ==
    \A e \in Event : UpToDate(e) \/ announced[e] < version[e] \/ Unsettled(e) # {}

TypeInv == TypeOK /\ Working

IInv == TypeInv /\ Ordered /\ Task /\ ScoreOfOneVersion /\ Owed

(* The message in hand is one that was delivered.                          *)
LEMMA InHand ==
    ASSUME TypeOK, batch # <<>>
    PROVE  /\ Head(batch) \in 1..delivered
           /\ Head(batch) \in DOMAIN stream
           /\ stream[Head(batch)] \in Message
           /\ Tail(batch) \in Seq(1..delivered)
           /\ Head(batch) \in Pending
  BY DEF TypeOK, Pending

(* A message sent leaves those before it alone.                            *)
LEMMA Appended ==
    ASSUME TypeOK, NEW m \in Message, stream' = Append(stream, m)
    PROVE  /\ stream' \in Seq(Message)
           /\ Len(stream') = Len(stream) + 1
           /\ DOMAIN stream' = DOMAIN stream \union {Len(stream')}
           /\ \A i \in DOMAIN stream : stream'[i] = stream[i]
           /\ stream'[Len(stream')] = m
           /\ Len(stream') \notin DOMAIN stream /\ Len(stream') \notin acked
  BY DEF TypeOK

LEMMA PendingDelivered ==
    ASSUME TypeOK
    PROVE  Pending \subseteq 1..delivered
  BY DEF TypeOK, Pending

-----------------------------------------------------------------------------
LEMMA TypeInit == ScoringInit => TypeInv
  BY DEF ScoringInit, Init, TypeInv, TypeOK, Working

LEMMA TypeStep == TypeInv /\ [ScoringNext]_vars => TypeInv'
<1> SUFFICES ASSUME TypeInv, [ScoringNext]_vars
             PROVE  TypeOK' /\ Working'
  BY DEF TypeInv
<1>a. TypeOK /\ Working
  BY DEF TypeInv
<1>b. batch # <<>> =>
        /\ Head(batch) \in 1..delivered /\ Tail(batch) \in Seq(1..delivered)
        /\ Head(batch) \in DOMAIN stream /\ stream[Head(batch)] \in Message
  BY <1>a, InHand
<1>c. Pending \subseteq 1..delivered
  BY <1>a, PendingDelivered
<1> USE DEF TypeOK, Working, feed, locals, tables, bounds
<1>1. CASE UNCHANGED vars
  BY <1>a, <1>1 DEF vars, Current
<1>2. CASE Reaggregate
  BY <1>a, <1>2 DEF Reaggregate, Persist, Current
<1>3. ASSUME NEW e \in Event, AnnounceEvent(e) \/ AnnounceAgain(e)
      PROVE  TypeOK' /\ Working'
  <2>1. [event |-> e, ver |-> version[e]] \in Message
    BY <1>a DEF Message
  <2>2. Send(e) /\ (UNCHANGED faults \/ Fault)
    BY <1>3 DEF AnnounceEvent, AnnounceAgain
  <2>3. /\ stream' \in Seq(Message) /\ Len(stream') = Len(stream) + 1
        /\ \A i \in DOMAIN stream : stream'[i] = stream[i]
    BY <1>a, <2>1, <2>2, Appended DEF Send
  <2>4. batch' = batch /\ (batch # <<>> => Current' = Current)
    BY <1>b, <2>2, <2>3 DEF Send, Current
  <2>5. Working'
    BY <1>a, <2>2, <2>4 DEF Send, Announce
  <2>6. /\ announced' \in [Event -> Version]
        /\ faults' \in Nat
        /\ UNCHANGED <<version, published, delivered, acked, batch, pc, expected, constituents,
                       score, signalled, stranded, persists>>
    BY <1>a, <2>2 DEF Send, Announce, Fault
  <2> QED  BY <1>a, <2>3, <2>5, <2>6
<1>4. ASSUME NEW e \in Event, MarkEvent(e)
      PROVE  TypeOK' /\ Working'
  BY <1>a, <1>4 DEF MarkEvent, Mark, Current
<1>5. ASSUME NEW x \in Stray, SendStray(x)
      PROVE  TypeOK' /\ Working'
  <2>1. [event |-> x, ver |-> 0] \in Message
    BY DEF Message
  <2>2. /\ stream' \in Seq(Message) /\ Len(stream') = Len(stream) + 1
        /\ \A i \in DOMAIN stream : stream'[i] = stream[i]
    BY <1>a, <1>5, <2>1, Appended DEF SendStray
  <2>3. batch' = batch /\ (batch # <<>> => Current' = Current)
    BY <1>b, <1>5, <2>2 DEF SendStray, Current
  <2> QED  BY <1>a, <1>5, <2>2, <2>3 DEF SendStray
<1>6. CASE Read
  <2> PICK n \in Batches : /\ batch' = [i \in 1..n |-> delivered + i]
                           /\ delivered' = delivered + n
    BY <1>6 DEF Read
  <2>1. n \in Nat /\ delivered + n \in 0..Len(stream) /\ delivered \in Nat
    BY <1>a DEF Batches
  <2>2. batch' \in Seq(1..delivered')
    BY <2>1
  <2> QED  BY <1>a, <1>6, <2>1, <2>2 DEF Read
<1>7. CASE SkipInvalid
  BY <1>a, <1>b, <1>7 DEF SkipInvalid, Proceed, Leave
<1>8. CASE Ack
  BY <1>a, <1>b, <1>8 DEF Ack, Proceed, Leave
<1>16. CASE CallFails
  <2>1. faults' \in Nat
    BY <1>a, <1>16 DEF CallFails, Fault
  <2>2. batch' \in Seq(1..delivered') /\ stranded' \subseteq 1..delivered'
    BY <1>a, <1>b, <1>16 DEF CallFails, Proceed
  <2> QED  BY <1>a, <1>16, <2>1, <2>2 DEF CallFails, Proceed, Leave
<1>17. CASE FetchEvent
  <2>1. Current \in Event /\ version[Current] \in Version /\ Current' = Current
    BY <1>a, <1>17 DEF FetchEvent, Current
  <2> QED  BY <1>a, <1>17, <2>1 DEF FetchEvent
<1>18. CASE FindNoEvent
  BY <1>a, <1>18 DEF FindNoEvent
<1>9. CASE FetchConstituents
  BY <1>a, <1>9 DEF FetchConstituents, Current
<1>10. CASE PersistScore
  <2>1. Current \in Event /\ Current' = Current
    BY <1>a, <1>10 DEF PersistScore, Current
  <2>2. score' \in [Event -> [ver : Version, of : Version]]
    BY <1>a, <1>10 DEF PersistScore, WriteScore
  <2> QED  BY <1>a, <1>10, <2>1, <2>2 DEF PersistScore
<1>19. CASE SkipStale
  BY <1>a, <1>19 DEF SkipStale
<1>11. CASE PublishScored
  BY <1>a, <1>11 DEF PublishScored, Current
<1>12. CASE WriteReplyLost
  <2>1. score' \in [Event -> [ver : Version, of : Version]] /\ batch # <<>>
    BY <1>a, <1>12 DEF WriteReplyLost, WriteScore
  <2>2. CASE UNCHANGED <<batch, pc, locals, stranded>>
    BY <1>a, <1>12, <2>1, <2>2 DEF WriteReplyLost, Fault, Current
  <2>3. CASE stranded' = stranded \union {Head(batch)} /\ Proceed
    <3>1. faults' \in Nat
      BY <1>a, <1>12 DEF WriteReplyLost, Fault
    <3>2. batch' \in Seq(1..delivered') /\ stranded' \subseteq 1..delivered'
      BY <1>a, <1>b, <1>12, <2>1, <2>3 DEF WriteReplyLost, Proceed
    <3> QED  BY <1>a, <1>12, <2>1, <2>3, <3>1, <3>2 DEF WriteReplyLost, Proceed, Leave
  <2> QED  BY <1>12, <2>2, <2>3 DEF WriteReplyLost
<1>13. CASE AckFails
  <2>1. faults' \in Nat
    BY <1>a, <1>13 DEF AckFails, Fault
  <2>2. acked' \subseteq 1..delivered' /\ stranded' \subseteq 1..delivered'
    <3>1. UNCHANGED acked \/ acked' = acked \union {Head(batch)}
      BY <1>13 DEF AckFails
    <3> QED  BY <1>a, <1>b, <1>c, <1>13, <3>1 DEF AckFails
  <2> QED  BY <1>a, <1>13, <2>1, <2>2 DEF AckFails, Leave
<1>20. CASE Restart
  BY <1>a, <1>c, <1>20 DEF Restart, Fault, Leave
<1>14. CASE ReadReplyLost
  BY <1>a, <1>14 DEF ReadReplyLost, Batches, Fault
<1>15. CASE ReadRaises
  BY <1>a, <1>15 DEF ReadRaises, Fault
<1> QED
  BY <1>1, <1>2, <1>3, <1>4, <1>5, <1>6, <1>7, <1>8, <1>9, <1>10, <1>11, <1>12, <1>13,
     <1>14, <1>15, <1>16, <1>17, <1>18, <1>19, <1>20 DEF ScoringNext, ScoringStep
-----------------------------------------------------------------------------
LEMMA Numbers ==
    ASSUME TypeOK
    PROVE  /\ \A e \in Event : /\ version[e] \in Nat /\ announced[e] \in Nat
                               /\ published[e] \in Nat /\ score[e].ver \in Nat
           /\ \A i \in DOMAIN stream : stream[i] \in Message /\ stream[i].ver \in Nat
           /\ expected \in Nat /\ constituents \in Nat
<1>1. \A v \in Version : v \in Nat
  OBVIOUS
<1>2. \A e \in Event : /\ version[e] \in Version /\ announced[e] \in Version
                       /\ published[e] \in Version /\ score[e].ver \in Version
  BY DEF TypeOK
<1>3. \A i \in DOMAIN stream : stream[i] \in Message
  BY DEF TypeOK
<1>4. \A m \in Message : m.ver \in Version
  BY DEF Message
<1> QED  BY <1>1, <1>2, <1>3, <1>4 DEF TypeOK

(* Neither the task nor its failures touch the feed and the stream.        *)
TaskStep ==
    \/ ScoringStep
    \/ CallFails \/ WriteReplyLost \/ AckFails \/ ReadReplyLost \/ ReadRaises \/ Restart

LEMMA TaskIsQuiet == TaskStep => UNCHANGED <<feed, stream>>
  BY DEF TaskStep, ScoringStep, Read, SkipInvalid, Ack, FetchEvent, FindNoEvent,
     FetchConstituents, PersistScore, SkipStale, PublishScored, CallFails, WriteReplyLost,
     AckFails, ReadReplyLost, ReadRaises, Restart

(* What the others do: rows move to later versions, messages are added.    *)
LEMMA OthersOnlyAdd ==
    ASSUME TypeInv,
           \/ Reaggregate
           \/ \E e \in Event : AnnounceEvent(e) \/ AnnounceAgain(e) \/ MarkEvent(e)
           \/ \E x \in Stray : SendStray(x)
    PROVE  /\ UNCHANGED <<delivered, acked, batch, pc, locals, tables, stranded>>
           /\ \A e \in Event : version[e] <= version'[e]
           /\ DOMAIN stream \subseteq DOMAIN stream'
           /\ \A i \in DOMAIN stream : stream'[i] = stream[i]
<1>a. TypeOK
  BY DEF TypeInv
<1>1. CASE Reaggregate
  BY <1>a, <1>1 DEF Reaggregate, Persist, TypeOK, locals, tables
<1>2. ASSUME NEW e \in Event, AnnounceEvent(e) \/ AnnounceAgain(e)
      PROVE  /\ UNCHANGED <<delivered, acked, batch, pc, locals, tables, stranded, version>>
             /\ DOMAIN stream \subseteq DOMAIN stream'
             /\ \A i \in DOMAIN stream : stream'[i] = stream[i]
  <2>1. Send(e)
    BY <1>2 DEF AnnounceEvent, AnnounceAgain
  <2>2. [event |-> e, ver |-> version[e]] \in Message
    BY <1>a DEF TypeOK, Message
  <2> QED  BY <1>a, <2>1, <2>2, Appended DEF Send, Announce, locals, tables
<1>3. ASSUME NEW e \in Event, MarkEvent(e)
      PROVE  UNCHANGED <<delivered, acked, batch, pc, locals, tables, stranded, version, stream>>
  BY <1>3 DEF MarkEvent, Mark, locals, tables
<1>4. ASSUME NEW x \in Stray, SendStray(x)
      PROVE  /\ UNCHANGED <<delivered, acked, batch, pc, locals, tables, stranded, version>>
             /\ DOMAIN stream \subseteq DOMAIN stream'
             /\ \A i \in DOMAIN stream : stream'[i] = stream[i]
  <2>1. [event |-> x, ver |-> 0] \in Message
    BY DEF Message
  <2> QED  BY <1>a, <1>4, <2>1, Appended DEF SendStray, feed, locals, tables
<1>5. version \in [Event -> Nat]
  BY <1>a DEF TypeOK
<1> QED  BY <1>1, <1>2, <1>3, <1>4, <1>5

LEMMA OrderedStep == TypeInv /\ Ordered /\ [ScoringNext]_vars => Ordered'
<1> SUFFICES ASSUME TypeInv, Ordered, [ScoringNext]_vars
             PROVE  Ordered'
  OBVIOUS
<1>a. TypeOK
  BY DEF TypeInv
<1>b. /\ \A e \in Event : version[e] \in Nat /\ announced[e] \in Nat /\ published[e] \in Nat
      /\ \A i \in DOMAIN stream : stream[i].ver \in Nat
  BY <1>a, Numbers
<1>1. CASE UNCHANGED vars \/ TaskStep
  <2>1. UNCHANGED <<version, announced, published, stream>>
    BY <1>1, TaskIsQuiet DEF vars, feed
  <2> QED  BY <2>1 DEF Ordered
<1>2. CASE Reaggregate
  <2>1. \A e \in Event : version'[e] \in Nat /\ version[e] <= version'[e]
    BY <1>b, <1>2 DEF Reaggregate, Persist
  <2>2. UNCHANGED <<announced, published, stream>>
    BY <1>2 DEF Reaggregate, Persist
  <2> QED  BY <1>b, <2>1, <2>2 DEF Ordered
<1>3. ASSUME NEW e \in Event, AnnounceEvent(e) \/ AnnounceAgain(e)
      PROVE  Ordered'
  <2>1. Send(e)
    BY <1>3 DEF AnnounceEvent, AnnounceAgain
  <2>2. [event |-> e, ver |-> version[e]] \in Message
    BY <1>a DEF TypeOK, Message
  <2>3. /\ DOMAIN stream' = DOMAIN stream \union {Len(stream')}
        /\ \A i \in DOMAIN stream : stream'[i] = stream[i]
        /\ stream'[Len(stream')] = [event |-> e, ver |-> version[e]]
    BY <1>a, <2>1, <2>2, Appended DEF Send
  <2>4. /\ UNCHANGED <<version, published>>
        /\ announced' = [announced EXCEPT ![e] = version[e]]
        /\ published[e] < version[e]
    BY <2>1 DEF Send, Announce
  <2>5. \A f \in Event : published'[f] <= announced'[f] /\ announced'[f] <= version'[f]
    <3> TAKE f \in Event
    <3>1. CASE f = e
      <4>1. announced'[e] = version[e]
        BY <1>a, <2>4 DEF TypeOK
      <4> QED  BY <1>b, <2>4, <3>1, <4>1
    <3>2. CASE f # e
      <4>1. announced'[f] = announced[f]
        BY <1>a, <2>4, <3>2 DEF TypeOK
      <4> QED  BY <2>4, <4>1 DEF Ordered
    <3> QED  BY <3>1, <3>2
  <2>6. version[e] <= version[e]
    BY <1>b
  <2>7. \A i \in DOMAIN stream' : stream'[i].event \in Event =>
          stream'[i].ver <= version'[stream'[i].event]
    <3> TAKE i \in DOMAIN stream'
    <3>1. CASE i \in DOMAIN stream
      BY <2>3, <2>4, <3>1 DEF Ordered
    <3>2. CASE i = Len(stream')
      BY <2>3, <2>4, <2>6, <3>2
    <3> QED  BY <2>3, <3>1, <3>2
  <2> QED  BY <2>5, <2>7 DEF Ordered
<1>4. ASSUME NEW e \in Event, MarkEvent(e)
      PROVE  Ordered'
  <2>1. PICK v \in Version : v <= announced[e] /\ published' = [published EXCEPT ![e] = v]
    BY <1>4 DEF MarkEvent, Mark
  <2>2. UNCHANGED <<version, announced, stream>>
    BY <1>4 DEF MarkEvent, Mark
  <2> QED  BY <1>a, <2>1, <2>2 DEF TypeOK, Ordered
<1>5. ASSUME NEW x \in Stray, SendStray(x)
      PROVE  Ordered'
  <2>1. [event |-> x, ver |-> 0] \in Message
    BY DEF Message
  <2>2. /\ DOMAIN stream' = DOMAIN stream \union {Len(stream')}
        /\ \A i \in DOMAIN stream : stream'[i] = stream[i]
        /\ stream'[Len(stream')] = [event |-> x, ver |-> 0]
    BY <1>a, <1>5, <2>1, Appended DEF SendStray
  <2>3. x \notin Event /\ UNCHANGED <<version, announced, published>>
    BY <1>5 DEF SendStray, Stray, feed
  <2>4. \A i \in DOMAIN stream' : stream'[i].event \in Event =>
          stream'[i].ver <= version'[stream'[i].event]
    <3> TAKE i \in DOMAIN stream'
    <3>1. CASE i \in DOMAIN stream
      BY <2>2, <2>3, <3>1 DEF Ordered
    <3>2. CASE i = Len(stream')
      BY <2>2, <2>3, <3>2
    <3> QED  BY <2>2, <3>1, <3>2
  <2> QED  BY <2>3, <2>4 DEF Ordered
<1> QED
  BY <1>1, <1>2, <1>3, <1>4, <1>5 DEF ScoringNext, TaskStep
-----------------------------------------------------------------------------
(* Between the others' steps the task goes on where it was: its message is *)
(* the same, and what it knows of the row stays true of a later one.       *)
LEMMA TaskOthers ==
    ASSUME IInv, TypeInv',
           \/ Reaggregate
           \/ \E e \in Event : AnnounceEvent(e) \/ AnnounceAgain(e) \/ MarkEvent(e)
           \/ \E x \in Stray : SendStray(x)
    PROVE  Task' /\ ScoreOfOneVersion'
<1>a. TypeInv /\ TypeOK /\ Working /\ Task /\ Ordered /\ ScoreOfOneVersion
  BY DEF IInv, TypeInv
<1>b. /\ UNCHANGED <<delivered, acked, batch, pc, locals, tables, stranded>>
      /\ \A e \in Event : version[e] <= version'[e]
      /\ \A i \in DOMAIN stream : stream'[i] = stream[i]
  BY <1>a, OthersOnlyAdd
<1>c. /\ \A e \in Event : version[e] \in Nat /\ version'[e] \in Nat
      /\ \A i \in DOMAIN stream : stream[i].ver \in Nat
      /\ expected \in Nat /\ constituents \in Nat
  <2>1. TypeOK'
    BY DEF TypeInv
  <2>2. \A e \in Event : version'[e] \in Version
    BY <2>1 DEF TypeOK
  <2> QED  BY <1>a, <2>2, Numbers
<1>d. UNCHANGED <<pc, expected, constituents, score, signalled>>
  BY <1>b DEF locals, tables
<1>1. ScoreOfOneVersion'
  BY <1>a, <1>d DEF ScoreOfOneVersion
<1>2. batch # <<>> => /\ Head(batch) \in DOMAIN stream
                      /\ Current' = Current /\ AnnouncedVersion' = AnnouncedVersion
                      /\ AnnouncedVersion \in Nat
  BY <1>a, <1>b, <1>c, InHand DEF Current, AnnouncedVersion
<1>3. Task'
  <2>1. CASE pc \in {"constituents", "persist", "publish"}
    <3>1. batch # <<>> /\ Current \in Event
      BY <1>a, <2>1 DEF Working
    <3>2. /\ Current' = Current /\ AnnouncedVersion' = AnnouncedVersion
          /\ version[Current] \in Nat /\ version'[Current] \in Nat
          /\ version[Current] <= version'[Current]
      BY <1>2, <1>b, <1>c, <3>1
    <3> QED  BY <1>a, <1>c, <1>d, <2>1, <3>2 DEF Task
  <2>2. CASE pc = "ack"
    <3>1. batch # <<>>
      BY <1>a, <2>2 DEF Working
    <3>2. ASSUME Current \in Event, AnnouncedVersion = version'[Current]
          PROVE  UpToDate(Current)'
      <4>1. AnnouncedVersion <= version[Current]
        BY <1>2, <1>a, <3>1, <3>2 DEF Ordered, Current, AnnouncedVersion
      <4>2. version'[Current] = version[Current]
        BY <1>b, <1>c, <3>2, <4>1
      <4>3. UpToDate(Current)
        BY <1>a, <2>2, <3>2, <4>2 DEF Task
      <4> QED  BY <1>2, <1>d, <3>1, <4>2, <4>3 DEF UpToDate
    <3> QED  BY <1>2, <1>d, <2>2, <3>1, <3>2 DEF Task, UpToDate
  <2>3. CASE pc \notin {"constituents", "persist", "publish", "ack"}
    BY <1>d, <2>3 DEF Task
  <2> QED  BY <2>1, <2>2, <2>3
<1> QED  BY <1>1, <1>3

(* The task's own steps: it learns from each call, and forgets when done.  *)
LEMMA TaskOwn ==
    ASSUME IInv, TaskStep
    PROVE  Task' /\ ScoreOfOneVersion'
<1>a. TypeOK /\ Working /\ Task /\ Ordered /\ ScoreOfOneVersion
  BY DEF IInv, TypeInv
<1>b. UNCHANGED <<version, stream>>
  BY TaskIsQuiet DEF feed
<1>c. /\ \A e \in Event : version[e] \in Nat /\ score[e].ver \in Nat
      /\ \A i \in DOMAIN stream : stream[i].ver \in Nat
      /\ expected \in Nat /\ constituents \in Nat
  BY <1>a, Numbers
<1>d. batch' = batch => Current' = Current /\ AnnouncedVersion' = AnnouncedVersion
  BY <1>b DEF Current, AnnouncedVersion
<1>e. batch # <<>> => /\ Head(batch) \in DOMAIN stream
                      /\ Current \in Event => AnnouncedVersion <= version[Current]
  BY <1>a, InHand DEF Ordered, Current, AnnouncedVersion
<1>1. CASE Read \/ SkipInvalid \/ Ack \/ CallFails \/ AckFails \/ ReadReplyLost \/ ReadRaises \/ Restart
  <2>1. pc' \in {"loop", "ended"} /\ UNCHANGED score
    BY <1>1 DEF Read, SkipInvalid, Ack, CallFails, AckFails, ReadReplyLost, ReadRaises, Restart,
       Proceed, Leave, tables
  <2> QED  BY <1>a, <2>1 DEF Task, ScoreOfOneVersion
<1>2. CASE FetchEvent
  <2>1. /\ pc' = "constituents" /\ expected' = version[Current] /\ batch # <<>>
        /\ Current \in Event /\ UNCHANGED <<batch, score>>
    BY <1>2 DEF FetchEvent, tables
  <2>2. AnnouncedVersion' <= expected' /\ expected' <= version'[Current']
    BY <1>b, <1>c, <1>d, <1>e, <2>1
  <2> QED  BY <1>a, <2>1, <2>2 DEF Task, ScoreOfOneVersion
<1>3. CASE FindNoEvent
  <2>1. pc' = "ack" /\ Current = Gone /\ UNCHANGED <<batch, score>>
    BY <1>3 DEF FindNoEvent, tables
  <2>2. Current' \notin Event
    BY <1>d, <2>1
  <2> QED  BY <1>a, <2>1, <2>2 DEF Task, ScoreOfOneVersion
<1>4. CASE FetchConstituents
  <2>1. /\ pc = "constituents" /\ pc' = "persist" /\ constituents' = version[Current]
        /\ UNCHANGED <<batch, expected, score>>
    BY <1>4 DEF FetchConstituents, tables
  <2>2. /\ Current \in Event /\ version[Current] \in Nat
        /\ AnnouncedVersion <= expected /\ expected <= version[Current]
    BY <1>a, <1>c, <2>1 DEF Task, Working
  <2>3. version[Current] <= version[Current]
    BY <2>2
  <2> QED  BY <1>a, <1>b, <1>d, <2>1, <2>2, <2>3 DEF Task, ScoreOfOneVersion
<1>5. ASSUME pc = "persist", IsCurrent, WriteScore
      PROVE  /\ ScoreOfOneVersion'
             /\ score'[Current].ver = expected /\ Current \in Event
             /\ AnnouncedVersion <= expected /\ expected = version[Current]
  <2>1. /\ Current \in Event /\ version[Current] \in Nat
        /\ AnnouncedVersion <= expected
        /\ expected <= constituents /\ constituents <= version[Current]
    BY <1>a, <1>c, <1>5 DEF Task, Working
  <2>2. version[Current] = expected /\ constituents = expected
    BY <1>5, <1>c, <2>1 DEF IsCurrent
  <2>3. score' = [score EXCEPT ![Current] = [ver |-> expected, of |-> constituents]]
    BY <1>5 DEF WriteScore
  <2>4. \A e \in Event : score'[e].of = score'[e].ver
    <3> TAKE e \in Event
    <3>1. CASE e = Current
      <4>1. score'[e] = [ver |-> expected, of |-> constituents]
        BY <1>a, <2>3, <3>1 DEF TypeOK
      <4> QED  BY <2>2, <4>1
    <3>2. CASE e # Current
      <4>1. score'[e] = score[e]
        BY <1>a, <2>3, <3>2 DEF TypeOK
      <4> QED  BY <1>a, <4>1 DEF ScoreOfOneVersion
    <3> QED  BY <3>1, <3>2
  <2>5. score'[Current] = [ver |-> expected, of |-> constituents]
    BY <1>a, <2>1, <2>3 DEF TypeOK
  <2> QED  BY <2>1, <2>2, <2>4, <2>5 DEF ScoreOfOneVersion
<1>6. CASE PersistScore
  <2>1. pc = "persist" /\ IsCurrent /\ WriteScore /\ pc' = "publish" /\ UNCHANGED <<batch, expected>>
    BY <1>6 DEF PersistScore, locals
  <2>2. expected <= version[Current]
    BY <1>5, <1>c, <2>1
  <2> QED  BY <1>5, <1>b, <1>d, <2>1, <2>2 DEF Task
<1>7. CASE WriteReplyLost
  <2>1. pc = "persist" /\ IsCurrent /\ WriteScore
    BY <1>7 DEF WriteReplyLost
  <2>2. CASE UNCHANGED <<batch, pc, locals, stranded>>
    <3>1. UNCHANGED <<batch, pc, expected, constituents>>
      BY <2>2 DEF locals
    <3> QED  BY <1>a, <1>5, <1>b, <1>d, <2>1, <3>1 DEF Task
  <2>3. CASE Proceed
    BY <1>5, <2>1, <2>3 DEF Task, Proceed, Leave
  <2> QED  BY <1>7, <2>2, <2>3 DEF WriteReplyLost
<1>8. CASE SkipStale
  <2>1. /\ pc = "persist" /\ ~IsCurrent /\ pc' = "ack"
        /\ UNCHANGED <<batch, score>>
    BY <1>8 DEF SkipStale, tables
  <2>2. /\ Current \in Event /\ batch # <<>>
        /\ AnnouncedVersion <= expected /\ expected <= version[Current]
    BY <1>a, <2>1 DEF Task, Working
  <2>3. AnnouncedVersion # version[Current]
    <3>1. version[Current] # expected /\ version[Current] \in Nat /\ AnnouncedVersion \in Nat
      BY <1>c, <1>e, <2>1, <2>2 DEF IsCurrent, AnnouncedVersion
    <3> QED  BY <1>c, <2>2, <3>1
  <2> QED  BY <1>a, <1>b, <1>d, <2>1, <2>3 DEF Task, ScoreOfOneVersion
<1>9. CASE PublishScored
  <2>1. /\ pc = "publish" /\ pc' = "ack"
        /\ signalled' = [signalled EXCEPT ![Current] = score[Current].ver]
        /\ UNCHANGED <<batch, score>>
    BY <1>9 DEF PublishScored
  <2>2. /\ Current \in Event /\ batch # <<>> /\ score[Current].ver = expected
        /\ AnnouncedVersion <= expected /\ expected <= version[Current]
    BY <1>a, <2>1 DEF Task, Working
  <2>3. ASSUME AnnouncedVersion = version[Current]
        PROVE  UpToDate(Current)'
    <3>1. expected = version[Current]
      BY <1>c, <2>2, <2>3
    <3>2. signalled'[Current] = expected
      BY <1>a, <2>1, <2>2 DEF TypeOK
    <3> QED  BY <1>b, <1>d, <2>1, <2>2, <3>1, <3>2 DEF UpToDate
  <2> QED  BY <1>a, <1>b, <1>d, <2>1, <2>3 DEF Task, ScoreOfOneVersion, UpToDate
<1> QED
  BY <1>1, <1>2, <1>3, <1>4, <1>6, <1>7, <1>8, <1>9 DEF TaskStep, ScoringStep
-----------------------------------------------------------------------------
(* What is owed stays owed while no row moves, nothing that was settled    *)
(* comes undone and no message of a current version is acknowledged.       *)
LEMMA OwedKept ==
    ASSUME Owed, UNCHANGED <<version, announced>>,
           \A e \in Event : /\ UpToDate(e) => UpToDate(e)'
                            /\ UpToDate(e) \/ Unsettled(e) \subseteq Unsettled(e)'
    PROVE  Owed'
  BY DEF Owed

LEMMA OwedOthers ==
    ASSUME IInv, TypeInv',
           \/ Reaggregate
           \/ \E e \in Event : AnnounceEvent(e) \/ AnnounceAgain(e) \/ MarkEvent(e)
           \/ \E x \in Stray : SendStray(x)
    PROVE  Owed'
<1>a. TypeInv /\ TypeOK /\ Ordered /\ Owed
  BY DEF IInv, TypeInv
<1>b. /\ UNCHANGED <<acked, score, signalled>>
      /\ DOMAIN stream \subseteq DOMAIN stream'
      /\ \A i \in DOMAIN stream : stream'[i] = stream[i]
  BY <1>a, OthersOnlyAdd DEF tables
<1>c. /\ \A e \in Event : version[e] \in Nat /\ version'[e] \in Nat /\ announced[e] \in Nat
  <2>1. \A e \in Event : version'[e] \in Version
    BY DEF TypeInv, TypeOK
  <2> QED  BY <1>a, <2>1, Numbers
<1>d. \A e \in Event : version'[e] = version[e] =>
        /\ UpToDate(e) => UpToDate(e)'
        /\ Unsettled(e) \subseteq Unsettled(e)'
  BY <1>b DEF UpToDate, Unsettled
<1>1. CASE Reaggregate
  <2>1. UNCHANGED announced /\ \A e \in Event : version[e] <= version'[e]
    BY <1>1 DEF Reaggregate, Persist
  <2>2. ASSUME NEW e \in Event
        PROVE  UpToDate(e)' \/ announced'[e] < version'[e] \/ Unsettled(e)' # {}
    <3>1. CASE version'[e] = version[e]
      BY <1>a, <1>d, <2>1, <3>1 DEF Owed
    <3>2. CASE version'[e] # version[e]
      <4>1. announced[e] <= version[e] /\ version[e] <= version'[e]
        BY <1>a, <2>1 DEF Ordered
      <4> QED  BY <1>c, <2>1, <3>2, <4>1
    <3> QED  BY <3>1, <3>2
  <2> QED  BY <2>2 DEF Owed
<1>2. ASSUME NEW e \in Event, AnnounceEvent(e) \/ AnnounceAgain(e)
      PROVE  Owed'
  <2> DEFINE m == [event |-> e, ver |-> version[e]]
  <2>1. Send(e)
    BY <1>2 DEF AnnounceEvent, AnnounceAgain
  <2>2. /\ UNCHANGED version
        /\ announced' = [announced EXCEPT ![e] = version[e]]
        /\ stream' = Append(stream, m)
    BY <2>1 DEF Send, Announce
  <2>3. m \in Message
    BY <1>a DEF TypeOK, Message
  <2>4. /\ Len(stream') \in DOMAIN stream' /\ stream'[Len(stream')] = m
        /\ Len(stream') \notin acked
    BY <1>a, <2>2, <2>3, Appended
  <2>5. Len(stream') \in Unsettled(e)'
    BY <1>b, <2>2, <2>4 DEF Unsettled
  <2>6. ASSUME NEW f \in Event, f # e
        PROVE  UpToDate(f)' \/ announced'[f] < version'[f] \/ Unsettled(f)' # {}
    <3>1. announced'[f] = announced[f]
      BY <1>a, <2>2, <2>6 DEF TypeOK
    <3> QED  BY <1>a, <1>d, <2>2, <3>1 DEF Owed
  <2> QED  BY <2>5, <2>6 DEF Owed
<1>3. ASSUME NEW e \in Event, MarkEvent(e)
      PROVE  Owed'
  <2>1. UNCHANGED <<version, announced>>
    BY <1>3 DEF MarkEvent, Mark
  <2> QED  BY <1>a, <1>d, <2>1, OwedKept
<1>4. ASSUME NEW x \in Stray, SendStray(x)
      PROVE  Owed'
  <2>1. UNCHANGED <<version, announced>>
    BY <1>4 DEF SendStray, feed
  <2> QED  BY <1>a, <1>d, <2>1, OwedKept
<1> QED  BY <1>1, <1>2, <1>3, <1>4

LEMMA OwedOwn ==
    ASSUME IInv, TaskStep
    PROVE  Owed'
<1>a. TypeOK /\ Working /\ Task /\ Ordered /\ Owed
  BY DEF IInv, TypeInv
<1>b. UNCHANGED <<version, announced, stream>>
  BY TaskIsQuiet DEF feed
<1>1. CASE UNCHANGED <<acked, score, signalled>>
  <2>1. \A e \in Event : /\ UpToDate(e) => UpToDate(e)'
                         /\ Unsettled(e) \subseteq Unsettled(e)'
    BY <1>b, <1>1 DEF UpToDate, Unsettled
  <2> QED  BY <1>a, <1>b, <2>1, OwedKept
<1>2. CASE Read \/ SkipInvalid \/ CallFails \/ ReadReplyLost \/ ReadRaises \/ Restart
  BY <1>1, <1>2 DEF Read, SkipInvalid, CallFails, ReadReplyLost, ReadRaises, Restart, tables
<1>3. CASE FetchEvent \/ FindNoEvent \/ FetchConstituents \/ SkipStale
  BY <1>1, <1>3 DEF FetchEvent, FindNoEvent, FetchConstituents, SkipStale, tables
<1>4. CASE Ack \/ AckFails
  <2>1. /\ pc = "ack" /\ UNCHANGED <<score, signalled>>
        /\ UNCHANGED acked \/ acked' = acked \union {Head(batch)}
    BY <1>4 DEF Ack, AckFails, tables
  <2>2. ASSUME NEW e \in Event
        PROVE  /\ UpToDate(e) => UpToDate(e)'
               /\ UpToDate(e) \/ Unsettled(e) \subseteq Unsettled(e)'
    <3>1. UpToDate(e) => UpToDate(e)'
      BY <1>b, <2>1 DEF UpToDate
    <3>2. CASE Head(batch) \in Unsettled(e)
      <4>1. Current = e /\ AnnouncedVersion = version[e]
        BY <3>2 DEF Unsettled, Current, AnnouncedVersion
      <4> QED  BY <1>a, <2>1, <3>1, <4>1 DEF Task
    <3>3. CASE Head(batch) \notin Unsettled(e)
      BY <1>b, <2>1, <3>1, <3>3 DEF Unsettled
    <3> QED  BY <3>2, <3>3
  <2> QED  BY <1>a, <1>b, <2>2, OwedKept
<1>5. CASE PersistScore \/ WriteReplyLost
  <2>1. pc = "persist" /\ IsCurrent /\ WriteScore /\ UNCHANGED <<acked, signalled>>
    BY <1>5 DEF PersistScore, WriteReplyLost
  <2>2. ASSUME NEW e \in Event, UpToDate(e)
        PROVE  UpToDate(e)'
    <3>1. score' = [score EXCEPT ![Current] = [ver |-> expected, of |-> constituents]]
      BY <2>1 DEF WriteScore
    <3>2. CASE e = Current
      <4>1. score'[e] = [ver |-> expected, of |-> constituents]
        BY <1>a, <3>1, <3>2 DEF TypeOK
      <4>2. expected = version[e]
        BY <2>1, <3>2 DEF IsCurrent
      <4> QED  BY <1>b, <2>1, <2>2, <4>1, <4>2 DEF UpToDate
    <3>3. CASE e # Current
      <4>1. score'[e] = score[e]
        BY <1>a, <3>1, <3>3 DEF TypeOK
      <4> QED  BY <1>b, <2>1, <2>2, <4>1 DEF UpToDate
    <3> QED  BY <3>2, <3>3
  <2>3. \A e \in Event : Unsettled(e) \subseteq Unsettled(e)'
    BY <1>b, <2>1 DEF Unsettled
  <2> QED  BY <1>a, <1>b, <2>2, <2>3, OwedKept
<1>6. CASE PublishScored
  <2>1. /\ signalled' = [signalled EXCEPT ![Current] = score[Current].ver]
        /\ UNCHANGED <<acked, score>>
    BY <1>6 DEF PublishScored
  <2>2. ASSUME NEW e \in Event, UpToDate(e)
        PROVE  UpToDate(e)'
    <3>1. signalled'[e] = signalled[e] \/ signalled'[e] = score[e].ver
      BY <1>a, <2>1 DEF TypeOK
    <3> QED  BY <1>b, <2>1, <2>2, <3>1 DEF UpToDate
  <2>3. \A e \in Event : Unsettled(e) \subseteq Unsettled(e)'
    BY <1>b, <2>1 DEF Unsettled
  <2> QED  BY <1>a, <1>b, <2>2, <2>3, OwedKept
<1> QED
  BY <1>2, <1>3, <1>4, <1>5, <1>6 DEF TaskStep, ScoringStep
-----------------------------------------------------------------------------
LEMMA Inductive ==
    /\ ScoringInit => IInv
    /\ IInv /\ [ScoringNext]_vars => IInv'
<1>1. ScoringInit => IInv
  <2> SUFFICES ASSUME ScoringInit
               PROVE  Ordered /\ Task /\ ScoreOfOneVersion /\ Owed
    BY TypeInit DEF IInv
  <2> QED  BY DEF ScoringInit, Init, Ordered, Task, ScoreOfOneVersion, Owed, UpToDate
<1>2. ASSUME IInv, [ScoringNext]_vars
      PROVE  IInv'
  <2>1. TypeInv' /\ Ordered'
    BY <1>2, TypeStep, OrderedStep DEF IInv
  <2>2. CASE UNCHANGED vars
    <3>1. UNCHANGED <<version, announced, stream, acked, batch, pc, expected, constituents, score,
                      signalled>>
      BY <2>2 DEF vars, feed, locals, tables
    <3>2. Task' /\ ScoreOfOneVersion' /\ Owed'
      BY <1>2, <3>1 DEF IInv, Task, ScoreOfOneVersion, Owed, UpToDate, Unsettled, Current,
         AnnouncedVersion
    <3> QED  BY <2>1, <3>2 DEF IInv
  <2>3. CASE TaskStep
    BY <1>2, <2>1, <2>3, TaskOwn, OwedOwn DEF IInv
  <2>4. CASE \/ Reaggregate
             \/ \E e \in Event : AnnounceEvent(e) \/ AnnounceAgain(e) \/ MarkEvent(e)
             \/ \E x \in Stray : SendStray(x)
    BY <1>2, <2>1, <2>4, TaskOthers, OwedOthers DEF IInv
  <2> QED  BY <1>2, <2>2, <2>3, <2>4 DEF ScoringNext, TaskStep
<1> QED  BY <1>1, <1>2

(* The layer's state keeps its type (ScoringConsumer, ScoringService).     *)
THEOREM TypeCorrect == ScoringSpec => []TypeOK
<1>1. IInv => TypeOK
  BY DEF IInv, TypeInv
<1> QED  BY <1>1, Inductive, PTL DEF ScoringSpec

(* A score is never computed from two versions of its Event, whatever is   *)
(* re-aggregated between the reads and the write                           *)
(* (persist_score_if_not_stale).                                           *)
THEOREM ScoresAreOfOneVersion == ScoringSpec => []ScoreOfOneVersion
<1>1. IInv => ScoreOfOneVersion
  BY DEF IInv
<1> QED  BY <1>1, Inductive, PTL DEF ScoringSpec

(* Whatever fails, an Event whose newest version is not scored and         *)
(* announced is still owed: by the outbox, or by a message nobody          *)
(* acknowledged (score_event, ack).                                        *)
THEOREM OutdatedIsAlwaysOwed == ScoringSpec => []OutdatedIsOwed
<1>1. IInv => OutdatedIsOwed
  <2> SUFFICES ASSUME IInv, NEW e \in Event, ~UpToDate(e), Unsettled(e) = {}
               PROVE  published[e] < version[e]
    BY DEF OutdatedIsOwed
  <2>1. announced[e] < version[e] /\ published[e] <= announced[e]
    BY DEF IInv, Owed, Ordered
  <2>2. published[e] \in Nat /\ announced[e] \in Nat /\ version[e] \in Nat
    BY Numbers DEF IInv, TypeInv
  <2> QED  BY <2>1, <2>2
<1> QED  BY <1>1, Inductive, PTL DEF ScoringSpec
============================================================================
