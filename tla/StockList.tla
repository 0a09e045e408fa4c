----------------------------- MODULE StockList ------------------------------
(***************************************************************************)
(* The process-wide HK Stock List: loaded at startup, reloaded by POST     *)
(* /v1/admin/hk-stock-list-sync, and searched by the entity analysis skill *)
(* through the names indexed with it.                                      *)
(*                                                                         *)
(* HKEX publishes three documents; a refresh reads one after the other     *)
(* while HKEX may publish the next ones.  It is suspended at each GET, and *)
(* while a thread parses what it read or indexes what it parsed.  The wait *)
(* before a repeated GET is part of the GET.  The server takes requests    *)
(* when the lifespan's refresh is over.                                    *)
(***************************************************************************)
EXTENDS StockNames

CONSTANTS
    startup,          \* the lifespan's refresh
    Sync,             \* the refreshes requested later
    Code,
    RmbCode,          \* the codes that start with 8
    Publication,      \* what HKEX shows, one after the other: [en, zh: listed
                      \* names by code, equities: the codes of that category]
    CONNECT_RETRIES,  \* the number of _CONNECT_RETRY_WAITS_S
    MaxFetchFaults,   \* bound on GETs that fail and documents that do not parse
    NoRefresh

Refresh == Sync \union {startup}
Document == {"en", "zh", "securities"}
Following == [en |-> "zh", zh |-> "securities", securities |-> "parse"]

ASSUME StockListAssumption ==
    /\ startup \notin Sync /\ NoRefresh \notin Refresh
    /\ Len(Publication) \in Nat \ {0}
    /\ CONNECT_RETRIES \in Nat /\ MaxFetchFaults \in Nat

(* Codes have five digits, so there are finitely many.                     *)
ASSUME PublicationAssumption ==
    /\ IsFiniteSet(Code)
    /\ \A i \in 1..Len(Publication) :
          /\ Publication[i].equities \subseteq Code
          /\ \A names \in {Publication[i].en, Publication[i].zh} :
                \A code \in DOMAIN names : names[code].text \in Text

VARIABLES
    published,  \* the place in Publication of what HKEX shows
    at,         \* [Refresh -> the await it is suspended at]
    attempt,    \* [Refresh -> the attempt of its GET]
    read,       \* [Refresh -> the publications its documents are of, 0 before]
    cache,      \* _hk_stock_list_cache: the refresh that made it, its list, and
                \* the list name_index was built from
    loader,     \* the refresh whose list it shows
    before,     \* [Refresh -> the refreshes that were over when it began]
    faults

vars == <<published, at, attempt, read, cache, loader, before, faults>>

NoName == [text |-> <<>>, marker |-> ""]
NameIn(names, code) == IF code \in DOMAIN names THEN names[code] ELSE NoName

is_extra_counter(code, zh, en) ==
    \/ code \in RmbCode /\ zh.marker = "R"
    \/ "T" \in {zh.marker, en.marker}

(* Mutant of parse_hk_stock_list: a code without an English name is left   *)
(* out.                                                                    *)
parse_english_only(en, zh, equities) ==
    [code \in {c \in equities \intersect DOMAIN en :
                  ~ is_extra_counter(c, NameIn(zh, c), NameIn(en, c))} |->
        [zh |-> NameIn(zh, code), en |-> NameIn(en, code)]]

parse_hk_stock_list(en, zh, equities) ==
    [code \in {c \in equities \intersect (DOMAIN en \union DOMAIN zh) :
                  ~ is_extra_counter(c, NameIn(zh, c), NameIn(en, c))} |->
        [zh |-> NameIn(zh, code), en |-> NameIn(en, code)]]

ListOf(docs) ==
    parse_hk_stock_list(Publication[docs.en].en, Publication[docs.zh].zh,
                        Publication[docs.securities].equities)

NoList == [code \in {} |-> NoName]
Cache(creator, entries) ==
    [creator |-> creator, entries |-> entries, indexed |-> entries]
NoCache == Cache(NoRefresh, NoList)

Init ==
    /\ published = 1
    /\ at = [r \in Refresh |-> "idle"]
    /\ attempt = [r \in Refresh |-> 0]
    /\ read = [r \in Refresh |-> [d \in Document |-> 0]]
    /\ cache = NoCache /\ loader = startup
    /\ before = [r \in Refresh |-> {}]
    /\ faults = 0

At(r, await) == at[r] = await
To(r, await) == at' = [at EXCEPT ![r] = await]
Over == {r \in Refresh : at[r] = "over"}
Fault == faults < MaxFetchFaults /\ faults' = faults + 1

Publish ==
    /\ published < Len(Publication)
    /\ published' = published + 1
    /\ UNCHANGED <<at, attempt, read, cache, loader, before, faults>>

Begin(r) ==
    /\ At(r, "idle") /\ (r = startup \/ At(startup, "over"))
    /\ To(r, "en")
    /\ before' = [before EXCEPT ![r] = Over]
    /\ UNCHANGED <<published, attempt, read, cache, loader, faults>>

-----------------------------------------------------------------------------
(* Mutant of Get: after a failed connection a copy kept from the startup   *)
(* will do.                                                                *)
GetFromCopy(r) ==
    /\ at[r] \in Document
    /\ To(r, Following[at[r]])
    /\ read' = [read EXCEPT ![r][at[r]] =
                  IF attempt[r] > 0 /\ read[startup][at[r]] > 0 THEN read[startup][at[r]] ELSE published]
    /\ attempt' = [attempt EXCEPT ![r] = 0]
    /\ UNCHANGED <<published, cache, loader, before, faults>>

Get(r) ==
    /\ at[r] \in Document
    /\ To(r, Following[at[r]])
    /\ read' = [read EXCEPT ![r][at[r]] = published]
    /\ attempt' = [attempt EXCEPT ![r] = 0]
    /\ UNCHANGED <<published, cache, loader, before, faults>>

(* A failed connection is tried again after a wait.                        *)
ConnectFails(r) ==
    /\ at[r] \in Document /\ attempt[r] < CONNECT_RETRIES /\ Fault
    /\ attempt' = [attempt EXCEPT ![r] = @ + 1]
    /\ UNCHANGED <<published, at, read, cache, loader, before>>

(* On any failure an empty list is installed if there is none.             *)
Fails(r) ==
    /\ To(r, "over")
    /\ cache' = IF cache = NoCache THEN Cache(r, NoList) ELSE cache
    /\ UNCHANGED <<published, attempt, read, loader, before>>

(* A timeout, a status that is not 2xx, or the last attempt to connect.    *)
GetFails(r) == at[r] \in Document /\ Fault /\ Fails(r)

(* The documents have changed their shape, or there are no equities.       *)
ParseFails(r) ==
    /\ At(r, "parse")
    /\ Fault \/ (ListOf(read[r]) = NoList /\ UNCHANGED faults)
    /\ Fails(r)

Parse(r) ==
    /\ At(r, "parse") /\ ListOf(read[r]) # NoList
    /\ To(r, IF cache = NoCache THEN "load" ELSE "reload")
    /\ UNCHANGED <<published, attempt, read, cache, loader, before, faults>>

(* The thread has indexed the list, which is shown with its index.         *)
Load(r) ==
    /\ At(r, "load") /\ To(r, "over")
    /\ cache' = Cache(r, ListOf(read[r])) /\ loader' = r
    /\ UNCHANGED <<published, attempt, read, before, faults>>

(* Mutant of Reload: the old index is kept.                                *)
ReloadEntries(r) ==
    /\ At(r, "reload") /\ To(r, "over")
    /\ cache' = [cache EXCEPT !.entries = ListOf(read[r])] /\ loader' = r
    /\ UNCHANGED <<published, attempt, read, before, faults>>

Reload(r) ==
    /\ At(r, "reload") /\ To(r, "over")
    /\ cache' = Cache(cache.creator, ListOf(read[r])) /\ loader' = r
    /\ UNCHANGED <<published, attempt, read, before, faults>>

Step(r) ==
    \/ Begin(r) \/ Get(r) \/ ConnectFails(r) \/ GetFails(r)
    \/ ParseFails(r) \/ Parse(r) \/ Load(r) \/ Reload(r)

Next == Publish \/ \E r \in Refresh : Step(r)

Spec == Init /\ [][Next]_vars

-----------------------------------------------------------------------------
Await == Document \union {"idle", "parse", "load", "reload", "over"}

TypeOK ==
    /\ published \in 1..Len(Publication)
    /\ at \in [Refresh -> Await]
    /\ attempt \in [Refresh -> 0..CONNECT_RETRIES]
    /\ read \in [Refresh -> [Document -> 0..published]]
    /\ loader \in Refresh
    /\ before \in [Refresh -> SUBSET Refresh]
    /\ faults \in 0..MaxFetchFaults

Loaded == cache # NoCache /\ cache.entries # NoList

(* A reader between two awaits sees the entries and the index of one       *)
(* refresh, the last that succeeded, although the index was built in a     *)
(* thread while the former ones were shown.                                *)
ShowsOneRefresh ==
    Loaded => cache = Cache(cache.creator, ListOf(read[loader]))

(* A list, once loaded, is never lost to a refresh that fails or that      *)
(* finds no equities.                                                      *)
StaysLoaded == [][Loaded => Loaded']_vars

(* An analysis keeps the cache it took before it asked the model and sees  *)
(* the lists loaded meanwhile: there is only ever one cache, though each   *)
(* refresh decides by itself whether to make it.                           *)
OneCache == [][cache # NoCache => cache'.creator = cache.creator]_vars

(* A refresh that began when another was over shows nothing older.  Two    *)
(* that overlap may end in either order, and the older list stay.          *)
OlderOnlyByOverlap ==
    [][LET new == loader'
       IN  loader \in before[new] => \A d \in Document : read[loader][d] <= read[new][d]]_vars

(* What is in the list was published during its refresh, and what was      *)
(* listed all that time, under one name, is in it, whichever publications  *)
(* the three documents came from.                                          *)
Listed(p, code) ==
    code \in p.equities /\ {NameIn(p.en, code), NameIn(p.zh, code)} # {NoName}

LoadedAsPublished ==
    Loaded =>
      LET span == {Publication[i] : i \in read[loader].en..read[loader].securities}
          Stays(code) == \A p, o \in span :
             Listed(p, code) /\ NameIn(p.en, code) = NameIn(o.en, code) /\ NameIn(p.zh, code) = NameIn(o.zh, code)
      IN  /\ \A code \in DOMAIN cache.entries : \E p \in span : code \in p.equities
          /\ \A p \in span : \A code \in p.equities :
                Stays(code) /\ ~ is_extra_counter(code, NameIn(p.zh, code), NameIn(p.en, code))
                   => /\ code \in DOMAIN cache.entries
                      /\ cache.entries[code] = [zh |-> NameIn(p.zh, code), en |-> NameIn(p.en, code)]

=============================================================================
