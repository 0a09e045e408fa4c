---------------------------- MODULE StockSearch -----------------------------
(***************************************************************************)
(* What the entity analysis skill makes of the HK Stock List: a name       *)
(* search, and the verification of the companies the model found, judged   *)
(* of every list that comes to be loaded.  An extracted entity is its code *)
(* in five digits, or NoCode, and a company name; an article prints the    *)
(* codes in a set.                                                         *)
(***************************************************************************)
EXTENDS StockList, SubsequenceMatcher

CONSTANTS
    Mention,    \* the company names looked up
    Output,     \* what the model may answer: sequences of extracted entities
    Printed     \* the sets of codes an article may print

ASSUME SearchAssumption ==
    /\ Mention \subseteq Text
    /\ \A items \in Output : items \in Seq(ToSet(items))

verify_entity(list, extracted, printed) ==
    LET stock == {extracted.stock_code} \intersect DOMAIN list.entries
    IN  IF \E code \in stock :
              name_matches_stock(list.index, extracted.company_name, code) \/ code \in printed
        THEN stock ELSE search(list.index, extracted.company_name)

(* Mutant of AddEntity: repeated codes are looked for among those the      *)
(* model wrote.                                                            *)
AddUnlessWritten(list, printed, out, extracted) ==
    LET stock == verify_entity(list, extracted, printed)
    IN  IF stock = {} THEN [out EXCEPT !.unverified = Append(@, extracted)]
        ELSE IF extracted.stock_code \in ToSet(out.verified) THEN [out EXCEPT !.dropped = @ \o SetToSeq(stock)]
        ELSE [out EXCEPT !.verified = @ \o SetToSeq(stock)]

AddEntity(list, printed, out, extracted) ==
    LET stock == verify_entity(list, extracted, printed)
    IN  IF stock = {} THEN [out EXCEPT !.unverified = Append(@, extracted)]
        ELSE IF stock \subseteq ToSet(out.verified) THEN [out EXCEPT !.dropped = @ \o SetToSeq(stock)]
        ELSE [out EXCEPT !.verified = @ \o SetToSeq(stock)]

llm_process(list, items, printed) ==
    FoldLeft(LAMBDA out, x : AddEntity(list, printed, out, x),
             [verified |-> <<>>, unverified |-> <<>>, dropped |-> <<>>], items)

-----------------------------------------------------------------------------
(* The list shown, judged when no refresh is under way: one that is under  *)
(* way changes nothing of it before it ends.                               *)
List == [entries |-> cache.entries, index |-> build_name_index(cache.indexed)]
Quiet == Loaded /\ \A r \in Refresh : at[r] \in {"idle", "over"}

FullNames(stock) == {normalize(stock.zh), normalize(stock.en)} \ {<<>>}
ShareAVariant(stock, full) ==
    \E name \in FullNames(stock) : name_variants(name) \intersect name_variants(full) # {}

(* A listed name looked up is its stock, unless another stock shares one   *)
(* of its variants: then it is nobody.  However short the name, and        *)
(* whatever longer names contain it.                                       *)
ListedNamesAreFound ==
    Quiet => LET list == List IN
       \A code \in DOMAIN list.entries : \A full \in FullNames(list.entries[code]) :
          search(list.index, full) =
             IF \E other \in DOMAIN list.entries \ {code} : ShareAVariant(list.entries[other], full)
             THEN {} ELSE {code}

(* The search by index, that scores variant by variant, answers as the     *)
(* matcher the proof of concept was measured with, where no name mixes its *)
(* scripts.                                                                *)
PlainStocks == {code \in DOMAIN cache.indexed : \A full \in FullNames(cache.indexed[code]) : ~ OfTwoScripts(full)}
SearchesAsMeasured ==
    Quiet => LET index == build_name_index(Restrict(cache.indexed, PlainStocks)) IN
       \A name \in Mention : ~ OfTwoScripts(name) => search(index, name) = Answer(index.names, name)

(* Each entity of the model's answer is verified, reported unverified or   *)
(* dropped as a duplicate, and no stock gets two EntityEvents, whatever    *)
(* codes and names the model wrote for it.                                 *)
EachStockOnce ==
    Quiet => LET list == List IN
       \A items \in Output, printed \in Printed :
          LET out == llm_process(list, items, printed)
          IN  /\ Len(out.verified) + Len(out.unverified) + Len(out.dropped) = Len(items)
              /\ IsInjective(out.verified)
              /\ ToSet(out.verified) \subseteq DOMAIN list.entries

=============================================================================
