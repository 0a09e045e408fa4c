------------------------- MODULE SubsequenceMatcher -------------------------
(***************************************************************************)
(* The matcher of the proof of concept, with the features of its round S8  *)
(* on: the design hk_stock_list.py was written from.  It goes through all  *)
(* names of one script, and takes a name for English or Chinese as a       *)
(* whole, never variant by variant.  Its further generic tails are left    *)
(* out: they are traditional characters, which normalizing has replaced.   *)
(***************************************************************************)
EXTENDS StockNames

(* The ways to find short in long: the places of its characters.           *)
Embeddings(short, long) ==
    {places \in SUBSET DOMAIN long :
        /\ Cardinality(places) = Len(short)
        /\ \A p \in places : long[p] = short[Cardinality({o \in places : o <= p})]}

(* Of those that end first, the one that starts last.                      *)
Tightest(short, long) ==
    LET found == Embeddings(short, long)
        end == Min({Max(places) : places \in found})
    IN  [first |-> Max({Min(places) : places \in {f \in found : Max(f) = end}}), last |-> end]

Hits(words, others) ==
    {i \in DOMAIN words : \E j \in DOMAIN others :
        others[j] = words[i] \/ (Len(words[i]) >= 3 /\ IsPrefix(words[i], others[j]))}

LatinKey(q, name) ==
    IF Hits(name, q) = DOMAIN name /\ Letters(name) >= 3
    THEN <<4, Share(Len(name), Len(q)), Len(name)>>
    ELSE IF Hits(q, name) = DOMAIN q THEN <<3, Share(Len(q), Len(name)), - Length(name)>>
    ELSE NoScore

ChineseKey(q, name) ==
    LET span == Tightest(q, name)
    IN  IF Len(q) < 2 THEN NoScore
        ELSE IF q = name THEN <<9, Scale, 0>>
        ELSE IF Len(q) <= Len(name) /\ Embeddings(q, name) # {}
        THEN <<5, Share(Len(q), span.last - span.first + 1),
               IF span.first = 1 THEN 1 ELSE 0, Share(Len(q), Len(name)), - Len(name)>>
        ELSE IF Len(name) \in 3..Len(q) - 1 /\ Embeddings(name, q) # {}
        THEN <<4, Share(Len(name), Len(q)), Len(name)>> ELSE NoScore

Keys(entry, query) ==
    {IF isascii(query) THEN LatinKey(q, n) ELSE ChineseKey(Chars(q), Chars(n)) :
        q \in name_variants(query), n \in entry.variants} \ {NoScore}

(* The names of the query's script; English ones share a word's start.     *)
Candidates(names, query) ==
    {e \in names :
        /\ e.latin = isascii(query)
        /\ e.latin => Prefixes3(e.variants) \intersect Prefixes3(name_variants(query)) # {}}

Answer(names, query) ==
    LET exact == {e.stock_code : e \in {n \in names : n.variants \intersect name_variants(query) # {}}}
        keyed == {e \in Candidates(names, query) : Keys(e, query) # {}}
        top == Highest(UNION {Keys(e, query) : e \in keyed})
        tied == {e.stock_code : e \in {k \in keyed : top \in Keys(k, query)}}
    IN  IF exact # {} THEN (IF Cardinality(exact) = 1 THEN exact ELSE {})
        ELSE IF keyed # {} /\ Cardinality(tied) = 1 THEN tied ELSE {}

(* A name one of whose variants reads as English although it does not.     *)
OfTwoScripts(full) == \E v \in name_variants(full) : isascii(v) # isascii(full)

=============================================================================
