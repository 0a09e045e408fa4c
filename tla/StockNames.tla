----------------------------- MODULE StockNames -----------------------------
(***************************************************************************)
(* How hk_stock_list.py tells which listed stock a company name means.     *)
(*                                                                         *)
(* A normalized text is a sequence of words, and a word one of characters; *)
(* a text that is not all ASCII is one word, since normalizing removes its *)
(* spaces.  A listed name is a text and the counter marker after it, which *)
(* normalizing drops.  Folding of case, width and traditional characters,  *)
(* and the punctuation of English names, are left out.  Ratios are scaled  *)
(* to integers, exact for texts of up to ten characters or words.          *)
(***************************************************************************)
EXTENDS Integers, Sequences, FiniteSets, FiniteSetsExt, SequencesExt

CONSTANTS
    Ascii,              \* the ASCII characters
    EN_LEGAL_WORDS,
    EN_GENERIC_WORDS

LATIN_PREFIX_LEN == 3
CJK_MIN_QUERY_LEN == 2
Scale == 2520

Company == <<"gong", "si">>
Limited == <<"you", "xian">> \o Company
Shares == <<"gu", "fen">>
Holdings == <<"kong", "gu">>

isascii(text) == \A i \in DOMAIN text : ToSet(text[i]) \subseteq Ascii
Text == {text \in Seq(Seq(STRING)) : isascii(text) \/ Len(text) = 1}
Word(chars) == IF chars = <<>> THEN <<>> ELSE <<chars>>
(* A text as a string, with one space between two words.                   *)
Chars(text) ==
    FlattenSeq([i \in DOMAIN text |-> IF i = 1 THEN text[i] ELSE <<" ">> \o text[i]])
Length(text) == Len(Chars(text))
Letters(text) == Len(FlattenSeq(text))
Share(part, whole) == (part * Scale) \div whole

-----------------------------------------------------------------------------
(* The variants of a name.                                                 *)
normalize(name) == name.text

Without(words, text) ==
    FlattenSeq([i \in DOMAIN text |-> IF text[i] \in words THEN <<>> ELSE <<text[i]>>])

LegalSuffixes == {Shares \o Limited, Limited, Company}
WithoutLegalSuffix(chars) ==
    LET found == {Len(s) : s \in {t \in LegalSuffixes : IsSuffix(t, chars)}}
    IN  SubSeq(chars, 1, Len(chars) - Max(found \union {0}))

(* From the k-th character on there is nothing but generic tails.          *)
GenericFrom(chars, k) ==
    /\ (Len(chars) - k + 1) % 2 = 0
    /\ \A i \in 0..((Len(chars) - k + 1) \div 2) - 1 :
          SubSeq(chars, k + 2 * i, k + 2 * i + 1) \in {Holdings, Shares}
WithoutGenericTail(chars) ==
    SubSeq(chars, 1, Min({k \in 1..Len(chars) + 1 : GenericFrom(chars, k)}) - 1)

Legal(full) ==
    IF isascii(full) THEN Without(EN_LEGAL_WORDS, full) ELSE Word(WithoutLegalSuffix(full[1]))
Generic(full) ==
    IF isascii(full) THEN Without(EN_GENERIC_WORDS, Legal(full))
    ELSE Word(WithoutGenericTail(Chars(Legal(full))))

name_variants(full) == {full, Legal(full), Generic(full)} \ {<<>>}

-----------------------------------------------------------------------------
(* The index of a stock list, [code -> [zh, en: its listed names]].        *)
NameEntries(entries, code) ==
    {[stock_code |-> code, variants |-> name_variants(full), latin |-> isascii(full)] :
        full \in {normalize(entries[code].zh), normalize(entries[code].en)} \ {<<>>}}

LongWords(variants) == {w \in UNION {ToSet(v) : v \in variants} : Len(w) >= LATIN_PREFIX_LEN}
Prefixes3(variants) == {SubSeq(w, 1, LATIN_PREFIX_LEN) : w \in LongWords(variants)}

build_name_index(entries) ==
    LET names == UNION {NameEntries(entries, code) : code \in DOMAIN entries}
        latin == {e \in names : e.latin}
    IN  [names |-> names,
         names_by_code |-> [code \in {e.stock_code : e \in names} |-> NameEntries(entries, code)],
         names_by_latin_prefix |->
            [p \in UNION {Prefixes3(e.variants) : e \in latin} |->
                {e \in latin : p \in Prefixes3(e.variants)}]]

-----------------------------------------------------------------------------
(* Subsequences.  Each character is looked for after the one before it:    *)
(* Places[i] is where the i-th was found, past the end if it was not.      *)
Places(short, long) ==
    LET at[i \in 0..Len(short)] ==
          IF i = 0 THEN 0
          ELSE LET last == at[i - 1]
                   later == {p \in last + 1..Len(long) : long[p] = short[i]}
               IN  IF later = {} THEN Len(long) + 1 ELSE Min(later)
    IN  at
is_subsequence(short, long) == Places(short, long)[Len(short)] <= Len(long)

(* From the earliest end, each character is looked for backwards.          *)
subsequence_span(short, long) ==
    LET end == Places(short, long)[Len(short)]
        back[i \in 1..Len(short) + 1] ==
          IF i > Len(short) THEN end + 1
          ELSE LET next == back[i + 1]
               IN  Max({p \in 1..next - 1 : long[p] = short[i]})
    IN  [first |-> back[1], last |-> end]

-----------------------------------------------------------------------------
(* Scores: tuples compared from the left, NoScore if nothing matches.      *)
NoScore == <<>>

Higher(s, t) ==
    \E i \in DOMAIN s \intersect DOMAIN t :
       s[i] > t[i] /\ \A j \in 1..i - 1 : s[j] = t[j]
Highest(scores) == CHOOSE s \in scores : \A t \in scores : ~ Higher(t, s)

latin_word_hits(words, others) ==
    Cardinality({i \in DOMAIN words : \E j \in DOMAIN others :
        \/ others[j] = words[i]
        \/ Len(words[i]) >= LATIN_PREFIX_LEN /\ IsPrefix(words[i], others[j])})

LatinScore(q, n) ==
    LET name_hits == latin_word_hits(n, q)
        query_hits == latin_word_hits(q, n)
    IN  IF name_hits = Len(n) /\ Letters(n) >= LATIN_PREFIX_LEN
        THEN <<4, Share(name_hits, Len(q)), Len(n)>>
        ELSE IF query_hits = Len(q) THEN <<3, Share(query_hits, Len(n)), - Length(n)>> ELSE NoScore

(* Mutant of ChineseScore: a listed name of two characters may be found in *)
(* a longer mention.                                                       *)
ChineseScoreShort(q, n) ==
    IF Len(q) < CJK_MIN_QUERY_LEN THEN NoScore
    ELSE IF is_subsequence(q, n)
    THEN LET span == subsequence_span(q, n)
         IN  <<5, Share(Len(q), span.last - span.first + 1),
               IF span.first = 1 THEN 1 ELSE 0, Share(Len(q), Len(n)), - Len(n)>>
    ELSE IF Len(n) \in 2..Len(q) - 1 /\ is_subsequence(n, q)
    THEN <<4, Share(Len(n), Len(q)), Len(n)>> ELSE NoScore

(* The test on the sets of characters only saves time.                     *)
ChineseScore(q, n) ==
    IF Len(q) < CJK_MIN_QUERY_LEN THEN NoScore
    ELSE IF is_subsequence(q, n)
    THEN LET span == subsequence_span(q, n)
         IN  <<5, Share(Len(q), span.last - span.first + 1),
               IF span.first = 1 THEN 1 ELSE 0, Share(Len(q), Len(n)), - Len(n)>>
    ELSE IF Len(n) \in 3..Len(q) - 1 /\ is_subsequence(n, q)
    THEN <<4, Share(Len(n), Len(q)), Len(n)>> ELSE NoScore

score(q, n) ==
    IF isascii(q) # isascii(n) THEN NoScore
    ELSE IF isascii(q) THEN LatinScore(q, n)
    ELSE ChineseScore(Chars(q), Chars(n))

-----------------------------------------------------------------------------
(* Search.                                                                 *)
scoring_pool(index, full) ==
    IF isascii(full)
    THEN UNION {index.names_by_latin_prefix[p] :
            p \in Prefixes3(name_variants(full)) \intersect DOMAIN index.names_by_latin_prefix}
    ELSE {e \in index.names : ~ e.latin}

Scores(entry, full) == {score(q, n) : q \in name_variants(full), n \in entry.variants} \ {NoScore}

best_scoring_codes(pool, full) ==
    LET best(e) == Highest(Scores(e, full))
        matching == {e \in pool : Scores(e, full) # {}}
    IN  {e.stock_code : e \in {m \in matching : \A o \in matching : ~ Higher(best(o), best(m))}}

ExactCodes(index, full) ==
    {e.stock_code : e \in {n \in index.names : n.variants \intersect name_variants(full) # {}}}

(* Mutant of Codes: a name that contains another is not told from it.      *)
CodesByScore(index, full) == best_scoring_codes(scoring_pool(index, full), full)

Codes(index, full) ==
    IF ExactCodes(index, full) # {} THEN ExactCodes(index, full)
    ELSE best_scoring_codes(scoring_pool(index, full), full)

(* lookup_stock: the one code, or none.                                    *)
search(index, full) == IF Cardinality(Codes(index, full)) = 1 THEN Codes(index, full) ELSE {}

(* name_matches_stock; 0.6 is 3/5.                                         *)
name_matches_stock(index, full, code) ==
    /\ code \in DOMAIN index.names_by_code
    /\ \E q \in name_variants(full) : \E e \in index.names_by_code[code] : \E n \in e.variants :
          \/ is_subsequence(Chars(q), Chars(n))
          \/ 5 * Length(n) >= 3 * Length(q) /\ is_subsequence(Chars(n), Chars(q))

=============================================================================
