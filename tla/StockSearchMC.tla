--------------------------- MODULE StockSearchMC ----------------------------
(* Instances of StockSearch for TLC.  Between the first and the second     *)
(* publication one stock is delisted, one renamed and two are new, of      *)
(* which one has no English name and one a Chinese name that is English    *)
(* without its suffix; the third has no equities.  c8 is an RMB counter.   *)
EXTENDS StockSearch, TLC

CONSTANTS c1, c2, c3, c4, c8, NoCode

Letters26 == {"a", "b", "c", "d", "g", "h", "k", "l", "o", "p", "t"}
ltd == <<"l", "t", "d">>
abc == <<"a", "b", "c">>
abcd == <<"a", "b", "c", "d">>
ck == <<"c", "k">>
hh == <<"h", "h">>
gp == <<"g", "p">>
LegalWords == {ltd, <<"c", "o">>}
GenericWords == {gp}

Plain(text) == [text |-> text, marker |-> ""]
Rmb(text) == [text |-> text, marker |-> "R"]

Tencent == <<<<"teng", "xun">> \o Holdings>>
Renshou == <<<<"zhong", "guo", "ren", "shou">>>>
Zhongren == <<<<"zhong", "ren">> \o Shares \o Limited>>
Mixed == <<abc \o Company>>

MCPublication ==
  <<[en |-> c1 :> Plain(<<abc, ltd>>) @@ c2 :> Plain(<<abcd, hh>>) @@ c8 :> Rmb(<<abc, ltd>>),
     zh |-> c1 :> Plain(Tencent) @@ c2 :> Plain(Zhongren) @@ c8 :> Rmb(Tencent),
     equities |-> {c1, c2, c8}],
    [en |-> c1 :> Plain(<<abc, gp, ltd>>) @@ c3 :> Plain(<<ck, hh>>),
     zh |-> c1 :> Plain(Tencent) @@ c3 :> Plain(Renshou) @@ c4 :> Plain(Mixed),
     equities |-> {c1, c3, c4}],
    [en |-> c1 :> Plain(<<abc, gp, ltd>>), zh |-> c1 :> Plain(Tencent), equities |-> {}]>>

MCMention ==
  {Tencent, Renshou, Zhongren, Mixed, <<<<"teng", "xun">>>>, <<<<"zhong", "ren">>>>,
   <<<<"xun", "kong">>>>, <<<<"ren">>>>, <<<<"teng", "xun">> \o Holdings \o Limited>>,
   <<<<"guo", "ren", "gu">>>>, <<<<"zhong", "guo", "zhong", "ren">>>>,
   <<<<"zhong", "zhong", "guo", "ren", "shou", "gu">>>>,
   <<abc>>, <<abcd>>, <<abc, ltd>>, <<<<"a", "b">>>>, <<abcd, gp>>, <<ck>>, <<hh, ck>>,
   <<ck, hh, abc>>, <<abcd, hh, ltd>>, <<hh>>, <<ltd>>, <<<<"a", "b", "c", "d", "d">>, hh>>}

(* One stock under its code and by name, twice by name, and with a code    *)
(* that is another's, nobody's or missing.                                 *)
Extracted(code, name) == [stock_code |-> code, company_name |-> name]
ByCode == Extracted(c1, <<abcd, hh>>)
ByName == Extracted(NoCode, <<<<"teng", "xun">>>>)
ByBoth == Extracted(c1, Tencent)
Miscoded == Extracted(c3, Tencent)
Unknown == Extracted(c4, <<<<"ren">>>>)
MCOutput ==
  {<<ByName, ByBoth>>, <<ByBoth, ByName>>, <<ByCode, Miscoded>>, <<Miscoded, Unknown>>,
   <<ByName, Unknown, ByName>>}

SyncSymmetry == Permutations(Sync)

=============================================================================
