--------------------------- MODULE SupplierSources ---------------------------
(* Where the offers for a product come from: the keywords that are searched  *)
(* (matchers/__init__.py), the searches of the open platform, of Scrapling   *)
(* and of the browser, the imported offers, and the offer page.              *)
(*                                                                           *)
(* A keyword is a record of its words and of what the code's patterns say    *)
(* about it: in Chinese (zh), a bare specification (spec), noise (noise).    *)
(* The answer to one request is a record: whether it could be had, and the   *)
(* ids of the offers on it.                                                  *)
EXTENDS PythonLists, SequencesExt

Heading(s, n) == SubSeq(s, 1, IF Len(s) < n THEN Len(s) ELSE n)

-----------------------------------------------------------------------------
(* Keywords.                                                                 *)

\* _dedupe_keywords: noise and repetitions are dropped, the order is kept.
Distinct(keywords) ==
  FoldLeft(LAMBDA kept, k : IF k.noise \/ \E i \in DOMAIN kept : kept[i].words = k.words
                            THEN kept ELSE Append(kept, k),
           <<>>, keywords)

Joined(core, modifier) ==
  [words |-> core.words \o modifier.words, zh |-> core.zh \/ modifier.zh,
   spec |-> FALSE, noise |-> core.noise /\ modifier.noise]

\* _extract_dimensional_keywords: a size between 50 ml and 100 l with its
\* label, a count up to 100, and the vague word for three measures.
DimensionalKeywords(sizes, counts, measured) ==
  LET word(w, vague) == [words |-> <<w>>, zh |-> vague, spec |-> TRUE, noise |-> TRUE]
      labels(s) == CASE s >= 500 -> <<word("large", TRUE)>>
                     [] s <= 200 -> <<word("small", TRUE)>>
                     [] OTHER    -> <<>>
      sized  == SelectSeq(sizes, LAMBDA s : s \in 50..100000)
      packed == SelectSeq(counts, LAMBDA n : n \in 1..100)
  IN  FoldLeft(LAMBDA ks, s : ks \o <<word(ToString(s), FALSE)>> \o labels(s), <<>>, sized)
        \o [i \in DOMAIN packed |-> [word(ToString(packed[i]), TRUE) EXCEPT !.noise = FALSE]]
        \o (IF measured THEN <<word("sizes", TRUE)>> ELSE <<>>)

\* _build_enriched_keywords: the words that are no specification, the Chinese
\* ones alone if there are any, then the first two with the first two
\* specifications.
EnrichedKeywords(dims, words) ==
  LET all   == Distinct(SelectSeq(words, LAMBDA k : ~k.spec))
      zh    == SelectSeq(all, LAMBDA k : k.zh)
      cores == IF zh = <<>> THEN all ELSE zh
      specs == Heading(FoldLeft(LAMBDA kept, k : IF k \in ToSet(kept) THEN kept ELSE Append(kept, k),
                                <<>>, SelectSeq(dims, LAMBDA k : k.spec /\ k.words \notin
                                                  {<<"large">>, <<"small">>, <<"sizes">>})), 2)
      with(core) == [i \in DOMAIN specs |-> Joined(core, specs[i])]
  IN  Distinct(cores \o FoldLeft(LAMBDA ks, core : ks \o with(core), <<>>, Heading(cores, 2)))

\* _supply_chain_keywords: every market word gives its translations, itself if
\* it is Chinese or has none.
SupplyChainKeywords(market) ==
  Distinct(FoldLeft(LAMBDA ks, m : ks \o m.translations
                       \o (IF m.word.zh \/ m.translations = <<>> THEN <<m.word>> ELSE <<>>),
                    <<>>, market))

\* _title_fallback_keywords: the categories and the material the title names,
\* the first category with the material before them, its features, and three
\* openings of the title.
TitleKeywords(title) ==
  LET named == title.material # <<>> /\ title.categories # <<>>
  IN  Distinct((IF named THEN <<Joined(Head(title.material), Head(title.categories))>> ELSE <<>>)
               \o title.categories \o title.material \o title.features \o title.openings)

\* The keywords of match_suppliers: the twelve queries of a product of a target
\* category, or what the market, the picture (or the title) and the
\* specifications give.  The second call of _build_enriched_keywords gets what
\* the first one made in the place of the specifications, and keeps nothing of
\* it that is no specification.
SearchPlan(product, vision) ==
  LET seen  == IF vision.ok /\ product.image THEN vision.keywords ELSE TitleKeywords(product.title)
      plain == EnrichedKeywords(DimensionalKeywords(product.sizes, product.counts, product.measured),
                                SupplyChainKeywords(product.market) \o seen)
  IN  CASE product.queries # <<>> -> product.queries
        [] product.queries = <<>> /\ ~(vision.ok /\ product.image) -> plain
        [] OTHER -> EnrichedKeywords(plain, <<vision.category, vision.title>>)

-----------------------------------------------------------------------------
(* Searches.                                                                 *)

\* The offers of the answers i \in asked that could be had.
OffersOf(answers, asked) == UNION {ToSet(answers[i].offers) : i \in {i \in asked : answers[i].ok}}

\* The keywords that are searched until there is enough.
Asked(answers, limit) ==
  {i \in DOMAIN answers : Cardinality(OffersOf(answers, 1..(i - 1))) < limit}

\* What sort(...)[:limit] may leave: of equals any may be the first.
Leading(found, better, limit) ==
  {first \in SUBSET found :
     /\ Cardinality(first) <= limit
     /\ first # found => Cardinality(first) = limit
     /\ \A o \in first, p \in found \ first : <<p, o>> \notin better}

\* sort(key=monthly_sales, reverse=True)[:limit]
BestSelling(found, sales, limit) ==
  Leading(found, {pair \in found \X found : sales[pair[1]] > sales[pair[2]]}, limit)

\* Alibaba1688TextSearch.search: keyword by keyword until there is enough; a
\* keyword whose three requests failed is passed over.
TextSearch(answers, sales, limit) ==
  BestSelling(OffersOf(answers, Asked(answers, limit)), sales, limit)

\* AlibabaPifatuanSearch._search_with_api: here a keyword that fails ends the
\* search with that interface, and what was found is lost.
PifatuanWith(answers, sales, limit) ==
  IF \E i \in Asked(answers, limit) : ~answers[i].ok THEN {{}} ELSE TextSearch(answers, sales, limit)

\* AlibabaPifatuanSearch.search: the first interface that finds something.
PifatuanSearch(first, second, sales, limit) ==
  IF PifatuanWith(first, sales, limit) = {{}} THEN PifatuanWith(second, sales, limit)
  ELSE PifatuanWith(first, sales, limit)

\* The first n offers of a page.
Shown(offers, n) == {offers[k] : k \in {k \in DOMAIN offers : k <= n}}

\* p is on a page before any that has o, or before o on the same page.
SeenBefore(answers, p, o) ==
  \E i \in DOMAIN answers : \E k \in DOMAIN answers[i].offers :
    /\ answers[i].ok /\ answers[i].offers[k] = p
    /\ o \notin OffersOf(answers, 1..(i - 1)) \cup Shown(answers[i].offers, k)

\* Alibaba1688ScraplingMatcher.search_by_keyword: the limit also holds within a
\* page; a page that leads to the login is passed over like one that failed.
ScraplingSearch(answers, limit) ==
  LET found == OffersOf(answers, DOMAIN answers)
  IN  {o \in found : Cardinality({p \in found : SeenBefore(answers, p, o)}) < limit}

\* How many offers the browser takes from the page of one keyword.
PageLimit(had, limit, exhaustive) ==
  CASE exhaustive /\ limit > 5 -> 5
    [] exhaustive /\ limit < 1 -> 1
    [] exhaustive /\ limit \in 1..5 -> limit
    [] OTHER -> limit - Cardinality(had)

Batch(answer, n) == IF answer.page = "offers" THEN Shown(answer.offers, n) ELSE {}

\* What has been found after each keyword.
Gained(answers, limit, exhaustive) ==
  LET found[n \in 0..Len(answers)] ==
        IF n = 0 THEN {}
        ELSE found[n - 1] \cup Batch(answers[n], PageLimit(found[n - 1], limit, exhaustive))
  IN  found

\* What is recorded of a keyword.
Attempt(answer, n) ==
  CASE answer.page = "tmd"   -> [status |-> "failed", error |-> "CAPTCHA", refs |-> {}]
    [] answer.page = "login" -> [status |-> "failed", error |-> "AUTH_REQUIRED", refs |-> {}]
    [] answer.page = "error" -> [status |-> "failed", error |-> "INTERNAL", refs |-> {}]
    [] OTHER -> [status |-> "completed", error |-> None, refs |-> Shown(answer.offers, n)]

\* Alibaba1688PlaywrightMatcher.search_by_keyword.  A TMD page raises inside
\* the loop over the keywords and is caught there like any other failure; a
\* login page is recorded and passed over.  Exhaustive, every keyword is asked
\* for up to five offers; else the keywords end when there is enough.
BrowserSearch(answers, sales, limit, exhaustive) ==
  LET found == Gained(answers, limit, exhaustive)
      asked == {i \in DOMAIN answers : exhaustive \/ Cardinality(found[i - 1]) < limit}
  IN  [found : BestSelling(found[Len(answers)], sales, limit),
       attempts : {[i \in asked |-> Attempt(answers[i], PageLimit(found[i - 1], limit, exhaustive))]}]

\* Mutant of QueryAttempt: a query is complete whatever became of its offers.
QueryAttempt_Unevaluated(attempts, i, evaluated) ==
  CASE i \notin DOMAIN attempts -> [status |-> "not_started", error |-> None, hits |-> {}]
    [] i \in DOMAIN attempts /\ attempts[i].status # "completed" ->
         [status |-> "failed", error |-> attempts[i].error, hits |-> {}]
    [] OTHER -> [status |-> "completed", error |-> IF attempts[i].refs = {} THEN "NO_RESULTS" ELSE None,
                 hits |-> attempts[i].refs]

\* evaluate_prefetched_suppliers, the part about the queries: what is kept of
\* the i-th one, given the offers that are evaluated.
QueryAttempt(attempts, i, evaluated) ==
  CASE i \notin DOMAIN attempts -> [status |-> "not_started", error |-> None, hits |-> {}]
    [] i \in DOMAIN attempts /\ attempts[i].status # "completed" ->
         [status |-> "failed", error |-> attempts[i].error, hits |-> {}]
    [] i \in DOMAIN attempts /\ attempts[i].status = "completed" /\ ~(attempts[i].refs \subseteq evaluated) ->
         [status |-> "partial", error |-> None, hits |-> {}]
    [] OTHER -> [status |-> "completed", error |-> IF attempts[i].refs = {} THEN "NO_RESULTS" ELSE None,
                 hits |-> attempts[i].refs]

\* find_imported_suppliers: the imported offers some keyword, or an alias of
\* it, occurs in; the most relevant and then the latest first.
ImportedSuppliers(imports, keywords, limit) ==
  LET terms == UNION {ToSet(keywords[i].words) : i \in DOMAIN keywords}
      score(o) == Cardinality(imports[o].terms \cap terms)
      found == {o \in DOMAIN imports : score(o) > 0}
      better(o, p) == score(o) > score(p) \/ (score(o) = score(p) /\ imports[o].at > imports[p].at)
  IN  Leading(found, {pair \in found \X found : better(pair[1], pair[2])}, limit)

-----------------------------------------------------------------------------
(* The offer page.                                                           *)

\* What _should_enrich_supplier_detail looks for.
NeededFields == {"moq", "delivery_days", "product_dimensions_cm", "product_weight_g", "risk_flags"}

\* Mutant of SameOffer: the expected id has to be among those of the page.
SameOffer_Contains(ids, expected) == expected \in ids

\* The ids of the page are the expected one and nothing else.
SameOffer(ids, expected) == ids = {expected}

\* The object with the most fields, the first of them, speaks for the page.
BestObject(page) ==
  LET count(i) == Cardinality(page.objects[i].fields)
  IN  IF page.objects = <<>> THEN [fields |-> {}, ids |-> {}]
      ELSE page.objects[CHOOSE i \in DOMAIN page.objects :
             \A j \in DOMAIN page.objects : count(i) > count(j) \/ (count(i) = count(j) /\ i <= j)]

\* The ids in the address, in the canonical link and in that object.
NamedIds(page) == page.url \cup page.canonical \cup BestObject(page).ids

\* parse_1688_offer_detail_html: a page with a marker of a block is none; the
\* ids of the page have to be the expected one and nothing else.
OfferDetail(page, expected) ==
  LET ids == NamedIds(page)
  IN  CASE page.marker # None -> [outcome |-> page.marker]
        [] page.marker = None /\ ids = {} /\ page.signs < 2 -> [outcome |-> "INVALID_OFFER_PAGE"]
        [] page.marker = None /\ ids = {} /\ page.signs >= 2 /\ expected # None ->
             [outcome |-> "OFFER_ID_UNVERIFIED"]
        [] page.marker = None /\ expected # None /\ ids # {} /\ ~SameOffer(ids, expected) ->
             [outcome |-> "OFFER_ID_MISMATCH"]
        [] OTHER -> [outcome |-> "detail", fields |-> page.text \cup BestObject(page).fields]

\* apply_1688_detail_to_supplier: only what the offer does not have is filled
\* in; the detail itself replaces the one the offer carries.
WithDetail(offer, detail) ==
  [offer EXCEPT !.has = @ \cup (detail.fields \cap NeededFields), !.detail = detail]
=============================================================================
