-------------------------- MODULE SupplierMatching --------------------------
(* How well an offer matches a product: the heuristic verifier and the two   *)
(* visual verifiers of matchers/verifier.py, and the evidence record with    *)
(* its decision of matchers/match_evidence.py.                               *)
(*                                                                           *)
(* Scores are thousandths; a boolean or number the code may not have is one  *)
(* of "yes", "no", "none" or Unknown.                                        *)
EXTENDS ProductProfiles

SCORE_DEFAULT  == 450
THRESHOLD_PASS == 400

Clamp(n) == Larger(0, Smaller(1000, n))

\* A weighted mean over the parts that are known; Unknown when none is.
WeightedMean(weight, value) ==
  LET known == {p \in DOMAIN weight : value[p] # Unknown}
  IN  IF known = {} THEN Unknown
      ELSE MapThenSumSet(LAMBDA p : weight[p] * value[p], known) \div Total(weight, known)

\* The step scales of sales, delivery, minimum order and price: the score of
\* the first step the value reaches.
AtLeast(value, steps, floor) ==
  LET hits == {i \in DOMAIN steps : value >= steps[i][1]}
  IN  IF value = Unknown THEN Unknown ELSE IF hits = {} THEN floor ELSE steps[Min(hits)][2]

AtMost(value, steps, floor) ==
  LET hits == {i \in DOMAIN steps : value <= steps[i][1]}
  IN  IF value = Unknown THEN Unknown ELSE IF hits = {} THEN floor ELSE steps[Min(hits)][2]

\* _supplier_quality_score: sales, repeat buyers, factory, delivery.  A repeat
\* rate above 1 was given in percent; here it is in thousandths or in percent
\* times a thousand.
QualityScore(o) ==
  WeightedMean([sales |-> 35, repeat |-> 30, factory |-> 25, delivery |-> 10],
    [sales    |-> AtLeast(o.sales, <<<<5000, 1000>>, <<1000, 850>>, <<300, 700>>, <<50, 550>>>>, 350),
     repeat   |-> IF o.repeat = Unknown THEN Unknown
                  ELSE Clamp(IF o.repeat > 1000 THEN o.repeat \div 100 ELSE o.repeat),
     factory  |-> CASE o.factory = None -> Unknown [] o.factory = "yes" -> 1000 [] OTHER -> 450,
     delivery |-> AtMost(o.delivery, <<<<7, 1000>>, <<15, 850>>, <<30, 650>>>>, 350)])

\* _supplier_business_score: minimum order and price.
BusinessScore(o) ==
  WeightedMean([moq |-> 65, price |-> 35],
    [moq   |-> AtMost(o.moq, <<<<50, 1000>>, <<100, 850>>, <<300, 650>>, <<500, 450>>>>, 250),
     price |-> AtMost(o.price, <<<<20, 1000>>, <<50, 800>>, <<100, 600>>>>, 400)])

OrZero(n) == IF n = Unknown THEN 0 ELSE n

\* _candidate_score and _update_supplier_rank_scores: the match weighs 0.65.
CandidateScore(match, quality, business) ==
  (65 * Clamp(OrZero(match)) + 25 * OrZero(quality) + 10 * OrZero(business)) \div 100

Ranked(o) == [o EXCEPT !.rank = CandidateScore(o.score, QualityScore(o), BusinessScore(o))]

\* _supplier_sort_key, with reverse=True.
RanksBefore(o, p) ==
  \/ o.rank > p.rank
  \/ o.rank = p.rank /\ o.score > p.score
  \/ o.rank = p.rank /\ o.score = p.score
       /\ OrZero(QualityScore(o)) > OrZero(QualityScore(p))

\* sort() is stable: equals keep their order.
SortedByRank(offers) ==
  LET before(i, j) == RanksBefore(offers[i], offers[j])
                        \/ (~RanksBefore(offers[j], offers[i]) /\ i < j)
      order == Arranged(DOMAIN offers, {pair \in (DOMAIN offers) \X (DOMAIN offers) : before(pair[1], pair[2])})
  IN  [k \in DOMAIN order |-> offers[order[k]]]

-----------------------------------------------------------------------------
(* The heuristic verifier.                                                   *)

\* _attribute_score; dimensions on the offer count half whatever they are.
AttributeScore(o, analysis) ==
  LET checks == (IF analysis.material # None THEN {"material"} ELSE {})
                  \cup (IF analysis.color # None THEN {"color"} ELSE {})
                  \cup (IF o.dimensions # <<>> THEN {"dimensions"} ELSE {})
      passed == MapThenSumSet(LAMBDA c :
                  CASE c = "material" -> IF o.material = analysis.material THEN 1000 ELSE 0
                    [] c = "color" -> IF "multi" \in {o.color, analysis.color} \/ o.color = analysis.color
                                        THEN IF o.color = None THEN 0 ELSE 1000 ELSE 0
                    [] OTHER -> 500, checks)
  IN  IF analysis = NoAnalysis \/ checks = {} THEN SCORE_DEFAULT
      ELSE passed \div Cardinality(checks)

\* _keyword_title_score: a whole keyword is a full hit, two or more of its
\* bigrams a partial one; a keyword that is only a quantity says nothing.
KeywordTitleScore(o) ==
  Max({0} \cup {IF k.whole THEN 1000 ELSE IF k.hits >= 2 THEN Smaller((1000 * k.hits) \div k.grams, 1000) ELSE 0
                : k \in {w \in o.keywords : ~w.onlyQuantity}})

\* _title_score.
TitleScore(o, analysis) ==
  LET facts == (IF analysis.category # None THEN {"category"} ELSE {})
                 \cup (IF analysis.features # {} THEN {"features"} ELSE {})
                 \cup (IF analysis.material # None THEN {"material"} ELSE {})
                 \cup (IF o.keywords # {} THEN {"keywords"} ELSE {})
      worth(f) ==
        CASE f = "category" -> IF analysis.category \in o.title THEN 1000 ELSE 0
          [] f = "features" -> (1000 * Cardinality(analysis.features \cap o.title))
                                  \div Cardinality(analysis.features)
          [] f = "material" -> IF analysis.material \in o.title THEN 1000 ELSE 0
          [] OTHER -> KeywordTitleScore(o)
  IN  IF o.title = {} \/ facts = {} THEN SCORE_DEFAULT
      ELSE MapThenSumSet(worth, facts) \div Cardinality(facts)

\* _title_is_relevant: an offer with no title is not.
TitleIsRelevant(o, analysis) ==
  /\ o.title # {}
  /\ (analysis.category # None /\ analysis.category \in o.title) \/ KeywordTitleScore(o) > 0

\* What Alibaba1688Verifier.verify makes of an offer, with its specification
\* and its profile compared to the product's.  A title that is not relevant,
\* the family conflict and the rejected profile are hard gates; other conflicts
\* scale the score down and a profile under review caps it below one half.
Judgement(o, analysis, aimed, spec, pm) ==
  LET semantic == IF aimed THEN pm.score ELSE spec.score
      visual  == IF o.similarity = Unknown THEN 0 ELSE Clamp(o.similarity)
      heuristic == (40 * AttributeScore(o, analysis) + 60 * TitleScore(o, analysis)) \div 100
      plain   == (55 * heuristic + 30 * semantic + 15 * visual) \div 100
      count   == Cardinality(spec.conflicts)
      scaled  == IF count = 0 THEN plain ELSE (plain * Larger(450, 1000 - 150 * count)) \div 1000
      review  == aimed /\ pm.decision = "manual_review"
      refused == "category" \in spec.conflicts \/ (aimed /\ pm.decision = "reject")
      off     == o.method # "mock" /\ ~TitleIsRelevant(o, analysis)
      score   == IF off \/ refused THEN 0 ELSE IF review THEN Smaller(scaled, 490) ELSE scaled
  IN  [score     |-> score,
       specScore |-> IF off THEN 0 ELSE semantic,
       conflicts |-> spec.conflicts \cup (IF off THEN {"title_relevance"}
                                          ELSE IF aimed THEN pm.conflicts ELSE {}),
       method    |-> CASE score <= THRESHOLD_PASS -> "heuristic_rejected"
                       [] score > THRESHOLD_PASS /\ review -> "manual_review"
                       [] OTHER -> "heuristic"]

OfferJudged(o, judgement) ==
  Ranked([o EXCEPT !.score = judgement.score, !.specScore = judgement.specScore,
                   !.conflicts = judgement.conflicts, !.method = judgement.method])

\* Alibaba1688Verifier.verify: every offer is judged in place, what it returns
\* is the ranked list of those above the threshold.
Verified(offers, analysis, target, profile) ==
  [i \in DOMAIN offers |->
     OfferJudged(offers[i], Judgement(offers[i], analysis, profile.family # None,
                                      CompareSpecs(target, offers[i].spec, offers[i].title),
                                      CompareTargetProfiles(profile, offers[i].profile)))]
KeptOf(judged) ==
  LET sorted == SortedByRank(judged)
  IN  Picked(sorted, {i \in DOMAIN sorted : sorted[i].score > THRESHOLD_PASS})

-----------------------------------------------------------------------------
(* The visual verifiers.                                                     *)

\* llm_eligible_suppliers.
LlmEligible(offers, minMatch, minSpec) ==
  {i \in DOMAIN offers : /\ offers[i].image
                         /\ OrZero(offers[i].score) >= minMatch
                         /\ offers[i].specScore >= minSpec
                         /\ offers[i].conflicts = {}}

\* _compare_images, _call_llm, _parse_response: a picture that cannot be
\* loaded and an answer that cannot be parsed are both "no match, 0.3".
Comparison(answer) ==
  CASE answer.outcome \in {"download_failed", "unparsable"} -> [match |-> "no", confidence |-> 300]
    [] answer.outcome = "answered" -> [match |-> answer.match, confidence |-> answer.confidence]
    [] OTHER -> [match |-> None, confidence |-> 0]

\* LLMVisualVerifier.verify for one offer; an error or an answer that is not a
\* boolean asks for a person and leaves the offer without a score.
LlmJudged(o, answer) ==
  LET c == Comparison(answer)
  IN  Ranked(CASE c.match = "yes" ->
                    [o EXCEPT !.score = (60 * c.confidence + 40 * OrZero(@)) \div 100,
                              !.method = "llm", !.visual = "yes"]
               [] c.match = "no" -> [o EXCEPT !.score = 0, !.method = "llm_rejected", !.visual = "no"]
               [] OTHER -> [o EXCEPT !.score = 0, !.method = "llm_failed", !.visual = "malformed"])

\* LLMVisualVerifier.verify: the first topK eligible offers with a picture are
\* judged, then the whole list is sorted and cut at 0.3.
LlmVerified(offers, eligible, topK, answer) ==
  LET first == {i \in eligible : Cardinality({j \in eligible : j < i}) < topK}
      sorted == SortedByRank([i \in DOMAIN offers |-> IF i \in first THEN LlmJudged(offers[i], answer) ELSE offers[i]])
  IN  IF first = {} THEN offers ELSE Picked(sorted, {i \in DOMAIN sorted : OrZero(sorted[i].score) > 300})

\* verify_pair and its provider call: all pictures of both sides, at least one
\* of each loaded, a cached answer when the same evidence was judged before,
\* and an answer that fails the schema is no answer.
PairVerdict(pair) ==
  CASE pair.amazonLoaded = 0 \/ pair.supplierLoaded = 0 -> "image_evidence_unavailable"
    [] pair.amazonLoaded > 0 /\ pair.supplierLoaded > 0 /\ pair.reply = "error" -> "provider_failure"
    [] pair.amazonLoaded > 0 /\ pair.supplierLoaded > 0 /\ pair.reply \notin {"yes", "no", "error"} -> "schema_validation"
    [] OTHER -> pair.reply

\* _verify_target_supplier_images: the first topK offers with a picture whose
\* profile is not rejected; an error leaves something that is no verdict.
TargetImagesVerified(offers, profile, topK, pair) ==
  LET eligible == {i \in DOMAIN offers :
                     offers[i].image /\ CompareTargetProfiles(profile, offers[i].profile).decision # "reject"}
      asked == {i \in eligible : Cardinality({j \in eligible : j < i}) < topK}
      verdict == PairVerdict(pair)
      seen(o) == IF verdict = "no" THEN [o EXCEPT !.visual = "no", !.score = 0, !.method = "llm_rejected"]
                 ELSE [o EXCEPT !.visual = IF verdict = "yes" THEN "yes" ELSE "malformed"]
  IN  [i \in DOMAIN offers |-> IF i \in asked THEN seen(offers[i]) ELSE offers[i]]

-----------------------------------------------------------------------------
(* Match evidence.                                                           *)

\* trusted_evidence_value: the value of a field only when its record shows
\* where it comes from, is confident, recent and not expired.
TrustedEvidence(r) ==
  /\ r.status \in {"extracted", "verified"}
  /\ r.value # None /\ r.sourced /\ r.referenced
  /\ r.confidence >= 500
  /\ r.age <= 30 /\ ~r.future /\ ~r.expired

TrustedValue(r) == IF TrustedEvidence(r) THEN r.value ELSE None

\* _equal, _function_match, _product_type_match, _manufacturer_match: 1, 0, or
\* nothing to say.
Agreement(a, b) == IF None \in {a, b} THEN Unknown ELSE IF a = b THEN 1000 ELSE 0

\* _product_type_group: replacements and accessories are one group.
TypeGroup(kind) == IF kind \in {"replacement", "accessory"} THEN "component_side" ELSE kind

ManufacturerMatch(kind) ==
  CASE kind = "factory" -> 1000 [] kind = "trader" -> 0 [] OTHER -> Unknown

\* _target_spec and _supplier_spec: the understanding and the offer's page go
\* before the text and the offer's own fields.
TargetSpec(u) ==
  [SpecFromText(u.words) EXCEPT
    !.category = OrElse(u.category, @), !.material = FirstIn(MaterialTable, u.material, @),
    !.pack = OrNumber(u.pack, @), !.features = @ \cup {u.function}]

SupplierSpec(o) ==
  [SpecFromSupplier(o) EXCEPT !.material = OrElse(o.detail.material, @), !.pack = OrNumber(o.detail.package, @)]

\* _brand_exclusive: compatible with one excluded brand only, and says so.
BrandExclusive(u, detail) ==
  /\ detail.compatibility \notin {None, "universal"}
  /\ detail.exclusive
  /\ detail.compatibility \in u.excluded

HardSpecConflicts == {"capacity", "dimensions", "material", "pack_count"}

\* Mutant of VisualVerdict: what is no verdict counts as none.
VisualVerdict_Lenient(v) == IF v \in {"yes", "no"} THEN v ELSE None

\* _visual_evidence: a verdict, nothing, or something that is not a verdict.
VisualVerdict(v) == IF v \in {"yes", "no", None} THEN v ELSE "malformed"

\* The states of build_match_evidence: what each piece of evidence says.
EvidenceStates(u, d, visualRelation, aimed) ==
  LET type == IF visualRelation = "no" THEN 0 ELSE Agreement(TypeGroup(u.kind), TypeGroup(TrustedValue(d.product_type)))
      states == [function |-> Agreement(u.function, TrustedValue(d.function)),
                 product_type |-> type,
                 price |-> IF TrustedEvidence(d.price) /\ d.priced THEN 1000 ELSE Unknown,
                 moq |-> IF TrustedEvidence(d.moq) THEN 1000 ELSE Unknown,
                 manufacturer |-> ManufacturerMatch(TrustedValue(d.factory)),
                 package_quantity |-> Agreement(u.package, TrustedValue(d.package))]
  IN  [s \in {"function", "product_type", "price", "moq"}
             \cup (IF aimed THEN {"manufacturer"} ELSE {})
             \cup (IF u.package # None THEN {"package_quantity"} ELSE {}) |-> states[s]]

\* build_match_evidence.  pm is the profile comparison when the product is of
\* a target category, spec the comparison of the specifications.
MatchEvidence(u, d, visual, visualRelation, aimed, pm, spec) ==
  LET states   == EvidenceStates(u, d, visualRelation, aimed)
      verdict  == VisualVerdict(visual)
      mismatch == {s \in DOMAIN states \ {"price", "moq"} : states[s] = 0}
                    \cup (IF BrandExclusive(u, d) THEN {"brand_exclusive_conflict"} ELSE {})
                    \cup (spec.conflicts \cap HardSpecConflicts)
                    \cup (IF aimed THEN pm.conflicts ELSE {})
                    \cup (IF verdict = "no" THEN {"visual_mismatch"} ELSE {})
      missing  == {s \in DOMAIN states : states[s] = Unknown}
      known    == DOMAIN states \ missing
      agreeing == {s \in known : states[s] = 1000}
      mean     == (1000 * Cardinality(agreeing) + (IF aimed THEN pm.score ELSE spec.score))
                    \div (Cardinality(known) + 1)
      decision == CASE mismatch # {} -> "reject"
                    [] mismatch = {} /\ (verdict = "malformed" \/ (aimed /\ pm.decision = "manual_review"))
                         -> "manual_review"
                    [] mismatch = {} /\ verdict # "malformed" /\ ~(aimed /\ pm.decision = "manual_review")
                         /\ missing # {} -> "retry"
                    [] OTHER -> IF mean >= 700 THEN "keep" ELSE "manual_review"
      capped   == mismatch = {} /\ (verdict = "malformed" \/ (aimed /\ pm.decision = "manual_review") \/ missing # {})
  IN  [decision   |-> decision,
       confidence |-> IF capped THEN Smaller(mean, 490) ELSE mean,
       mismatch   |-> mismatch,
       missing    |-> missing \cup (IF aimed THEN pm.missing ELSE {})
                        \cup (IF verdict = "malformed" THEN {"visual"} ELSE {}),
       passed     |-> agreeing \cup (IF aimed THEN pm.matched ELSE {})
                        \cup (IF verdict = "yes" THEN {"visual"} ELSE {})]
=============================================================================
