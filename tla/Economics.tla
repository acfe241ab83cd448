------------------------------ MODULE Economics ------------------------------
(* What an offer costs and a product is worth: the profit model              *)
(* (analyzers/profit_model.py), the score and its hard filters               *)
(* (analyzers/scorer.py), the ranking of candidates (pipeline/filters.py)    *)
(* and of offers (pipeline/orchestrator.py).                                 *)
(*                                                                           *)
(* Money is in cents of a dollar, an offer's price in whole yuan; a margin,  *)
(* a score or a rate is in thousandths; sizes are in cm, weights in g.       *)
(* Divisions round down.                                                     *)
EXTENDS SupplierMatching

CONSTANTS
  ProfitCurve(_),   \* the sigmoid of score_profit, of a margin in thousandths
  BsrCurve(_)       \* 1 - log(rank) / log(50000)

ASSUME CurvesAreNumbers ==
  /\ \A margin \in 101..499 : ProfitCurve(margin) \in Int
  /\ \A rank \in 1..50000 : BsrCurve(rank) \in Int

\* The lexicographic order of Python's tuples.
KeyBefore(a, b) == \E k \in DOMAIN a : a[k] > b[k] /\ \A h \in 1..(k - 1) : a[h] = b[h]

PerMille(amount, rate) == (amount * rate) \div 1000

-----------------------------------------------------------------------------
(* The profit of a product bought from an offer.                             *)

BatchQty == 200

\* normalize_price_tier: the tiers with a quantity and a price.
SoundTiers(o) == {i \in DOMAIN o.tiers : o.tiers[i].qty > 0 /\ o.tiers[i].price > 0}

\* calc_purchase_cost: the highest tier the batch reaches, else the lowest one;
\* the base price without tiers.
PurchasePrice(o) ==
  LET qty(S)   == {o.tiers[i].qty : i \in S}
      reached  == {i \in SoundTiers(o) : o.tiers[i].qty <= BatchQty}
      bound    == IF reached # {} THEN Max(qty(reached)) ELSE Min(qty(SoundTiers(o)))
  IN  IF SoundTiers(o) = {} THEN OrNumber(o.price, Unknown)
      ELSE o.tiers[Min({i \in SoundTiers(o) : o.tiers[i].qty = bound})].price

PhysicalFields == {"weight", "length", "width", "height"}
MissingPhysical(p) == {f \in PhysicalFields : p[f] = Unknown}

Volumetric(p) == (p.length * p.width * p.height) \div 6

\* calc_shipping_cost by sea: 2 $ and 2.80 $ per kg, 1 kg at least.
ShippingCost(p) == 200 + (280 * Max({p.weight, Volumetric(p), 1000})) \div 1000

\* calc_fba_fee: the first tier that holds the longest side and the weight;
\* what is larger than all of them pays the last.
FbaTiers == <<[inches |-> 15,  ounces |-> 16,   fee |-> 343],
              [inches |-> 18,  ounces |-> 320,  fee |-> 595],
              [inches |-> 60,  ounces |-> 1120, fee |-> 1050],
              [inches |-> 108, ounces |-> 2400, fee |-> 1985]>>
FbaFee(p) ==
  LET holds == {i \in DOMAIN FbaTiers :
                  /\ 394 * Max({p.length, p.width, p.height}) <= 1000 * FbaTiers[i].inches
                  /\ (3527 * p.weight) \div 100 <= 1000 * FbaTiers[i].ounces}
  IN  FbaTiers[Min(holds \cup {4})].fee

\* calc_commission and calc_return_loss: rates by category.
CommissionRate(category) ==
  CASE category = "Electronics" -> 80 [] category = "Clothing" -> 170
    [] category = "Jewelry" -> 200 [] OTHER -> 150
ReturnRate(category) ==
  CASE category = "Clothing" -> 200 [] category = "Shoes" -> 180
    [] category = "Electronics" -> 120 [] category = "Toys & Games" -> 50 [] OTHER -> 60

\* What InsufficientCostEvidence leaves: no profit, and the keys
\* _rank_suppliers_by_profit then uses.
Insufficient(fields) == [missing |-> fields, offer |-> None, net |-> -100, margin |-> -1000]

\* predict_profit: the selling price, the purchase price and the sizes are
\* needed, in this order; 5 % go to advertising, 30 % of what is returned is
\* lost, and 1 % goes to the exchange.
PredictProfit(p, o) ==
  LET rates == CommissionRate(p.category) + (30 * ReturnRate(p.category)) \div 100 + 50 + 10
      cost  == (29 * PurchasePrice(o)) \div 2 + ShippingCost(p) + FbaFee(p) + PerMille(p.price, rates)
  IN  CASE p.price <= 0 -> Insufficient({"selling_price"})
        [] p.price > 0 /\ PurchasePrice(o) = Unknown -> Insufficient({"purchase_price"})
        [] p.price > 0 /\ PurchasePrice(o) # Unknown /\ MissingPhysical(p) # {} ->
             Insufficient(MissingPhysical(p))
        [] OTHER -> [missing |-> {}, offer |-> o.id, net |-> p.price - cost,
                     margin |-> (1000 * (p.price - cost)) \div p.price]

\* _supplier_profit_score.
ProfitScoreOf(margin) == Clamp((1000 * margin) \div 400)

\* _rank_suppliers_by_profit and its deduplication: the offers by 0.70 of their
\* candidate score and 0.30 of their margin; of two with one id the better one
\* stays.  The profit is that of the first offer which has one.
RankedBy(profit, offers) ==
  LET worth(i) == IF profit[i].missing = {} THEN ProfitScoreOf(profit[i].margin) ELSE 0
      key(i) == <<(700 * offers[i].rank + 300 * worth(i)) \div 1000, offers[i].rank,
                  profit[i].margin, profit[i].net, -i>>
      before(i, j) == KeyBefore(key(i), key(j))
      kept == {i \in DOMAIN offers : ~\E j \in DOMAIN offers : offers[j].id = offers[i].id /\ before(j, i)}
      order == Arranged(kept, {pair \in kept \X kept : before(pair[1], pair[2])})
      priced == {n \in DOMAIN order : profit[order[n]].missing = {}}
  IN  [offers |-> [n \in DOMAIN order |-> [offers[order[n]] EXCEPT !.sourceability = key(order[n])[1]]],
       profit |-> IF priced = {} THEN profit[Len(offers)] ELSE profit[order[Min(priced)]]]
RankedByProfit(p, offers) == RankedBy([i \in DOMAIN offers |-> PredictProfit(p, offers[i])], offers)

-----------------------------------------------------------------------------
(* The six scores.                                                           *)

\* What ScoringEvidenceError carries.
Unscored(dimension, fields) == [dimension |-> dimension, fields |-> fields]
Scored == Unscored(None, {})

ScoreProfit(margin) ==
  CASE margin <= 100 -> 0 [] margin >= 500 -> 1000 [] OTHER -> Clamp(ProfitCurve(margin))

\* score_demand as score_product calls it: there is no revenue of the top 100
\* and no trend, so the factor of 25 % is always 0.
ScoreDemand(p, market, sales) ==
  LET bsr  == IF p.bsr <= 0 THEN 500 ELSE IF p.bsr > 50000 THEN 0 ELSE Clamp(BsrCurve(p.bsr))
      base == (300 * (IF market.opportunity > 50 THEN 1000 ELSE 0)
                 + 200 * Clamp(100 * OrZero(market.daily)) + 150 * Clamp(OrZero(market.volume) \div 2)
                 + 50 * bsr + 50 * Clamp((10 * OrZero(sales)) \div 3)) \div 1000
  IN  IF p.price \in 1..1499 THEN Smaller(base, 500) ELSE base

ScoreCompetition(market) ==
  LET s == Clamp(1000 - (1000 * (OrZero(market.listings) - 20)) \div 180)
  IN  IF market.top10 > 600 THEN s \div 2 ELSE s

CompetitionEvidence(market) ==
  IF market.listings = Unknown /\ market.top10 = Unknown
  THEN Unscored("competition", {"competing_listings", "top10_share"}) ELSE Scored

IsMock(o) == "mock" \in {o.source, o.method}
RealOffers(offers) == {i \in DOMAIN offers : ~IsMock(offers[i])}

\* The price score_supply looks for: the base price, else the first sound tier.
SupplyPrice(o) ==
  IF o.price > 0 THEN o.price
  ELSE IF SoundTiers(o) = {} THEN Unknown ELSE o.tiers[Min(SoundTiers(o))].price

SupplyEvidence(offers) ==
  LET priced == {i \in RealOffers(offers) : SupplyPrice(offers[i]) # Unknown}
      moqs   == {i \in RealOffers(offers) : offers[i].moq > 0}
      lacks(S, field) == IF S = {} \/ (priced # {} /\ moqs # {}) THEN {field} ELSE {}
  IN  CASE RealOffers(offers) = {} -> Unscored("supply", {"real_supplier"})
        [] RealOffers(offers) # {} /\ priced \cap moqs = {} ->
             Unscored("supply", lacks(priced, "purchase_price") \cup lacks(moqs, "moq"))
        [] OTHER -> Scored

\* score_supply.  The mean repeat rate is the one part that is not clamped.
ScoreSupply(offers) ==
  LET S == {i \in RealOffers(offers) : SupplyPrice(offers[i]) # Unknown /\ offers[i].moq > 0}
      known(value(_)) == {i \in S : value(offers[i]) # Unknown}
      mean(value(_), none) == IF known(value) = {} THEN none
        ELSE MapThenSumSet(LAMBDA i : value(offers[i]), known(value)) \div Cardinality(known(value))
      least(value(_)) == Min({value(offers[i]) : i \in known(value)})
      Base(o) == IF o.price > 0 THEN o.price ELSE Unknown
      Moq(o) == o.moq      Days(o) == o.delivery     Repeat(o) == o.repeat
      Match(o) == o.score  Sales(o) == o.sales
      Factory(o) == CASE o.factory = None -> Unknown [] o.factory = "yes" -> 1000 [] OTHER -> 450
      moq     == IF least(Moq) <= 100 THEN 1000 ELSE 100000 \div least(Moq)
      days    == IF known(Days) = {} THEN 500 ELSE Clamp(1000 - 40 * least(Days))
      capital == IF known(Base) = {} THEN 500
                 ELSE IF least(Moq) * least(Base) <= 50000 THEN 1000
                 ELSE Clamp(50000000 \div (least(Moq) * least(Base)))
      match   == IF known(Match) = {} THEN 500 ELSE Clamp((10 * mean(Match, 0)) \div 6)
      base    == (200 * Clamp((1000 * Cardinality(S)) \div 3) + 180 * mean(Repeat, 0) + 120 * moq
                   + 120 * days + 80 * capital + 150 * match + 100 * mean(Factory, 650)
                   + 50 * Clamp(mean(Sales, 500))) \div 1000
  IN  Clamp(base + (IF \E i \in S : offers[i].fba THEN 80 ELSE 0))

\* The limits of score_logistics: the ratio in tenths, the weight, the side.
LogisticsLimits(family) ==
  CASE family = "outdoor_storage"       -> [ratio |-> 80,  weight |-> 100000, side |-> 300]
    [] family = "patio_heater"          -> [ratio |-> 50,  weight |-> 80000,  side |-> 300]
    [] family = "patio_furniture_sets"  -> [ratio |-> 100, weight |-> 250000, side |-> 400]
    [] family = "patio_umbrellas_shade" -> [ratio |-> 80,  weight |-> 50000,  side |-> 400]
    [] OTHER -> [ratio |-> 12, weight |-> 2000, side |-> 45]

LogisticsEvidence(p) ==
  IF MissingPhysical(p) # {} THEN Unscored("logistics", MissingPhysical(p)) ELSE Scored

ScoreLogistics(p) ==
  LET limit   == LogisticsLimits(p.family)
      weight  == IF p.weight = 0 THEN 500 ELSE p.weight
      longest == OrNumber(Max({p.length, p.width, p.height}), 20)
      ratio   == CASE 0 \in {p.length, p.width, p.height} -> 800
                   [] 0 \notin {p.length, p.width, p.height} /\ 10 * Volumetric(p) <= limit.ratio * weight -> 1000
                   [] OTHER -> (100 * limit.ratio * weight) \div Volumetric(p)
  IN  (400 * Clamp(ratio) + 350 * Clamp(1000 - (1000 * weight) \div limit.weight)
         + 250 * Clamp(1000 - (1000 * longest) \div limit.side)) \div 1000

ScoreRisk(p, market) ==
  LET factor(cond, rate) == IF cond THEN rate ELSE 1000
  IN  PerMille(PerMille(PerMille(factor(p.bigBrand, 500), factor(p.certified, 700)),
                        factor(p.restricted, 250)), factor(market.seasonal, 700))

-----------------------------------------------------------------------------
(* The total, the hard filters and the candidates.                           *)

MaxMoq == 500

SalesOf(p, market) == IF market.sales # Unknown THEN market.sales ELSE p.sales

\* apply_hard_filters as score_product calls it: the least minimum order of all
\* offers is held against the limit, everything else about offers is that of
\* the first.
HardFilterReasons(p, profit, total, market, offers) ==
  LET top    == Head(offers)
      moqs   == {o.moq : o \in {offers[i] : i \in DOMAIN offers}} \ {Unknown}
      low(n, bound) == n # Unknown /\ n < bound
      holds  == [margin_too_low |-> profit.margin < 200,
                 score_too_low |-> total < 500,
                 moq_exceeded |-> moqs # {} /\ Min(moqs) > MaxMoq,
                 no_supplier |-> Len(offers) < 1,
                 price_too_low |-> low(p.price, 1500) /\ profit.margin < 300,
                 monthly_sales_too_low |-> low(SalesOf(p, market), 200),
                 brand_excluded |-> p.bigBrand,
                 restricted_product |-> p.restricted,
                 supplier_match_too_low |-> low(top.score, 450),
                 supplier_spec_too_low |-> low(top.specScore, 450),
                 supplier_spec_conflict |-> top.conflicts # {},
                 supplier_candidate_too_low |-> low(top.sourceability, 450),
                 target_supplier_contract_not_passed |-> p.family # None /\ top.decision # "keep"]
  IN  {r \in DOMAIN holds : holds[r]}

\* score_product: the evidence is asked for in the order of the scores.
MissingForScore(p, market, offers) ==
  LET checks == <<CompetitionEvidence(market), SupplyEvidence(offers), LogisticsEvidence(p)>>
      failed == {i \in 1..3 : checks[i] # Scored}
  IN  IF failed = {} THEN Scored ELSE checks[Min(failed)]

TotalScore(p, profit, market, offers) ==
  (20 * ScoreProfit(profit.margin) + 25 * ScoreDemand(p, market, SalesOf(p, market))
     + 20 * ScoreCompetition(market) + 15 * ScoreSupply(offers)
     + 10 * ScoreLogistics(p) + 10 * ScoreRisk(p, market)) \div 100

ScoreProduct(p, profit, market, offers) ==
  LET total   == TotalScore(p, profit, market, offers)
      reasons == HardFilterReasons(p, profit, total, market, offers)
  IN  [total |-> total, passed |-> reasons = {}, reasons |-> reasons]

\* _evidence_rejection_reasons for a missing cost and for a missing score.
CostReasons(fields) ==
  IF "purchase_price" \in fields THEN {"missing_purchase_price"}
  ELSE IF fields \cap PhysicalFields # {} THEN {"missing_logistics_dimensions"} ELSE {}

ScoreReasons(error) ==
  CASE error.dimension = "competition" -> {"missing_market_evidence"}
    [] error.dimension = "logistics"   -> {"missing_logistics_dimensions"}
    [] OTHER -> LET named == (IF "purchase_price" \in error.fields THEN {"missing_purchase_price"} ELSE {})
                               \cup (IF "moq" \in error.fields THEN {"missing_moq"} ELSE {})
                IN  IF named = {} THEN {"missing_supply_evidence"} ELSE named

RecordKey(r) == <<r.total, r.candidate, r.net, r.completeness>>

\* _dedupe_records_by_asin: of the records with one asin the first of the best
\* stays, at the place of the first.
DedupedByAsin(items) ==
  LET same(i)  == {j \in DOMAIN items : items[j].asin = items[i].asin}
      key(i)   == RecordKey(items[i])
      best(i)  == Min({j \in same(i) : ~\E h \in same(i) : KeyBefore(key(h), key(j))})
      firsts   == {i \in DOMAIN items : i = Min(same(i))}
  IN  Picked([i \in DOMAIN items |-> items[best(i)]], firsts)

\* rank_candidates: sort(reverse=True) keeps the order of equals.
RankCandidates(records) ==
  LET passed == Picked(records, {i \in DOMAIN records : records[i].passed})
      key(r) == <<r.total, r.candidate, r.net>>
      first(i, j) == KeyBefore(key(passed[i]), key(passed[j]))
                       \/ (key(passed[i]) = key(passed[j]) /\ i < j)
      order == Arranged(DOMAIN passed, {pair \in (DOMAIN passed) \X (DOMAIN passed) : first(pair[1], pair[2])})
  IN  [n \in DOMAIN order |-> passed[order[n]]]

\* _review_fallback_records: with offers, and scored or refused for a reason.
ReviewFallback(records) ==
  DedupedByAsin(Picked(records, {i \in DOMAIN records :
                                   records[i].offered /\ (records[i].scored \/ records[i].reasons # {})}))
=============================================================================
