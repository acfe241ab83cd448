------------------------------ MODULE Appraisal ------------------------------
(* What becomes of one product between its match and the export: the match,  *)
(* profit, score and filter stages of pipeline/recoverable.py with the       *)
(* handlers they call, the strict gate and the recommendation of             *)
(* matchers/sourcing_slice.py, and the tables they write, in a process that  *)
(* crashes and is resumed while a person re-runs stages by force.            *)
(*                                                                           *)
(* The node rows are those of Pipeline, kept to one product and to its final *)
(* states; here the outputs are computed.  A node's input is the tag of the  *)
(* product object it was made from and what it depends on: the matcher       *)
(* enriches the object it is given, so after a match that ran the later      *)
(* inputs hold the enriched product, and after a cached one the product as   *)
(* it was ingested.  The success validators find the rows they look for,     *)
(* since nothing deletes one.                                                *)
EXTENDS Economics, OfferReadings

CONSTANTS
  Scenarios,    \* products with what searches find for them and their market
  MaxPasses,    \* bound: how often the pipeline is entered
  MaxForced,    \* bound: stages re-run by force
  ImageTopK     \* target_category_llm_top_k

ASSUME AppraisalAssumption ==
  /\ MaxPasses \in Nat /\ MaxForced \in Nat /\ ImageTopK \in Nat

\* What a search finds is a list; what is imported has a title or a name, as
\* what has neither is dropped; market data that is not there says nothing.
ASSUME ScenariosAssumption ==
  \A s \in Scenarios :
    /\ s.product.price \in Int
    /\ s.market.given \in BOOLEAN
    /\ s.answer.outcome = "answered" => s.answer.confidence \in Int
    /\ ~s.market.given => s.market.listings = Unknown /\ s.market.top10 = Unknown
    /\ \A finds \in s.searches :
         /\ Len(finds) \in Nat /\ DOMAIN finds = 1..Len(finds)
         /\ \A i \in DOMAIN finds :
              finds[i].from \in {"card", "text", "pifatuan"} \/ finds[i].item.title # {} \/ finds[i].item.named

VARIABLES
  scenario,        \* the product and what surrounds it, never changed
  node,            \* execution_nodes of the product: match, profit, score
  memory,          \* the PipelineRecord of the running pass
  pc,              \* where the pass is; "idle" between passes
  recommendation,  \* the product's row of sourcing_recommendations
  snapshots,       \* profit_snapshots: the offer each names and its profit
  candidates,      \* what the filter put out: candidates, or records to review
  passes, forced   \* how much of the bounds is used up

appraisalVars == <<scenario, node, memory, pc, recommendation, snapshots, candidates, passes, forced>>

Stages == {"match", "profit", "score"}

-----------------------------------------------------------------------------
(* The match.                                                                *)

ReadOffer(find) ==
  CASE find.from = "card"     -> CardOffer(find.item)
    [] find.from = "text"     -> TextSearchOffer(find.item)
    [] find.from = "pifatuan" -> PifatuanOffer(find.item)
    [] OTHER                  -> ImportedOffers([isObject |-> FALSE, items |-> <<find.item>>])[1]

\* An offer with its page, read for the verifier.
WithPage(find) ==
  LET read == [ReadOffer(find) EXCEPT !.text = find.words]
      page == MergedDetail(ParsedDetail(find.page.noData, find.page.text),
                           ParsedDetail(find.page.data, find.page.text))
      full == IF find.page.found THEN DetailApplied(read, page) ELSE read
  IN  [full EXCEPT !.spec = SpecFromSupplier(full), !.profile = ProfileFromText(find.words),
                   !.keywords = find.keywords]

TargetProfile(p) == ProfileFromProduct(p.words, p.measures)

\* The words of an offer and of its page, as they are compared with a product.
WordsOf(find) == {find.words, find.page.text.words}

\* The offers found, with their pages, as the heuristic verifier leaves them.
JudgedFinds(s, profile, finds) ==
  Verified([i \in DOMAIN finds |-> WithPage(finds[i])], s.analysis,
           SpecFromProduct(s.product, s.analysis), profile)

\* Scores are numbers: quotients of sums over finite sets of names.
ASSUME ScoresAssumption ==
  \A s \in Scenarios : \A finds \in s.searches :
    LET profile == TargetProfile(s.product)
        judged  == JudgedFinds(s, profile, finds)
    IN  \A i \in DOMAIN finds :
          /\ judged[i].score \in Int
          /\ QualityScore(judged[i]) \in Int /\ BusinessScore(judged[i]) \in Int
          /\ \A words \in WordsOf(finds[i]) :
               CompareTargetProfiles(profile, ProfileFromText(words)).score \in Int

Aimed(p) == ClassifyTargetCategory(p.words) # None

Understanding(p, profile) ==
  LET u == UnderstandingFromProfile(profile, p.brand)
  IN  [kind |-> u.kind, category |-> u.category, function |-> u.category, pack |-> u.pack,
       package |-> CountText(u.pack), material |-> u.material, excluded |-> u.excluded, words |-> p.words]

\* evaluate_prefetched_suppliers, for one offer.
Evidence(u, profile, o) ==
  LET seen == IF o.detail.profile.family # None THEN o.detail.profile ELSE o.profile
      spec == SupplierSpec(o)
  IN  MatchEvidence(u, DetailEvidence(o), o.visual, None, TRUE, CompareTargetProfiles(profile, seen),
                    CompareSpecs(TargetSpec(u), spec, spec.features))

NoRecommendation == [status |-> None, offer |-> None, accepted |-> <<>>, reasons |-> {}, tasks |-> {},
                     cost |-> None, profit |-> None, final |-> FALSE]

\* evaluate_prefetched_suppliers: mocks are passed over, the offers whose
\* evidence (match) says "keep" are accepted, the most certain of them (the
\* first of equals) is the one recommended, for now to be watched.
StrictGate(offers, match) ==
  LET real   == DOMAIN match
      such(D) == {i \in real : match[i].decision \in D}
      kept   == such({"keep"})
      review == such({"retry", "manual_review"})
      best   == offers[Min({i \in kept : \A j \in kept : match[j].confidence <= match[i].confidence})].id
      marked == [i \in DOMAIN offers |-> IF i \in real THEN [offers[i] EXCEPT !.decision = match[i].decision]
                                         ELSE offers[i]]
      taken  == Picked(marked, kept)
  IN  [offers |-> taken,
       recommendation |->
         [NoRecommendation EXCEPT
           !.status = CASE kept # {} -> "watchlist"
                        [] kept = {} /\ review # {} -> "needs_manual_review"
                        [] kept = {} /\ review = {} /\ such({"reject"}) # {} -> "reject"
                        [] OTHER -> "insufficient_data",
           !.offer = IF kept = {} THEN None ELSE best,
           !.accepted = [i \in DOMAIN taken |-> taken[i].id],
           !.reasons = IF kept # {} THEN {}
                       ELSE UNION {match[i].mismatch : i \in such({"reject"})}
                              \cup (IF real = {} THEN {"no_real_supplier_evidence"} ELSE {}),
           !.tasks = UNION {match[i].missing : i \in review}   \* to be verified
                       \cup (IF kept = {} THEN {} ELSE {"calculate_profit", "evaluate_market"})]]

\* The visual verifier on the offers of a product without a target category:
\* it needs more than one and eligible ones among them.
Seen(s, offers) ==
  LET eligible == LlmEligible(offers, 650, 500)
  IN  IF s.llm /\ Len(offers) > 1 /\ eligible # {} THEN LlmVerified(offers, eligible, 2, s.answer) ELSE offers

\* The strict gate on the offers as the verifiers have left them.
Gated(p, profile, offers) ==
  LET u == Understanding(p, profile)
  IN  StrictGate(offers, [i \in RealOffers(offers) |-> Evidence(u, profile, offers[i])])

\* match_suppliers after its searches: the details, the verifier, and for a
\* product of a target category the pictures and the strict gate; for another
\* product what the verifiers keep.
Matched(s, profile, finds) ==
  LET judged == JudgedFinds(s, profile, finds)
      shown  == IF s.llm THEN TargetImagesVerified(judged, profile, ImageTopK, s.pair) ELSE judged
  IN  IF Aimed(s.product) THEN Gated(s.product, profile, shown)
      ELSE [offers |-> Seen(s, KeptOf(judged)), recommendation |-> NoRecommendation]

\* What the match of a product may come to: a matching per set of finds.
Matches == [s \in Scenarios |-> {Matched(s, TargetProfile(s.product), finds) : finds \in s.searches}]

\* What an offer earns is a number.
ASSUME AmountsAssumption ==
  \A s \in Scenarios : \A m \in Matches[s] : \A i \in DOMAIN m.offers :
    LET profit == PredictProfit(s.product, m.offers[i])
    IN  profit.net \in Int /\ profit.margin \in Int

-----------------------------------------------------------------------------
(* The nodes.                                                                *)

NoProfit == Insufficient({})
HasProfit(profit) == profit.offer # None
NoScore == [scored |-> FALSE, total |-> 0, passed |-> FALSE, reasons |-> {}]

NoOutput == [offers |-> <<>>, recommendation |-> NoRecommendation, profit |-> NoProfit,
             score |-> NoScore, reasons |-> {}]
NoRow == [status |-> "absent", generation |-> 0, input |-> <<>>, output |-> NoOutput]

\* A stage is also fed with the row it depends on, by status and generation.
InputOf(stage) ==
  CASE stage = "match"  -> <<"ingested">>
    [] stage = "profit" -> <<memory.product, node["match"].status, node["match"].generation>>
    [] OTHER -> <<memory.product, memory.offers, memory.profit, node["profit"].status, node["profit"].generation>>

\* ensure_node
Ensured(stage) ==
  LET row == node[stage]
      changed == row.input # InputOf(stage)
  IN  CASE row.status = "absent" -> [row EXCEPT !.status = "pending", !.generation = 1, !.input = InputOf(stage)]
        [] row.status \in {"succeeded", "skipped"} /\ changed ->
             [row EXCEPT !.status = "pending", !.generation = @ + 1, !.input = InputOf(stage), !.output = NoOutput]
        [] row.status \in {"pending", "failed"} -> [row EXCEPT !.input = InputOf(stage)]
        [] OTHER -> row

Put(stage, row) == node' = [node EXCEPT ![stage] = row]
Succeeds(stage, output) == Put(stage, [Ensured(stage) EXCEPT !.status = "succeeded", !.output = output])
Fails(stage) == Put(stage, [Ensured(stage) EXCEPT !.status = "failed"])
Skips(stage) == Put(stage, [Ensured(stage) EXCEPT !.status = IF @ = "pending" THEN "skipped" ELSE @])

\* Mutant of RowServes: what a score node that rests has put out is not loaded.
RowServes_Unscored(stage) == Ensured(stage).status = "succeeded" /\ stage # "score"

\* The output of the row is loaded instead of computed.
RowServes(stage) == Ensured(stage).status = "succeeded"
Due(stage) == Ensured(stage).status = "pending"

Product == scenario.product
FreshMemory == [product |-> "ingested", offers |-> <<>>, recommendation |-> NoRecommendation,
                profit |-> NoProfit, score |-> NoScore, reasons |-> {}]

AppraisalInit ==
  /\ scenario \in Scenarios
  /\ node = [s \in Stages |-> NoRow]
  /\ memory = FreshMemory
  /\ pc = "idle"
  /\ recommendation = NoRecommendation
  /\ snapshots = {}
  /\ candidates = [formal |-> {}, review |-> {}]
  /\ passes = 0 /\ forced = 0

\* A run is started, or resumed by a person or after a crash.
Enter ==
  /\ pc = "idle" /\ passes < MaxPasses
  /\ passes' = passes + 1
  /\ pc' = "match"
  /\ memory' = FreshMemory
  /\ UNCHANGED <<scenario, node, recommendation, snapshots, candidates, forced>>

MatchOutput(m) == [NoOutput EXCEPT !.offers = m.offers, !.recommendation = m.recommendation]
WithMatch(m) == [memory EXCEPT !.offers = m.offers, !.recommendation = m.recommendation]

\* The match node: its writer stores the recommendation as the gate left it.
\* The handler enriches the product it was given, whether it succeeds or not.
Enriched(m) == IF Aimed(Product) THEN [m EXCEPT !.product = "enriched"] ELSE m

MatchRuns ==
  /\ pc = "match" /\ Due("match")
  /\ \E m \in Matches[scenario] :
       /\ Succeeds("match", MatchOutput(m))
       /\ memory' = Enriched(WithMatch(m))
       /\ recommendation' = IF Aimed(Product) THEN m.recommendation ELSE recommendation
  /\ pc' = "profit"
  /\ UNCHANGED <<scenario, snapshots, candidates, passes, forced>>

\* The match fails for good: the searches raise, or a person is needed and
\* gives up.
MatchFails ==
  /\ pc = "match" /\ Due("match")
  /\ Fails("match")
  /\ memory' = Enriched(memory)
  /\ pc' = "profit"
  /\ UNCHANGED <<scenario, recommendation, snapshots, candidates, passes, forced>>

MatchRests ==
  /\ pc = "match" /\ ~Due("match")
  /\ Put("match", Ensured("match"))
  /\ memory' = IF RowServes("match") THEN WithMatch(Ensured("match").output) ELSE memory
  /\ pc' = "profit"
  /\ UNCHANGED <<scenario, recommendation, snapshots, candidates, passes, forced>>

\* _rank_suppliers_by_profit in its node.  Without a selling price the error
\* carries no dimension and _evidence_rejection_reasons itself fails.
ProfitOutput(ranking) ==
  [NoOutput EXCEPT !.offers = ranking.offers,
     !.profit = IF HasProfit(ranking.profit) THEN ranking.profit ELSE NoProfit,
     !.reasons = CostReasons(ranking.profit.missing)]
WithProfit(out) ==
  [memory EXCEPT !.offers = out.offers, !.profit = out.profit, !.reasons = @ \cup out.reasons]

\* Mutant of SnapshotOffer: the offers were sorted the other way.
SnapshotOffer_Ascending(out) == out.offers[Len(out.offers)].id

\* _persist_profit_for_record: the snapshot names the first offer.
SnapshotOffer(out) == Head(out.offers).id

ProfitRuns ==
  /\ pc = "profit" /\ node["match"].status = "succeeded" /\ memory.offers # <<>> /\ Due("profit")
  /\ \E ranking \in {RankedByProfit(Product, memory.offers)} :
       LET out == ProfitOutput(ranking)
       IN  IF ranking.profit.missing = {"selling_price"}
           THEN Fails("profit") /\ UNCHANGED <<snapshots, memory>>
           ELSE /\ Succeeds("profit", out)
                /\ snapshots' = snapshots \cup
                     (IF HasProfit(out.profit) THEN {[offer |-> SnapshotOffer(out), profit |-> out.profit]} ELSE {})
                /\ memory' = WithProfit(out)
  /\ pc' = "score"
  /\ UNCHANGED <<scenario, recommendation, candidates, passes, forced>>

ProfitRests ==
  /\ pc = "profit"
  /\ CASE node["match"].status # "succeeded" -> UNCHANGED <<node, memory>>
       [] node["match"].status = "succeeded" /\ memory.offers = <<>> ->
            Skips("profit") /\ UNCHANGED memory
       [] OTHER -> /\ ~Due("profit")
                   /\ Put("profit", Ensured("profit"))
                   /\ memory' = IF RowServes("profit") THEN WithProfit(Ensured("profit").output) ELSE memory
  /\ pc' = "score"
  /\ UNCHANGED <<scenario, recommendation, snapshots, candidates, passes, forced>>

ScoreOutput(s, offers, profit) ==
  LET missing == MissingForScore(s.product, s.market, offers)
      score   == ScoreProduct(s.product, profit, s.market, offers)
  IN  IF missing # Scored THEN [NoOutput EXCEPT !.reasons = ScoreReasons(missing)]
      ELSE [NoOutput EXCEPT !.score = [scored |-> TRUE, total |-> score.total, passed |-> score.passed,
                                       reasons |-> score.reasons]]
WithScore(out) == [memory EXCEPT !.score = out.score, !.reasons = @ \cup out.reasons]

ScoreRuns ==
  /\ pc = "score" /\ HasProfit(memory.profit) /\ Due("score")
  /\ LET out == ScoreOutput(scenario, memory.offers, memory.profit)
     IN  Succeeds("score", out) /\ memory' = WithScore(out)
  /\ pc' = "finalize"
  /\ UNCHANGED <<scenario, recommendation, snapshots, candidates, passes, forced>>

ScoreRests ==
  /\ pc = "score"
  /\ IF ~HasProfit(memory.profit) THEN Skips("score") /\ UNCHANGED memory
     ELSE /\ ~Due("score")
          /\ Put("score", Ensured("score"))
          /\ memory' = IF RowServes("score") THEN WithScore(Ensured("score").output) ELSE memory
  /\ pc' = "finalize"
  /\ UNCHANGED <<scenario, recommendation, snapshots, candidates, passes, forced>>

\* Mutant of Finalized: the verdict of the hard filters is not looked at.
Finalized_Unfiltered(s, m) ==
  [m.recommendation EXCEPT !.final = TRUE, !.profit = m.profit.offer,
     !.status = CASE m.recommendation.accepted = <<>> -> @
                  [] m.recommendation.accepted # <<>> /\ m.score.scored -> "recommend"
                  [] OTHER -> "needs_manual_review"]

\* finalize_record_sourcing_evidence.  The offer stays the one of the gate,
\* the cost is said to be that of the first accepted offer, and the profit is
\* whichever _rank_suppliers_by_profit found.
Finalized(s, m) ==
  LET r == m.recommendation
      given == s.market.given
      tasks == {t \in {"calculate_profit", "evaluate_market", "complete_scoring_evidence"} :
                  CASE t = "calculate_profit" -> ~HasProfit(m.profit)
                    [] t = "evaluate_market"  -> ~given
                    [] OTHER                  -> ~m.score.scored}
      base == [r EXCEPT !.final = TRUE, !.tasks = @ \ ({"calculate_profit", "evaluate_market"} \ tasks),
                 !.profit = m.profit.offer,
                 !.cost = IF HasProfit(m.profit) /\ r.accepted # <<>> THEN Head(r.accepted) ELSE None]
  IN  CASE r.accepted = <<>> -> base
        [] r.accepted # <<>> /\ ~m.score.scored ->
             [base EXCEPT !.status = "needs_manual_review", !.tasks = @ \cup {"complete_scoring_evidence"}]
        [] r.accepted # <<>> /\ m.score.scored /\ ~m.score.passed ->
             [base EXCEPT !.status = "reject", !.reasons = @ \cup m.score.reasons]
        [] OTHER -> IF tasks = {} THEN [base EXCEPT !.status = "recommend", !.reasons = {}]
                    ELSE [base EXCEPT !.status = "needs_manual_review", !.tasks = @ \cup tasks]

\* _finalize_sourcing_evidence, in a transaction before the filter's.
Finalize ==
  /\ pc = "finalize"
  /\ IF memory.recommendation = NoRecommendation THEN UNCHANGED recommendation
     ELSE recommendation' = Finalized(scenario, memory)
  /\ pc' = "filter"
  /\ UNCHANGED <<scenario, node, memory, snapshots, candidates, passes, forced>>

\* The filter node and the records the export falls back to.
FilterRecord ==
  [asin |-> Product.asin, passed |-> memory.score.passed, scored |-> memory.score.scored,
   total |-> memory.score.total, net |-> IF HasProfit(memory.profit) THEN memory.profit.net ELSE 0, completeness |-> Product.completeness,
   candidate |-> IF memory.offers = <<>> THEN 0 ELSE OrZero(Head(memory.offers).sourceability),
   offered |-> memory.offers # <<>>, reasons |-> memory.reasons]

Filter ==
  /\ pc = "filter"
  /\ LET asins(records) == {records[i].asin : i \in DOMAIN records}
         formal == asins(DedupedByAsin(RankCandidates(<<FilterRecord>>)))
     IN  candidates' = [formal |-> formal,
                        review |-> IF formal = {} THEN asins(ReviewFallback(<<FilterRecord>>)) ELSE {}]
  /\ pc' = "idle"
  /\ UNCHANGED <<scenario, node, memory, recommendation, snapshots, passes, forced>>

\* The process dies between two transactions.
ProcessDies ==
  /\ pc # "idle"
  /\ pc' = "idle"
  /\ memory' = FreshMemory
  /\ UNCHANGED <<scenario, node, recommendation, snapshots, candidates, passes, forced>>

\* force_rerun of a stage; what depends on it is invalidated by its input.
ForceRerun(stage) ==
  /\ pc = "idle" /\ forced < MaxForced /\ node[stage].status \in {"succeeded", "failed", "skipped"}
  /\ Put(stage, [node[stage] EXCEPT !.status = "pending", !.generation = @ + 1, !.output = NoOutput])
  /\ forced' = forced + 1
  /\ UNCHANGED <<scenario, memory, pc, recommendation, snapshots, candidates, passes>>

AppraisalNext ==
  \/ Enter \/ MatchRuns \/ MatchFails \/ MatchRests \/ ProfitRuns \/ ProfitRests
  \/ ScoreRuns \/ ScoreRests \/ Finalize \/ Filter \/ ProcessDies
  \/ \E stage \in Stages : ForceRerun(stage)

AppraisalSpec == AppraisalInit /\ [][AppraisalNext]_appraisalVars

-----------------------------------------------------------------------------
(* Properties.                                                               *)

\* A product that stands as recommended was matched, its offer is one of those
\* the last match accepted on its own evidence, and the profit in the row is
\* that of an accepted offer too, whatever was re-run or interrupted since.
RecommendationIsEarned ==
  recommendation.status = "recommend" /\ node["match"].status = "succeeded" =>
    LET accepted == node["match"].output.offers
        ids == {accepted[i].id : i \in DOMAIN accepted}
    IN  /\ recommendation.offer \in ids /\ recommendation.profit \in ids
        /\ \A i \in DOMAIN accepted :
             /\ accepted[i].visual \notin {"no", "malformed"}
             /\ CompareTargetProfiles(TargetProfile(Product),
                  IF accepted[i].detail.profile = NoProfile THEN accepted[i].profile
                  ELSE accepted[i].detail.profile).decision = "keep"

\* What is exported as a candidate and what stands as recommended agree, for a
\* product of a target category whose match has not failed.
ExportedIsRecommended ==
  [][Filter /\ Aimed(Product) /\ node["match"].status = "succeeded" =>
       (candidates'.formal # {} <=> recommendation.status = "recommend")]_appraisalVars

\* A profit is recorded with the offer it is the profit of, unless the offer it
\* is recorded with has no price: nothing worse than an unpriced favourite can
\* come before the offer that earns it.
ProfitOfItsOffer ==
  \A s \in snapshots : s.offer # s.profit.offer =>
    \E m \in Matches[scenario] : \E i \in DOMAIN m.offers :
      m.offers[i].id = s.offer /\ PredictProfit(Product, m.offers[i]).missing # {}

\* As long as the product is not matched again, a final recommendation does
\* not change: not by a crash, a resumed pass, or a stage re-run by force.
RecommendationRepeats ==
  [][recommendation.final /\ node'["match"] = node["match"] =>
       recommendation' = recommendation]_appraisalVars

\* "MOQ is extracted or verified, not inferred from a default" (the agentic
\* sourcing loop design): what a recommended offer's own page says of its
\* minimum order is within the limit of the hard filter.
RecommendedWithinMoq ==
  recommendation.status = "recommend" =>
    \A i \in DOMAIN memory.offers :
      memory.offers[i].id = recommendation.offer => memory.offers[i].detail.moq <= MaxMoq
=============================================================================
