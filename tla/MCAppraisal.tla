----------------------------- MODULE MCAppraisal -----------------------------
(* A deck box, found by cards, the two interfaces and an import, and a pan   *)
(* that belongs to no target category.                                       *)
EXTENDS Appraisal

MCProfitCurve(margin) == ((margin - 100) * 5) \div 2
MCBsrCurve(rank) == 1000 - rank \div 50

BoxText == [BlankText EXCEPT !.phrases = {"storage", "plastic"}, !.families = {"outdoor_storage"},
              !.subtypes = {"deck_box"}, !.numbers = [capacity_l |-> 300, weight_kg |-> 5, dimensions_cm |-> 58],
              !.materials = {"plastic"}]
PanText == [BlankText EXCEPT !.phrases = {"cookware", "steel"}]

BoxProduct ==
  [asin |-> "B1", price |-> 12999, category |-> "storage", weight |-> 5000, length |-> 60, width |-> 40,
   height |-> 30, bsr |-> 900, sales |-> 400, bigBrand |-> FALSE, certified |-> FALSE,
   restricted |-> FALSE, family |-> "outdoor_storage", rank |-> 3, completeness |-> 8,
   words |-> BoxText, measures |-> [dimensions_cm |-> 60, weight_kg |-> 5], brand |-> "acme", text |-> BoxText,
   dimensions |-> <<30, 40, 60>>, image |-> TRUE]
PanProduct == [BoxProduct EXCEPT !.asin = "P1", !.price = 2999, !.category = "cookware", !.weight = 900,
   !.length = 30, !.width = 20, !.height = 5, !.family = None, !.words = PanText, !.text = PanText,
   !.measures = <<>>, !.dimensions = <<5, 20, 30>>]

NoPage == [tiers |-> <<>>, moq |-> Unknown, delivery |-> Unknown, price |-> Unknown,
           supplierType |-> None, words |-> BlankText, claims |-> {}]
PageText(words) == [NoPage EXCEPT !.words = words, !.tiers = <<[qty |-> 10, price |-> 90]>>, !.claims = {"exclusive"}]
PageData(moq, price) == [NoPage EXCEPT !.moq = moq, !.supplierType = "factory", !.delivery = 7,
                   !.tiers = <<[qty |-> 10, price |-> price + 7], [qty |-> 100, price |-> price],
                                [qty |-> 10, price |-> price + 4]>>]
PricedPage(words, moq, price) == [found |-> TRUE, noData |-> NoPage, text |-> PageText(words), data |-> PageData(moq, price)]
Page(words, moq) == PricedPage(words, moq, 88)
Absent == [found |-> FALSE, noData |-> NoPage, text |-> NoPage, data |-> NoPage]

Card(id, price, moq) ==
  [id |-> id, title |-> {"storage", "cookware"}, image |-> TRUE, prices |-> <<[alone |-> price, loose |-> Unknown]>>,
   whole |-> [alone |-> Unknown, loose |-> Unknown], moqs |-> <<moq>>, sales |-> <<Unknown, Unknown, Unknown, Unknown, 400>>,
   percent |-> 30, factoryWords |-> TRUE]
Item(id, price, moq) ==
  [id |-> id, digest |-> "d0", named |-> TRUE, title |-> {"storage"}, image |-> TRUE, moq |-> moq,
   ranges |-> <<[qty |-> 1, price |-> price + 5], [qty |-> 100, price |-> price]>>, price |-> price,
   sales |-> 60, rate |-> 450, factory |-> "yes", factoryType |-> FALSE, delivery |-> 9]
Key == [whole |-> TRUE, hits |-> 2, grams |-> 3, onlyQuantity |-> FALSE]
Find(from, item, words, page) == [from |-> from, item |-> item, words |-> words, page |-> page, keywords |-> {Key}]

Good      == Find("card", Card("o1", 100, Unknown), BoxText, Page(BoxText, 800))
Unpriced  == Find("card", Card("o2", Unknown, 20), BoxText, Page(BoxText, 20))
Pageless  == Find("text", Item("o3", 70, 2), BoxText, Absent)
Sofa      == Find("pifatuan", Item("o4", 60, 5), [BoxText EXCEPT !.families = {"patio_furniture_sets"}],
                  Page([BoxText EXCEPT !.families = {"patio_furniture_sets"}], 5))
Costly    == Find("import", Item("o5", 900, 50), BoxText, PricedPage(BoxText, 50, 3000))
Pan       == Find("import", Item("o6", 12, 50), PanText, Absent)
PanCard   == Find("card", Card("o7", 15, 20), PanText, Page(PanText, 20))
PanVague    == [Pan EXCEPT !.keywords = {[Key EXCEPT !.whole = FALSE, !.grams = 6]}]
PanUnpriced == Find("card", Card("o8", Unknown, 20), PanText, Absent)

Market == [given |-> TRUE, listings |-> 30, top10 |-> 500, opportunity |-> 60, daily |-> 12,
           volume |-> 1500, sales |-> 500, seasonal |-> FALSE]
NoMarket == [Market EXCEPT !.given = FALSE, !.listings = Unknown, !.top10 = Unknown, !.opportunity = Unknown,
              !.daily = Unknown, !.volume = Unknown, !.sales = Unknown]

Pair(reply) == [amazonLoaded |-> 1, supplierLoaded |-> 1, reply |-> reply]
Scene(product, searches, market, reply) ==
  [product |-> product, searches |-> searches, market |-> market,
   analysis |-> [NoAnalysis EXCEPT !.category = IF product.family = None THEN "cookware" ELSE "storage"],
   llm |-> reply # "off", pair |-> Pair(reply),
   answer |-> [outcome |-> "answered", match |-> IF reply = "no" THEN "no" ELSE "yes", confidence |-> 900]]

BoxSearches == {<<Good, Unpriced, Pageless, Sofa>>, <<Costly, Pageless>>, <<Costly, Good>>}
MCScenarios ==
  {Scene(BoxProduct, BoxSearches, Market, r) : r \in {"off", "yes", "no", "error"}} \cup
  {Scene(BoxProduct, BoxSearches, NoMarket, "off"),
   Scene([BoxProduct EXCEPT !.price = 0], {<<Good>>}, Market, "off"),
   Scene([BoxProduct EXCEPT !.weight = Unknown], {<<Good>>}, Market, "off"),
   Scene([PanProduct EXCEPT !.price = 1999], {<<PanVague, PanUnpriced, PanVague>>, <<PanCard>>, <<>>}, Market, "off"),
   Scene(PanProduct, {<<Pan, PanCard>>}, Market, "yes")}
=============================================================================
