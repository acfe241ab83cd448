---------------------------- MODULE OfferReadings ----------------------------
(* How an offer is read: from the card of a search page                      *)
(* (alibaba_playwright.py), from the items of the open platform              *)
(* (alibaba_text_search.py, alibaba_pifatuan.py), from what a person imports *)
(* (imported_suppliers.py), and from the offer's own page                    *)
(* (alibaba_detail.py).                                                      *)
(*                                                                           *)
(* What the code's patterns and key lookups find is given: a field is the    *)
(* number or the name found, or Unknown or None.  Prices are in whole yuan,  *)
(* rates in thousandths.                                                     *)
EXTENDS SupplierMatching
LOCAL INSTANCE TLC

\* An offer of which nothing is known.
BlankText == [phrases |-> {}, dimensions |-> <<>>, weight |-> Unknown, capacity |-> Unknown,
  pack |-> Unknown, features |-> {}, risks |-> {}, families |-> {}, replacement |-> FALSE,
  accessoryOf |-> {}, subtypes |-> {}, broadShade |-> FALSE, fuels |-> {}, shape |-> None,
  numbers |-> <<>>, materials |-> {}, components |-> {}]

BlankDetail == [moq |-> Unknown, price |-> Unknown, tiers |-> <<>>, delivery |-> Unknown,
  dimensions |-> <<>>, weight |-> Unknown, material |-> None, color |-> None, type |-> None,
  function |-> None, package |-> Unknown, profile |-> NoProfile, supplierType |-> None, risks |-> {}]

BlankOffer == [id |-> None, source |-> None, method |-> None, moq |-> Unknown, price |-> Unknown,
  tiers |-> <<>>, sales |-> Unknown, repeat |-> Unknown, factory |-> None, delivery |-> Unknown,
  fba |-> FALSE, dimensions |-> <<>>, weight |-> Unknown, material |-> None, color |-> None,
  title |-> {}, text |-> BlankText, image |-> FALSE, keywords |-> {}, similarity |-> Unknown,
  score |-> Unknown, specScore |-> Unknown, rank |-> Unknown, sourceability |-> Unknown,
  conflicts |-> {}, visual |-> None, decision |-> None, spec |-> None, profile |-> NoProfile,
  detail |-> BlankDetail, risks |-> {}]

\* The first of several patterns, keys or elements that gives something.
FirstKnown(found, default) ==
  LET hits == {i \in DOMAIN found : found[i] # Unknown}
  IN  IF hits = {} THEN default ELSE found[Min(hits)]

-----------------------------------------------------------------------------
(* Cards.                                                                    *)

\* _parse_price: an amount alone behind its sign is taken as it is, any other
\* only up to 9999.
ParsePrice(t) ==
  CASE t.alone # Unknown -> t.alone
    [] t.alone = Unknown /\ t.loose \in 1..9999 -> t.loose
    [] OTHER -> Unknown

\* _parse_monthly_sales: four of the patterns count in ten thousands.
ParseMonthlySales(found) ==
  FirstKnown([i \in DOMAIN found |-> IF i <= 4 /\ found[i] # Unknown THEN 10000 * found[i] ELSE found[i]], Unknown)

\* _parse_repeat_rate
ParseRepeatRate(percent) == IF percent = Unknown THEN Unknown ELSE 10 * percent

\* _parse_moq: a card that does not say has a minimum order of one.
ParseMoq(found) == FirstKnown(found, 1)

\* _parse_playwright_card: the price of the first price element that has one,
\* else that of the whole text; a card always says factory or not, and never
\* when it delivers.
CardOffer(card) ==
  LET stated == [i \in DOMAIN card.prices |-> ParsePrice(card.prices[i])]
      price  == FirstKnown(stated, ParsePrice(card.whole))
  IN  [BlankOffer EXCEPT
        !.id = card.id, !.source = "alibaba_playwright", !.title = card.title, !.image = card.image,
        !.price = price, !.tiers = IF price > 0 THEN <<[qty |-> 1, price |-> price]>> ELSE <<>>,
        !.moq = ParseMoq(card.moqs), !.sales = ParseMonthlySales(card.sales),
        !.repeat = ParseRepeatRate(card.percent),
        !.factory = IF card.factoryWords THEN "yes" ELSE "no"]

-----------------------------------------------------------------------------
(* Items of the interfaces and of imports.                                   *)

\* The base price of both interfaces: the second tier, or the only one.
SecondTier(tiers) == IF tiers = <<>> THEN Unknown ELSE tiers[Smaller(2, Len(tiers))].price

\* _item_to_dto of the text search: tiers default to quantity 1 and price 0,
\* zero is no minimum order.
TextSearchOffer(item) ==
  LET tiers == [i \in DOMAIN item.ranges |->
                  [qty   |-> FirstKnown(<<item.ranges[i].qty>>, 1),
                   price |-> FirstKnown(<<item.ranges[i].price>>, 0)]]
  IN  [BlankOffer EXCEPT
        !.id = item.id, !.source = "alibaba_text_search", !.title = item.title, !.image = item.image,
        !.moq = OrNumber(item.moq, Unknown), !.tiers = tiers,
        !.price = OrNumber(SecondTier(tiers), Unknown), !.sales = item.sales,
        !.repeat = item.rate, !.factory = IF item.factory = "yes" THEN "yes" ELSE "no"]

\* _price_tiers and _item_to_supplier of the pifatuan interfaces, before the
\* item is read as a detail as well; a rate in percent stays one.
PifatuanOffer(item) ==
  LET priced == SelectSeq(item.ranges, LAMBDA t : t.price # Unknown)
      tiers  == [i \in DOMAIN priced |-> [priced[i] EXCEPT !.qty = OrNumber(@, 1)]]
  IN  [BlankOffer EXCEPT
        !.id = item.id, !.source = "alibaba_pifatuan", !.title = item.title, !.image = item.image,
        !.moq = item.moq, !.tiers = tiers, !.price = OrNumber(SecondTier(tiers), item.price),
        !.sales = item.sales, !.repeat = item.rate, !.delivery = item.delivery,
        !.factory = IF item.factory = "yes" \/ item.factoryType THEN "yes" ELSE "no"]

\* _item_to_imported_supplier: no tiers; factory may stay open.
ImportedOffer(item) ==
  [BlankOffer EXCEPT
    !.id = item.id, !.source = "alibaba_import", !.title = item.title, !.image = item.image,
    !.moq = item.moq, !.price = item.price, !.sales = item.sales, !.repeat = item.rate,
    !.delivery = item.delivery, !.factory = item.factory]

\* _parse_suppliers of an import: as an answer of the interface if that gives
\* any offer, else item by item; an item without an id gets one made from its
\* contents, one without a title and a name is dropped.
ImportedOffers(payload) ==
  LET answered == SelectSeq(payload.items, LAMBDA item : item.id # None)
      named    == Picked(payload.items, {i \in DOMAIN payload.items : payload.items[i].title # {} \/ payload.items[i].named})
  IN  IF payload.isObject /\ answered # <<>> THEN [i \in DOMAIN answered |-> PifatuanOffer(answered[i])]
      ELSE [i \in DOMAIN named |->
              ImportedOffer([named[i] EXCEPT !.id = IF @ = None THEN named[i].digest ELSE @])]

-----------------------------------------------------------------------------
(* The page of an offer.                                                     *)

\* _dedupe_tiers: of the tiers with one quantity the last stays, by quantity.
DedupedTiers(tiers) ==
  LET kept  == {i \in DOMAIN tiers : \A j \in DOMAIN tiers : j > i => tiers[j].qty # tiers[i].qty}
      order == Arranged(kept, {pair \in kept \X kept : tiers[pair[1]].qty < tiers[pair[2]].qty})
  IN  [n \in DOMAIN order |-> tiers[order[n]]]

\* _factory_flag
FactoryFlag(kind) == CASE kind = "factory" -> "yes" [] kind = "trader" -> "no" [] OTHER -> None

\* What a profile says of an offer in parse_1688_offer_detail.  Every family has
\* one function, which goes by its name.
Described(detail, profile, pack) ==
  [detail EXCEPT
    !.profile  = profile,
    !.type     = profile.relation,
    !.function = profile.family,
    !.package  = IF "piece_count" \in DOMAIN profile.numeric THEN profile.numeric["piece_count"] ELSE pack]

\* parse_1688_offer_detail: the fields of the page's data, else what its text
\* says; the price is the least of the tiers.
ParsedDetail(data, text) ==
  LET tiers == DedupedTiers(IF data.tiers # <<>> THEN data.tiers
                            ELSE SelectSeq(text.tiers, LAMBDA t : t.price > 0))
      spec  == SpecFromText(text.words)
      detail == [BlankDetail EXCEPT
        !.moq = FirstKnown(<<data.moq, text.moq>>, Unknown),
        !.price = IF tiers # <<>> THEN Min({tiers[i].price : i \in DOMAIN tiers}) ELSE data.price,
        !.tiers = tiers,
        !.delivery = FirstKnown(<<data.delivery, text.delivery>>, Unknown),
        !.dimensions = spec.dimensions, !.weight = spec.weight,
        !.material = spec.material, !.color = spec.color,
        !.supplierType = data.supplierType,
        !.risks = spec.risks \cup text.claims]
  IN  Described(detail, ProfileFromText(text.words), spec.pack)

\* _with_provenance: a field is extracted when it has a value.
ProvenFields == DOMAIN BlankDetail \ {"risks"}
Extracted(detail) == {f \in ProvenFields : detail[f] # BlankDetail[f]}

\* _merge_detail_evidence: what the page's best object gives goes before what
\* its text gives.
MergedDetail(fallback, structured) ==
  [f \in DOMAIN fallback |-> IF f \in Extracted(structured) THEN structured[f] ELSE fallback[f]]

\* apply_1688_detail_to_supplier: what the offer has, the defaults of its card
\* included, stays; the page fills in the rest and is kept beside it.
DetailApplied(o, detail) ==
  [o EXCEPT
    !.moq = OrNumber(@, detail.moq), !.price = OrNumber(@, detail.price),
    !.tiers = IF @ = <<>> THEN detail.tiers ELSE @,
    !.delivery = OrNumber(@, detail.delivery),
    !.dimensions = IF @ = <<>> THEN detail.dimensions ELSE @,
    !.weight = OrNumber(@, detail.weight),
    !.material = OrElse(@, detail.material), !.color = OrElse(@, detail.color),
    !.factory = OrElse(@, FactoryFlag(detail.supplierType)),
    !.detail = detail, !.risks = @ \cup detail.risks]

\* The text of a count, as _equal compares it.
CountText(n) == IF n = Unknown THEN None ELSE ToString(n)

\* The provenance records build_match_evidence reads: a detail is recent, comes
\* from a page and is believed to 0.95.
Proven(detail, field, value) ==
  [status |-> IF field \in Extracted(detail) THEN "extracted" ELSE "missing",
   value |-> value, sourced |-> TRUE, referenced |-> TRUE, confidence |-> 950,
   age |-> 0, future |-> FALSE, expired |-> FALSE]

\* _price_present and _moq_present look at the offer and at its detail.
DetailEvidence(o) ==
  LET d == o.detail
      field(f) == Proven(d, f, d[f])
      price == IF "price" \in Extracted(d) THEN "price" ELSE "tiers"
  IN  [function |-> field("function"), product_type |-> field("type"),
       price |-> Proven(d, price, price),
       priced |-> o.price > 0 \/ o.tiers # <<>> \/ d.price > 0 \/ d.tiers # <<>>,
       moq |-> Proven(d, "moq", "moq"), factory |-> field("supplierType"),
       package |-> Proven(d, "package", CountText(d.package)),
       compatibility |-> None, exclusive |-> FALSE]
=============================================================================
