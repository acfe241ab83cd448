--------------------------- MODULE ProductProfiles ---------------------------
(* What a product or an offer is known to be: the specification read from    *)
(* its text and attributes (matchers/product_spec.py) and the profile of the *)
(* four outdoor categories (domain/target_categories.py), with the two       *)
(* comparisons built on them.                                                *)
(*                                                                           *)
(* A text is the set of the phrases the code's tables can find in it, so a   *)
(* table lookup is a choice by the table's order.  Quantities are integers;  *)
(* a score is a number of thousandths, rounded down.                         *)
EXTENDS PythonLists, FiniteSetsExt

Unknown == -1          \* Python's None for a quantity

\* next(name for name in table if its phrase occurs), or the default.
FirstIn(table, found, default) ==
  LET hits == {i \in DOMAIN table : table[i] \in found}
  IN  IF hits = {} THEN default ELSE table[Min(hits)]

Abs(n) == IF n < 0 THEN -n ELSE n
Larger(a, b)  == IF a > b THEN a ELSE b
Smaller(a, b) == IF a < b THEN a ELSE b

\* round(earned / possible, 4), in thousandths, 0.0 when nothing is possible.
Ratio(earned, possible) == IF possible = 0 THEN 0 ELSE (1000 * earned) \div possible

Total(weights, names) == MapThenSumSet(LAMBDA n : weights[n], names)

-----------------------------------------------------------------------------
(* Specifications.                                                           *)

\* _find_alias, _infer_category: the tables are tried from the top.
CategoryTable == <<"heater", "furniture", "umbrella", "storage", "ant_bait", "cookware">>
MaterialTable == <<"steel", "plastic", "cotton">>
ColorTable    == <<"black", "white", "multi">>

\* spec_from_text; the numbers were parsed with their units into cm, g and ml.
SpecFromText(text) ==
  [category |-> FirstIn(CategoryTable, text.phrases, None),
   material |-> FirstIn(MaterialTable, text.phrases, None),
   color    |-> FirstIn(ColorTable, text.phrases, None),
   dimensions |-> text.dimensions, weight |-> text.weight,
   capacity   |-> text.capacity,   pack   |-> text.pack,
   features |-> text.features, risks |-> text.risks]

\* No image analysis was made.
NoAnalysis == [category |-> None, material |-> None, color |-> None, features |-> {}, dangerous |-> FALSE]

OrElse(value, fallback) == IF value = None THEN fallback ELSE value
OrNumber(value, fallback) == IF value <= 0 THEN fallback ELSE value

\* spec_from_product: the image analysis goes before the text for the names,
\* the product's own attributes only fill what the text left open.
SpecFromProduct(product, analysis) ==
  LET text == SpecFromText(product.text)
  IN  [text EXCEPT
        !.category = OrElse(analysis.category, OrElse(@, product.category)),
        !.material = OrElse(analysis.material, @),
        !.color    = OrElse(analysis.color, @),
        !.features = @ \cup analysis.features,
        !.risks    = @ \cup (IF analysis.dangerous THEN {"vision_dangerous_attr"} ELSE {}),
        !.weight   = IF @ = Unknown THEN OrNumber(product.weight, Unknown) ELSE @,
        !.dimensions = IF @ = <<>> THEN product.dimensions ELSE @]

\* spec_from_supplier: here the offer's own fields go before the text.
SpecFromSupplier(offer) ==
  LET text == SpecFromText(offer.text)
  IN  [text EXCEPT
        !.material = OrElse(offer.material, @),
        !.color    = OrElse(offer.color, @),
        !.dimensions = IF offer.dimensions = <<>> THEN @ ELSE offer.dimensions,
        !.weight   = OrNumber(offer.weight, @)]

-----------------------------------------------------------------------------
(* Comparing specifications.                                                 *)

\* The three-valued comparisons: _same_alias, _same_number, _close_number and
\* _close_dimensions.  An unknown on either side says nothing.
SameName(a, b) ==
  IF None \in {a, b} THEN "unknown" ELSE IF a = b THEN "same" ELSE "differ"

SameNumber(a, b) ==
  IF Unknown \in {a, b} THEN "unknown" ELSE IF a = b THEN "same" ELSE "differ"

\* The tolerance is in hundredths of the target's value.
CloseNumber(a, b, tolerance) ==
  CASE Unknown \in {a, b} -> "unknown"
    [] a = 0 -> IF b = 0 THEN "same" ELSE "differ"
    [] OTHER -> IF 100 * Abs(a - b) <= tolerance * a THEN "same" ELSE "differ"

\* Dimensions are sorted before they are compared; zip() stops at the shorter.
CloseDimensions(a, b) ==
  IF <<>> \in {a, b} THEN "unknown"
  ELSE IF \A i \in DOMAIN a \cap DOMAIN b : 100 * Abs(a[i] - b[i]) <= 15 * Larger(a[i], 1)
       THEN "same" ELSE "differ"

SpecAttributes == {"category", "material", "capacity", "pack_count", "dimensions", "color"}
SpecWeight == [category |-> 200, material |-> 120, capacity |-> 100,
               pack_count |-> 100, dimensions |-> 100, color |-> 40]

SpecVerdict(target, candidate) ==
  [category   |-> SameName(target.category, candidate.category),
   material   |-> SameName(target.material, candidate.material),
   capacity   |-> CloseNumber(target.capacity, candidate.capacity, 12),
   pack_count |-> SameNumber(target.pack, candidate.pack),
   dimensions |-> CloseDimensions(target.dimensions, candidate.dimensions),
   color      |-> SameName(target.color, candidate.color)]

SpecRequired(target) ==
  {a \in SpecAttributes :
     CASE a = "category"   -> target.category # None
       [] a = "material"   -> target.material # None
       [] a = "capacity"   -> target.capacity # Unknown
       [] a = "pack_count" -> target.pack # Unknown
       [] a = "dimensions" -> target.dimensions # <<>>
       [] OTHER            -> target.color # None}

\* compare_specs: what the target asks for is matched, missing (and worth 0.35
\* of its weight) or a conflict; the features weigh 0.8 together.
CompareSpecs(target, candidate, candidateFeatures) ==
  LET verdict   == SpecVerdict(target, candidate)
      counted   == SpecRequired(target)
      matched   == {a \in counted : verdict[a] = "same"}
      missing   == {a \in counted : verdict[a] = "unknown"}
      hits      == Cardinality(target.features \cap candidateFeatures)
      asked     == Cardinality(target.features)
      featured  == IF asked = 0 THEN 0 ELSE IF hits = 0 THEN 20 ELSE (80 * hits) \div asked
      earned    == Total(SpecWeight, matched) + (35 * Total(SpecWeight, missing)) \div 100 + featured
      possible  == Total(SpecWeight, counted) + (IF asked = 0 THEN 0 ELSE 80)
      feature   == IF asked = 0 THEN {} ELSE {"features"}
  IN  [score     |-> Ratio(earned, possible),
       matched   |-> matched \cup (IF hits > 0 THEN feature ELSE {}),
       missing   |-> missing \cup (IF hits = 0 THEN feature ELSE {}),
       conflicts |-> {a \in counted : verdict[a] = "differ"}]

-----------------------------------------------------------------------------
(* Profiles of the target categories.                                        *)

GenericSubtypes == {"outdoor_storage", "patio_heater", "patio_furniture_set",
                    "umbrella_shade", "patio_umbrella"}

\* classify_target_category: furniture before heaters, shade and storage.
FamilyTable == <<"patio_furniture_sets", "patio_heater", "patio_umbrellas_shade", "outdoor_storage">>
ClassifyTargetCategory(text) == FirstIn(FamilyTable, text.families, None)

\* _relation: a replacement in any family, an accessory of the own family.
Relation(text, family) ==
  CASE text.replacement -> "replacement"
    [] ~text.replacement /\ family \in text.accessoryOf -> "accessory"
    [] OTHER -> "full_product"

SubtypeTable(family) ==
  CASE family = "outdoor_storage" ->
         <<"storage_shed", "storage_cabinet", "storage_bench", "deck_box", "storage_bin">>
    [] family = "patio_heater" ->
         <<"pyramid_heater", "mushroom_heater", "tabletop_heater", "wall_mounted_heater",
           "hanging_heater", "freestanding_heater">>
    [] family = "patio_furniture_sets" ->
         <<"sectional_set", "dining_set", "bistro_set", "conversation_set", "sofa_set">>
    [] OTHER ->
         <<"shade_sail", "gazebo_canopy", "cantilever_umbrella", "beach_umbrella",
           "clamp_umbrella", "market_umbrella">>

\* _subtype: accessories have a subtype of their own in two families; the name
\* of the whole shade category hides the subtypes unless one is explicit.
Subtype(text, family, relation) ==
  CASE family = "patio_furniture_sets" /\ relation # "full_product" -> "furniture_accessory"
    [] family = "patio_umbrellas_shade" /\ relation = "replacement" -> "replacement_canopy"
    [] family = "patio_umbrellas_shade" /\ relation = "accessory"   -> "umbrella_accessory"
    [] family = "patio_umbrellas_shade" /\ text.broadShade
         /\ text.subtypes \cap {SubtypeTable(family)[i] : i \in 1..6} = {} -> "umbrella_shade"
    [] OTHER -> FirstIn(SubtypeTable(family), text.subtypes,
                        CASE family = "patio_furniture_sets"  -> "patio_furniture_set"
                          [] family = "patio_umbrellas_shade" -> "patio_umbrella"
                          [] OTHER -> family)

FuelTable == <<"natural_gas", "propane", "electric">>

\* _numeric: which quantities the parser looks for in a text of the family.
QuantitiesOf(family, subtype) ==
  {"dimensions_cm", "weight_kg"} \cup
  CASE family = "outdoor_storage"      -> {"capacity_l"}
    [] family = "patio_heater"         -> {"heat_output_btu", "power_w", "heating_area_sqft"}
    [] family = "patio_furniture_sets" -> {"piece_count", "seating_count"}
    [] OTHER -> {"pole_diameter_cm", "rib_count", "fabric_gsm"} \cup
                (IF subtype \in {"shade_sail", "gazebo_canopy"} THEN {} ELSE {"canopy_diameter_cm"})

\* _missing_critical.
MissingCritical(p) ==
  LET has(n) == n \in DOMAIN p.numeric
      lacks(cond, name) == IF cond THEN {name} ELSE {}
  IN  lacks(p.subtype \in GenericSubtypes, "subtype") \cup
      CASE p.family = "outdoor_storage" ->
             lacks(~has("capacity_l") /\ ~has("dimensions_cm"), "capacity_or_dimensions")
        [] p.family = "patio_heater" ->
             lacks(p.fuel = None, "fuel_type") \cup
             lacks(~has("heat_output_btu") /\ ~has("power_w"), "heat_output")
        [] p.family = "patio_furniture_sets" ->
             lacks(~has("piece_count"), "piece_count") \cup lacks(p.components = {}, "components")
        [] p.subtype \in {"market_umbrella", "cantilever_umbrella", "beach_umbrella", "clamp_umbrella"} ->
             lacks(~has("canopy_diameter_cm"), "canopy_diameter_cm")
        [] p.subtype = "shade_sail" -> lacks(~has("dimensions_cm"), "dimensions_cm")
        [] OTHER -> {}

NoProfile == [family |-> None, subtype |-> None, relation |-> None, fuel |-> None, shape |-> None,
              numeric |-> <<>>, materials |-> {}, components |-> {}, missing |-> {}]

WithMissing(p) == [p EXCEPT !.missing = MissingCritical(p)]

\* profile_from_text.
ProfileFromText(text) ==
  LET family   == ClassifyTargetCategory(text)
      relation == Relation(text, family)
      subtype  == Subtype(text, family, relation)
  IN  IF family = None THEN NoProfile
      ELSE WithMissing(
        [family |-> family, subtype |-> subtype, relation |-> relation,
         fuel |-> IF family = "patio_heater" THEN FirstIn(FuelTable, text.fuels, None) ELSE None,
         shape |-> text.shape,
         numeric |-> [q \in DOMAIN text.numbers \cap QuantitiesOf(family, subtype) |-> text.numbers[q]],
         materials |-> text.materials, components |-> text.components, missing |-> {}])

\* profile_from_product: setdefault of the listing's size and weight, after
\* which what is missing is worked out again.
ProfileFromProduct(text, measures) ==
  LET p     == ProfileFromText(text)
      extra == {q \in DOMAIN measures : measures[q] > 0} \ DOMAIN p.numeric
  IN  IF p.family = None THEN p
      ELSE WithMissing([p EXCEPT !.numeric =
             [q \in DOMAIN p.numeric \cup extra |->
                IF q \in extra THEN measures[q] ELSE p.numeric[q]]])

-----------------------------------------------------------------------------
(* Comparing profiles.                                                       *)

\* The tolerances of compare_target_profiles, in hundredths; 0 stands for the
\* counts, which have to be equal.
Tolerance(q) ==
  CASE q \in {"piece_count", "seating_count", "rib_count"} -> 0
    [] q = "capacity_l" -> 12
    [] q \in {"heat_output_btu", "power_w", "canopy_diameter_cm", "pole_diameter_cm"} -> 10
    [] q = "heating_area_sqft" -> 20
    [] OTHER -> 15

QuantityWeight(q) ==
  CASE q = "dimensions_cm" -> 20
    [] q \in {"piece_count", "heat_output_btu", "canopy_diameter_cm"} -> 25
    [] OTHER -> 12

\* _close, _dimensions_close.
Close(left, right, tolerance) == 100 * Abs(left - right) <= tolerance * Larger(Abs(left), 1)

CriticalMissing ==
  {"candidate.category_profile", "candidate.subtype", "candidate.fuel_type",
   "candidate.capacity_l", "candidate.dimensions_cm", "candidate.heat_output_btu",
   "candidate.power_w", "candidate.piece_count", "candidate.canopy_diameter_cm",
   "target.subtype", "target.capacity_or_dimensions", "target.fuel_type",
   "target.heat_output", "target.piece_count", "target.components",
   "target.canopy_diameter_cm", "target.dimensions_cm"}

CandidateGap == [category |-> "candidate.category", relation |-> "candidate.relation",
  subtype |-> "candidate.subtype", fuel_type |-> "candidate.fuel_type", shape |-> "candidate.shape",
  materials |-> "candidate.materials", dimensions_cm |-> "candidate.dimensions_cm",
  weight_kg |-> "candidate.weight_kg", capacity_l |-> "candidate.capacity_l",
  heat_output_btu |-> "candidate.heat_output_btu", power_w |-> "candidate.power_w",
  heating_area_sqft |-> "candidate.heating_area_sqft", piece_count |-> "candidate.piece_count",
  seating_count |-> "candidate.seating_count", canopy_diameter_cm |-> "candidate.canopy_diameter_cm",
  pole_diameter_cm |-> "candidate.pole_diameter_cm", rib_count |-> "candidate.rib_count",
  fabric_gsm |-> "candidate.fabric_gsm"]

TargetGap == [subtype |-> "target.subtype", capacity_or_dimensions |-> "target.capacity_or_dimensions",
  fuel_type |-> "target.fuel_type", heat_output |-> "target.heat_output",
  piece_count |-> "target.piece_count", components |-> "target.components",
  canopy_diameter_cm |-> "target.canopy_diameter_cm", dimensions_cm |-> "target.dimensions_cm"]

NameAttributes == {"category", "relation", "subtype", "fuel_type", "shape"}
NameWeight == [category |-> 30, relation |-> 30, subtype |-> 25, fuel_type |-> 30, shape |-> 8]

NameOf(p) == [category |-> p.family, relation |-> p.relation, subtype |-> p.subtype,
              fuel_type |-> p.fuel, shape |-> p.shape]

\* The names the target is compared on: a generic subtype is not.
ComparedNames(target) ==
  {n \in NameAttributes : /\ NameOf(target)[n] # None
                          /\ n = "subtype" => target.subtype \notin GenericSubtypes}

\* compare_target_profiles: any conflict rejects, a critical gap asks for a
\* person, and the rest is decided by the share of the weight that matched.
CompareTargetProfiles(target, candidate) ==
  LET names   == ComparedNames(target)
      numbers == DOMAIN target.numeric
      shared  == numbers \cap DOMAIN candidate.numeric
      equal(n) == NameOf(target)[n] = NameOf(candidate)[n]
      near(q) == Close(target.numeric[q], candidate.numeric[q], Tolerance(q))
      both    == target.materials # {} /\ candidate.materials # {}
      overlap == target.materials \cap candidate.materials # {}
      material(cond) == IF cond THEN {"materials"} ELSE {}
      absent  == {n \in names : NameOf(candidate)[n] = None}
      matched == {n \in names : equal(n)} \cup {q \in shared : near(q)} \cup material(overlap)
      differ  == {n \in names \ absent : ~equal(n) /\ n # "shape"}
                   \cup {q \in shared : ~near(q)} \cup material(both /\ ~overlap)
      gaps    == absent \cup (numbers \ shared)
                   \cup material(target.materials # {} /\ candidate.materials = {})
      missing == {TargetGap[g] : g \in target.missing} \cup
                 (IF candidate.family = None THEN {"candidate.category_profile"}
                  ELSE {CandidateGap[g] : g \in gaps} \cup
                       {"candidate.shape_mismatch" : n \in {m \in {"shape"} \cap (names \ absent) : ~equal(m)}})
      worth(s) == Total(NameWeight, s \cap NameAttributes)
                    + MapThenSumSet(QuantityWeight, s \cap numbers)
                    + (IF "materials" \in s THEN 10 ELSE 0)
      score   == Ratio(worth(matched), worth(names \cup numbers \cup material(target.materials # {})))
  IN  IF candidate.family = None
      THEN [score |-> 0, decision |-> "manual_review", matched |-> {}, missing |-> missing, conflicts |-> {}]
      ELSE [score |-> score, matched |-> matched, missing |-> missing, conflicts |-> differ,
            decision |-> CASE differ # {} -> "reject"
                           [] differ = {} /\ (missing \cap CriticalMissing # {} \/ score < 800) -> "manual_review"
                           [] OTHER -> "keep"]

\* understanding_from_target_profile: what the sourcing queries are made of.
UnderstandingFromProfile(profile, brand) ==
  [kind     |-> IF profile.relation = "full_product" THEN "full_product" ELSE "replacement",
   category |-> profile.family,
   pack     |-> IF "piece_count" \in DOMAIN profile.numeric THEN profile.numeric["piece_count"] ELSE Unknown,
   dimensions |-> DOMAIN profile.numeric \ {"piece_count", "weight_kg", "heating_area_sqft"},
   material |-> profile.materials,
   excluded |-> {brand} \ {None},
   uncertain |-> profile.missing]
=============================================================================
