----------------------------- MODULE Discovery ------------------------------
(* The discovery of products: the keyword search of crawlers/amazon_search.py *)
(* and the best sellers of crawlers/amazon_scrapling.py, as functions of what *)
(* the pages of Amazon turn out to be.                                        *)
EXTENDS RetryPolicy, Integers, Sequences, SequencesExt

CONSTANT Catalogue  \* the products a search can find, in the order of its results

Asins == Range(Catalogue)

\* A list names a product once (parse_search_results_html, _collect_asins and
\* _dedupe_products_by_asin see to it).
ASSUME CatalogueAssumption == Catalogue \in Seq(Asins) /\ IsInjective(Catalogue)

\* What a search comes to before its results are read (classify_search_page, and
\* parse_search_results_html when it is left with sponsored results only).
SearchPages == {"results_detected", "no_results", "captcha", "unexpected_page",
                "no_organic_results", "unreachable"}

\* What the page of a product turns out to be.  An off-query product has a title,
\* or a target category, that the keyword does not ask for.
DetailPages == {"product", "off_query", "captcha", "unreachable"}

\* The text of AmazonSearchFailure names the kind of the page; every other error
\* is wrapped, and loses its class.
SearchError(kind) ==
  CASE kind = "unreachable" -> Plain("RuntimeError")
    [] kind = "captcha"     -> Error("AmazonSearchFailure", "", "human marker")
    [] OTHER                -> Plain("AmazonSearchFailure")

Found(products) == [raised |-> {}, products |-> products]
Raised(e) == [raised |-> {e}, products |-> <<>>]

\* _scrape_product, product by product: those whose page cannot be read are left
\* out, whatever kept it from being read.
Hydrated(asins, detail, wanted) ==
  LET hydrated[i \in 0 .. Len(asins)] ==
        IF i = 0 THEN <<>>
        ELSE IF detail[asins[i]] \in wanted THEN Append(hydrated[i - 1], asins[i])
        ELSE hydrated[i - 1]
  IN  hydrated[Len(asins)]

\* search_amazon_products
SearchAmazonProducts(kind, detail) ==
  LET products == Hydrated(Catalogue, detail, {"product"})
  IN  IF kind # "results_detected" THEN Raised(SearchError(kind))
      ELSE IF products = <<>> THEN Raised(Plain("RuntimeError"))
      ELSE Found(products)

\* _collect_asins: the list ends at the first page that is missing or a captcha,
\* after `reached` products.
CollectAsins(reached) == SubSeq(Catalogue, 1, reached)

\* scrape_best_sellers returns what it has, nothing included.
ScrapeBestSellers(reached, detail) ==
  Found(Hydrated(CollectAsins(reached), detail, {"product", "off_query"}))

\* _collect_source_products, by keyword and by category.
Discoveries ==
  {SearchAmazonProducts(kind, detail) : kind \in SearchPages, detail \in [Asins -> DetailPages]}
  \cup {ScrapeBestSellers(reached, detail) :
          reached \in 0 .. Len(Catalogue), detail \in [Asins -> DetailPages]}

DiscoveredProducts == {d.products : d \in {e \in Discoveries : e.raised = {}}}
DiscoveryErrors == UNION {d.raised : d \in Discoveries}
=============================================================================
